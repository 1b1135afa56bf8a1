------------------------ MODULE ManagedHosts_proofs ------------------------
(***************************************************************************)
(* Theorems about the managed hosts.                                       *)
(*   - SshKeys: the machine's keys and the API's key pair are both written *)
(*     in two steps (a file is emptied, then filled), so the invariant     *)
(*     says what stands in each file while a request stands between its    *)
(*     steps: a lone request that nothing cut off takes the files from one *)
(*     whole pair to another.                                              *)
(*   - LocalSupervisor: an API that signs off has stopped collecting, so   *)
(*     no heartbeat of its own follows the last one.                       *)
(*   - HostCredentials: a command between two of its steps can rely on     *)
(*     what it has read and done as long as it runs alone; the invariant   *)
(*     says, for each step, what that is.                                  *)
(*   - DockerStatePair: scripts that run beside each other have the same   *)
(*     privilege, and each may generate a key at each of its two reads;    *)
(*     the invariant counts the reads that are left.                       *)
(*   - AgentLifecycle: what happens to an agent between the steps of an    *)
(*     operation never shakes what the next step relies on; the invariant  *)
(*     says, for each step of each operation, what that is of the host and *)
(*     of the credentials, and keeps jobs, credentials and the clock in    *)
(*     order.                                                              *)
(*   - SshTrust: a request that writes alone has read the pins as they are *)
(*     and knows the endpoint as it is; the invariant says so, keeps what  *)
(*     is read among what users have vouched for, and what an undisturbed  *)
(*     connection has read as it still is.                                 *)
(***************************************************************************)
EXTENDS MCHosts, TLAPS, FiniteSetTheorems

-----------------------------------------------------------------------------
(* SshKeys *)

\* What a request may hold.
Call == [ step : {"idle", "private", "public", "make", "fillPrivate", "openPublic", "fillPublic",
                  "dial", "openRemote", "fillRemote", "mark"},
          pair : Int, private : Int, seen : SUBSET (Admins \cup Int),
          result : {"none", "ok", "failed"} ]

\* What a request carries: keys there are, and a pair once it has one.
CallsAreTyped ==
  /\ pairs \in Nat
  /\ authorized \subseteq Admins \cup Int
  /\ call \in [Callers -> Call]
  /\ \A t \in Callers :
       /\ call[t].step \in {"fillPrivate", "openPublic", "fillPublic"} => call[t].pair \in 1 .. pairs
       /\ call[t].step \in {"dial", "openRemote", "fillRemote", "mark"} => call[t].pair \in Blank .. pairs
       /\ \A k \in call[t].seen : k \in added \/ k \in 0 .. pairs

\* Until requests overlap there is one of them at a time.
Alone ==
  ~ overlapped =>
    \A t, u \in Callers : ~ Stands(t, "idle") /\ ~ Stands(u, "idle") => t = u

\* A pair is installed only when its second file has been written.
SecondFileFirst ==
  public = NoFile =>
    /\ authorized \subseteq added
    /\ \A t \in Callers :
         call[t].step \notin {"fillPublic", "dial", "openRemote", "fillRemote", "mark"}

\* What a lone request has read is so still; a file is emptied before it is filled.
ReadsHold ==
  ~ overlapped =>
    \A t \in Callers :
      /\ Stands(t, "public") => call[t].private = private
      /\ Stands(t, "make") => ~ WholePair(private, public)
      /\ Stands(t, "fillPrivate") => private = Blank

\* Both files hold the same pair, or neither is there.
Even == private = public /\ private \in {NoFile} \cup 0 .. pairs

\* The API's key opens the machine, or will when the file is filled again.
Opens == /\ private \in 1 .. pairs
         /\ private \in authorized
            \/ \E t \in Callers : Stands(t, "fillRemote") /\ private \in call[t].seen

\* A lone request that nothing cut off takes the files from one pair to another.
FilesFollow ==
  ~ overlapped /\ ~ cut =>
    /\ (\A t \in Callers : Stands(t, "idle")) => Even
    /\ \A t \in Callers :
         /\ call[t].step \in {"private", "public", "make"} => Even
         /\ Stands(t, "openPublic") => private = call[t].pair
         /\ Stands(t, "fillPublic") => private = call[t].pair
         /\ call[t].step \in {"dial", "openRemote", "fillRemote", "mark"} =>
              private = public /\ private = call[t].pair /\ private \in 1 .. pairs
         /\ Stands(t, "openRemote") => call[t].seen = authorized
         /\ Stands(t, "fillRemote") => added \subseteq call[t].seen
         /\ Stands(t, "mark") => private \in authorized
         /\ call[t].result = "ok" => Opens
    /\ added \subseteq authorized \/ \E t \in Callers : Stands(t, "fillRemote")

KeysInv == /\ KeysTypeOK /\ CallsAreTyped /\ Alone /\ SecondFileFirst /\ ReadsHold /\ FilesFollow

\* At first no request is under way, and both files are there or neither is.
LEMMA KeysInvInit == KInit => KeysInv
<1> SUFFICES ASSUME KInit PROVE KeysInv
  OBVIOUS
<1>1. Caller \in Call
  BY DEF Caller, Call, NoFile
<1>2. /\ pairs = 0 /\ added = {} /\ call \in [Callers -> Call]
      /\ authorized \subseteq Admins \cup Int
  BY <1>1 DEF KInit
<1>3. \A t \in Callers :
        call[t].step = "idle" /\ call[t].seen = {} /\ call[t].result = "none"
  BY DEF KInit, Caller
<1>4. provisioned \in BOOLEAN
  BY Zenon DEF KInit
<1>5. KeysTypeOK
  BY <1>4, KeysAssumption DEF KInit, KeysTypeOK, NoFile
<1>6. CallsAreTyped
  BY <1>2, <1>3 DEF CallsAreTyped
<1>7. \/ private = NoFile /\ public = NoFile /\ authorized = {}
      \/ private = 0 /\ public = 0
  BY DEF KInit
<1>8. Alone
  BY <1>3 DEF Alone, Stands
<1>9. SecondFileFirst
  BY <1>3, <1>7 DEF SecondFileFirst, NoFile
<1>10. ReadsHold
  BY <1>3 DEF ReadsHold, Stands
<1>11. FilesFollow
  BY <1>2, <1>3, <1>7 DEF FilesFollow, Even, Stands, NoFile
<1> QED
  BY <1>5, <1>6, <1>8, <1>9, <1>10, <1>11 DEF KeysInv

\* A step of a request in progress leaves the others to themselves, who are idle
\* until requests overlap.
LEMMA OthersRest ==
  ASSUME KeysInv, NEW t \in Callers, ~ Stands(t, "idle"), overlapped' = overlapped,
         \A u \in Callers : u # t => call'[u] = call[u]
  PROVE  Alone' /\ (~ overlapped => \A u \in Callers : u # t => Stands(u, "idle"))
  BY DEF KeysInv, Alone, Stands

\* Reading the private key leaves the files alone.
LEMMA ReadPrivateStep ==
  ASSUME KeysInv, NEW t \in Callers, ReadPrivate(t)
  PROVE  KeysInv'
<1> DEFINE r == [call[t] EXCEPT !.private = private, !.step = "public"]
<1>1. /\ call \in [Callers -> Call] /\ private \in Int /\ KeysTypeOK /\ CallsAreTyped
      /\ SecondFileFirst /\ ReadsHold /\ FilesFollow /\ call[t].step = "private"
      /\ UNCHANGED <<private, public, authorized, added, provisioned, calls, failures, pairs, overlapped, cut>>
  BY DEF KeysInv, CallsAreTyped, KeysTypeOK, ReadPrivate, Stands, NoFile
<1>2. /\ call' = [call EXCEPT ![t] = r] /\ r \in Call
      /\ r.step = "public" /\ r.private = private /\ r.pair = call[t].pair
      /\ r.seen = call[t].seen /\ r.result = call[t].result
  BY <1>1 DEF ReadPrivate, Call
<1> HIDE DEF r
<1>3. /\ call' \in [Callers -> Call] /\ call'[t] = r
      /\ \A u \in Callers : u # t => call'[u] = call[u]
  BY <1>1, <1>2
<1>4. Alone' /\ (~ overlapped => \A u \in Callers : u # t => Stands(u, "idle"))
  BY <1>1, <1>3, OthersRest DEF Stands
<1>5. KeysTypeOK'
  BY <1>1 DEF KeysTypeOK
<1>6. CallsAreTyped'
  BY <1>1, <1>2, <1>3 DEF CallsAreTyped
<1>7. SecondFileFirst'
  BY <1>1, <1>2, <1>3 DEF SecondFileFirst
<1>8. ReadsHold'
  BY <1>1, <1>2, <1>3, <1>4 DEF ReadsHold, Stands, WholePair
<1>9. FilesFollow'
  BY <1>1, <1>2, <1>3, <1>4 DEF FilesFollow, Stands, Even, Opens
<1> QED
  BY <1>4, <1>5, <1>6, <1>7, <1>8, <1>9 DEF KeysInv

\* A new pair empties the private file; it was not whole before.
LEMMA MakeStep ==
  ASSUME KeysInv, NEW t \in Callers, Make(t)
  PROVE  KeysInv'
<1> DEFINE r == [call[t] EXCEPT !.pair = pairs', !.step = "fillPrivate"]
<1>1. /\ call \in [Callers -> Call] /\ {private, public, pairs} \subseteq Int /\ pairs \in Nat
      /\ authorized \subseteq Admins \cup Int
      /\ KeysTypeOK /\ CallsAreTyped /\ SecondFileFirst /\ ReadsHold /\ FilesFollow
      /\ call[t].step = "make"
      /\ UNCHANGED <<public, authorized, added, provisioned, calls, failures, overlapped, cut>>
  BY DEF KeysInv, CallsAreTyped, KeysTypeOK, Make, Stands, NoFile, Blank
<1>0. ~ overlapped => private = NoFile \/ public = NoFile \/ private = 0
  BY <1>1 DEF ReadsHold, WholePair, Stands
<1>2. /\ call' = [call EXCEPT ![t] = r] /\ r \in Call
      /\ r.step = "fillPrivate" /\ r.pair = pairs' /\ pairs' = pairs + 1 /\ private' = Blank
      /\ r.seen = call[t].seen /\ r.result = call[t].result
  BY <1>1 DEF Make, Call, To, Done, Caller, NoFile
<1> HIDE DEF r
<1>3. /\ call' \in [Callers -> Call] /\ call'[t] = r
      /\ \A u \in Callers : u # t => call'[u] = call[u]
  BY <1>1, <1>2
<1>4. Alone' /\ (~ overlapped => \A u \in Callers : u # t => Stands(u, "idle"))
  BY <1>1, <1>3, OthersRest DEF Stands
<1>5. KeysTypeOK'
  BY <1>0, <1>1, <1>2 DEF KeysTypeOK, Blank, NoFile
<1>6. CallsAreTyped'
  BY <1>0, <1>1, <1>2, <1>3 DEF CallsAreTyped, Blank, NoFile
<1>7. SecondFileFirst'
  BY <1>0, <1>1, <1>2, <1>3 DEF SecondFileFirst, Blank, NoFile
<1>8. ReadsHold'
  BY <1>1, <1>2, <1>3, <1>4 DEF ReadsHold, Stands, WholePair, Blank, NoFile
<1>9. FilesFollow'
  BY <1>0, <1>1, <1>2, <1>3, <1>4 DEF FilesFollow, Stands, Even, Opens, Blank, NoFile
<1> QED
  BY <1>4, <1>5, <1>6, <1>7, <1>8, <1>9 DEF KeysInv

\* The private file is filled with the new pair.
LEMMA FillPrivateStep ==
  ASSUME KeysInv, NEW t \in Callers, FillPrivate(t)
  PROVE  KeysInv'
<1> DEFINE r == [call[t] EXCEPT !.step = "openPublic"]
<1>1. /\ call \in [Callers -> Call] /\ {private, public, pairs} \subseteq Int /\ pairs \in Nat
      /\ authorized \subseteq Admins \cup Int
      /\ KeysTypeOK /\ CallsAreTyped /\ SecondFileFirst /\ ReadsHold /\ FilesFollow
      /\ call[t].step = "fillPrivate"
      /\ UNCHANGED <<public, authorized, added, provisioned, calls, failures, pairs, overlapped, cut>>
  BY DEF KeysInv, CallsAreTyped, KeysTypeOK, FillPrivate, Stands, NoFile, Blank
<1>0. call[t].pair \in 1 .. pairs /\ (~ overlapped => private = Blank)
  BY <1>1 DEF CallsAreTyped, ReadsHold, Stands
<1>2. /\ call' = [call EXCEPT ![t] = r] /\ r \in Call
      /\ r.step = "openPublic" /\ r.pair = call[t].pair /\ private' = call[t].pair
      /\ r.seen = call[t].seen /\ r.result = call[t].result
  BY <1>1 DEF FillPrivate, Call, To, Done, Caller, NoFile
<1> HIDE DEF r
<1>3. /\ call' \in [Callers -> Call] /\ call'[t] = r
      /\ \A u \in Callers : u # t => call'[u] = call[u]
  BY <1>1, <1>2
<1>4. Alone' /\ (~ overlapped => \A u \in Callers : u # t => Stands(u, "idle"))
  BY <1>1, <1>3, OthersRest DEF Stands
<1>5. KeysTypeOK'
  BY <1>0, <1>1, <1>2 DEF KeysTypeOK, Blank, NoFile
<1>6. CallsAreTyped'
  BY <1>0, <1>1, <1>2, <1>3 DEF CallsAreTyped, Blank, NoFile
<1>7. SecondFileFirst'
  BY <1>0, <1>1, <1>2, <1>3 DEF SecondFileFirst, Blank, NoFile
<1>8. ReadsHold'
  BY <1>1, <1>2, <1>3, <1>4 DEF ReadsHold, Stands, WholePair, Blank, NoFile
<1>9. FilesFollow'
  BY <1>0, <1>1, <1>2, <1>3, <1>4 DEF FilesFollow, Stands, Even, Opens, Blank, NoFile
<1> QED
  BY <1>4, <1>5, <1>6, <1>7, <1>8, <1>9 DEF KeysInv

\* The public file is emptied, the private one holds the new pair.
LEMMA OpenPublicStep ==
  ASSUME KeysInv, NEW t \in Callers, OpenPublic(t)
  PROVE  KeysInv'
<1> DEFINE r == [call[t] EXCEPT !.step = "fillPublic"]
<1>1. /\ call \in [Callers -> Call] /\ {private, public, pairs} \subseteq Int /\ pairs \in Nat
      /\ authorized \subseteq Admins \cup Int
      /\ KeysTypeOK /\ CallsAreTyped /\ SecondFileFirst /\ ReadsHold /\ FilesFollow
      /\ call[t].step = "openPublic"
      /\ UNCHANGED <<private, authorized, added, provisioned, calls, failures, pairs, overlapped, cut>>
  BY DEF KeysInv, CallsAreTyped, KeysTypeOK, OpenPublic, Stands, NoFile, Blank
<1>0. call[t].pair \in 1 .. pairs
  BY <1>1 DEF CallsAreTyped
<1>2. /\ call' = [call EXCEPT ![t] = r] /\ r \in Call
      /\ r.step = "fillPublic" /\ r.pair = call[t].pair /\ public' = Blank
      /\ r.seen = call[t].seen /\ r.result = call[t].result
  BY <1>1 DEF OpenPublic, Call, To, Done, Caller, NoFile
<1> HIDE DEF r
<1>3. /\ call' \in [Callers -> Call] /\ call'[t] = r
      /\ \A u \in Callers : u # t => call'[u] = call[u]
  BY <1>1, <1>2
<1>4. Alone' /\ (~ overlapped => \A u \in Callers : u # t => Stands(u, "idle"))
  BY <1>1, <1>3, OthersRest DEF Stands
<1>5. KeysTypeOK'
  BY <1>0, <1>1, <1>2 DEF KeysTypeOK, Blank, NoFile
<1>6. CallsAreTyped'
  BY <1>0, <1>1, <1>2, <1>3 DEF CallsAreTyped, Blank, NoFile
<1>7. SecondFileFirst'
  BY <1>0, <1>1, <1>2, <1>3 DEF SecondFileFirst, Blank, NoFile
<1>8. ReadsHold'
  BY <1>1, <1>2, <1>3, <1>4 DEF ReadsHold, Stands, WholePair, Blank, NoFile
<1>9. FilesFollow'
  BY <1>0, <1>1, <1>2, <1>3, <1>4 DEF FilesFollow, Stands, Even, Opens, Blank, NoFile
<1> QED
  BY <1>4, <1>5, <1>6, <1>7, <1>8, <1>9 DEF KeysInv

\* With the public file both files hold the new pair.
LEMMA FillPublicStep ==
  ASSUME KeysInv, NEW t \in Callers, FillPublic(t)
  PROVE  KeysInv'
<1> DEFINE r == [call[t] EXCEPT !.step = "dial"]
<1>1. /\ call \in [Callers -> Call] /\ {private, public, pairs} \subseteq Int /\ pairs \in Nat
      /\ authorized \subseteq Admins \cup Int
      /\ KeysTypeOK /\ CallsAreTyped /\ SecondFileFirst /\ ReadsHold /\ FilesFollow
      /\ call[t].step = "fillPublic"
      /\ UNCHANGED <<private, authorized, added, provisioned, calls, failures, pairs, overlapped, cut>>
  BY DEF KeysInv, CallsAreTyped, KeysTypeOK, FillPublic, Stands, NoFile, Blank
<1>0. call[t].pair \in 1 .. pairs
  BY <1>1 DEF CallsAreTyped
<1>2. /\ call' = [call EXCEPT ![t] = r] /\ r \in Call
      /\ r.step = "dial" /\ r.pair = call[t].pair /\ public' = call[t].pair
      /\ r.seen = call[t].seen /\ r.result = call[t].result
  BY <1>1 DEF FillPublic, Call, To, Done, Caller, NoFile
<1> HIDE DEF r
<1>3. /\ call' \in [Callers -> Call] /\ call'[t] = r
      /\ \A u \in Callers : u # t => call'[u] = call[u]
  BY <1>1, <1>2
<1>4. Alone' /\ (~ overlapped => \A u \in Callers : u # t => Stands(u, "idle"))
  BY <1>1, <1>3, OthersRest DEF Stands
<1>5. KeysTypeOK'
  BY <1>0, <1>1, <1>2 DEF KeysTypeOK, Blank, NoFile
<1>6. CallsAreTyped'
  BY <1>0, <1>1, <1>2, <1>3 DEF CallsAreTyped, Blank, NoFile
<1>7. SecondFileFirst'
  BY <1>0, <1>1, <1>2, <1>3 DEF SecondFileFirst, Blank, NoFile
<1>8. ReadsHold'
  BY <1>1, <1>2, <1>3, <1>4 DEF ReadsHold, Stands, WholePair, Blank, NoFile
<1>9. FilesFollow'
  BY <1>0, <1>1, <1>2, <1>3, <1>4 DEF FilesFollow, Stands, Even, Opens, Blank, NoFile
<1> QED
  BY <1>4, <1>5, <1>6, <1>7, <1>8, <1>9 DEF KeysInv

\* A dial the machine refuses ends the request, the files stay.
LEMMA RefusedStep ==
  ASSUME KeysInv, NEW t \in Callers, Refused(t)
  PROVE  KeysInv'
<1> DEFINE r == [Caller EXCEPT !.result = "failed"]
<1>1. /\ call \in [Callers -> Call] /\ {private, public, pairs} \subseteq Int /\ pairs \in Nat
      /\ authorized \subseteq Admins \cup Int
      /\ KeysTypeOK /\ CallsAreTyped /\ SecondFileFirst /\ ReadsHold /\ FilesFollow
      /\ call[t].step = "dial"
      /\ UNCHANGED <<private, public, authorized, added, provisioned, calls, failures, pairs, overlapped, cut>>
  BY DEF KeysInv, CallsAreTyped, KeysTypeOK, Refused, Stands, NoFile, Blank
<1>0. public # NoFile
  BY <1>1 DEF SecondFileFirst
<1>2. /\ call' = [call EXCEPT ![t] = r] /\ r \in Call
      /\ r.step = "idle" /\ r.seen = {} /\ r.result = "failed"
  BY <1>1 DEF Refused, Call, To, Done, Caller, NoFile
<1> HIDE DEF r
<1>3. /\ call' \in [Callers -> Call] /\ call'[t] = r
      /\ \A u \in Callers : u # t => call'[u] = call[u]
  BY <1>1, <1>2
<1>4. Alone' /\ (~ overlapped => \A u \in Callers : u # t => Stands(u, "idle"))
  BY <1>1, <1>3, OthersRest DEF Stands
<1>5. KeysTypeOK'
  BY <1>0, <1>1, <1>2 DEF KeysTypeOK, Blank, NoFile
<1>6. CallsAreTyped'
  BY <1>0, <1>1, <1>2, <1>3 DEF CallsAreTyped, Blank, NoFile
<1>7. SecondFileFirst'
  BY <1>0, <1>1, <1>2, <1>3 DEF SecondFileFirst, Blank, NoFile
<1>8. ReadsHold'
  BY <1>1, <1>2, <1>3, <1>4 DEF ReadsHold, Stands, WholePair, Blank, NoFile
<1>9. FilesFollow'
  BY <1>0, <1>1, <1>2, <1>3, <1>4 DEF FilesFollow, Stands, Even, Opens, Blank, NoFile
<1> QED
  BY <1>4, <1>5, <1>6, <1>7, <1>8, <1>9 DEF KeysInv

\* A request learns what the machine authorizes, or that its key is there.
LEMMA ReadRemoteStep ==
  ASSUME KeysInv, NEW t \in Callers, ReadRemote(t)
  PROVE  KeysInv'
<1> DEFINE r == [call[t] EXCEPT !.seen = authorized, !.step = "openRemote"]
<1>1. /\ call \in [Callers -> Call] /\ {private, public, pairs} \subseteq Int /\ pairs \in Nat
      /\ authorized \subseteq Admins \cup Int
      /\ KeysTypeOK /\ CallsAreTyped /\ SecondFileFirst /\ ReadsHold /\ FilesFollow
      /\ call[t].step = "dial"
      /\ UNCHANGED <<private, public, authorized, added, provisioned, calls, failures, pairs, overlapped, cut>>
  BY DEF KeysInv, CallsAreTyped, KeysTypeOK, ReadRemote, Stands, NoFile, Blank
<1>0. public # NoFile /\ \A k \in authorized : k \in added \/ k \in 0 .. pairs
  BY <1>1 DEF SecondFileFirst, KeysTypeOK
<1>2. /\ call' = [call EXCEPT ![t] = r] /\ r \in Call
      /\ r.step = "openRemote" /\ r.pair = call[t].pair /\ r.seen = authorized /\ r.result = call[t].result
  BY <1>1 DEF ReadRemote, Call, To, Done, Caller, NoFile
<1> HIDE DEF r
<1>3. /\ call' \in [Callers -> Call] /\ call'[t] = r
      /\ \A u \in Callers : u # t => call'[u] = call[u]
  BY <1>1, <1>2
<1>4. Alone' /\ (~ overlapped => \A u \in Callers : u # t => Stands(u, "idle"))
  BY <1>1, <1>3, OthersRest DEF Stands
<1>5. KeysTypeOK'
  BY <1>0, <1>1, <1>2 DEF KeysTypeOK, Blank, NoFile
<1>6. CallsAreTyped'
  BY <1>0, <1>1, <1>2, <1>3 DEF CallsAreTyped, Blank, NoFile
<1>7. SecondFileFirst'
  BY <1>0, <1>1, <1>2, <1>3 DEF SecondFileFirst, Blank, NoFile
<1>8. ReadsHold'
  BY <1>1, <1>2, <1>3, <1>4 DEF ReadsHold, Stands, WholePair, Blank, NoFile
<1>9. FilesFollow'
  BY <1>0, <1>1, <1>2, <1>3, <1>4 DEF FilesFollow, Stands, Even, Opens, Blank, NoFile
<1> QED
  BY <1>4, <1>5, <1>6, <1>7, <1>8, <1>9 DEF KeysInv

\* The list of the machine is emptied, the request holds all of it.
LEMMA OpenRemoteStep ==
  ASSUME KeysInv, NEW t \in Callers, OpenRemote(t)
  PROVE  KeysInv'
<1> DEFINE r == [call[t] EXCEPT !.step = "fillRemote"]
<1>1. /\ call \in [Callers -> Call] /\ {private, public, pairs} \subseteq Int /\ pairs \in Nat
      /\ authorized \subseteq Admins \cup Int
      /\ KeysTypeOK /\ CallsAreTyped /\ SecondFileFirst /\ ReadsHold /\ FilesFollow
      /\ call[t].step = "openRemote"
      /\ UNCHANGED <<private, public, added, provisioned, calls, failures, pairs, overlapped, cut>>
  BY DEF KeysInv, CallsAreTyped, KeysTypeOK, OpenRemote, Stands, NoFile, Blank
<1>0. public # NoFile
  BY <1>1 DEF SecondFileFirst
<1>2. /\ call' = [call EXCEPT ![t] = r] /\ r \in Call
      /\ r.step = "fillRemote" /\ r.pair = call[t].pair /\ authorized' = {}
      /\ r.seen = call[t].seen /\ r.result = call[t].result
  BY <1>1 DEF OpenRemote, Call, To, Done, Caller, NoFile
<1> HIDE DEF r
<1>3. /\ call' \in [Callers -> Call] /\ call'[t] = r
      /\ \A u \in Callers : u # t => call'[u] = call[u]
  BY <1>1, <1>2
<1>4. Alone' /\ (~ overlapped => \A u \in Callers : u # t => Stands(u, "idle"))
  BY <1>1, <1>3, OthersRest DEF Stands
<1>5. KeysTypeOK'
  BY <1>0, <1>1, <1>2 DEF KeysTypeOK, Blank, NoFile
<1>6. CallsAreTyped'
  BY <1>0, <1>1, <1>2, <1>3 DEF CallsAreTyped, Blank, NoFile
<1>7. SecondFileFirst'
  BY <1>0, <1>1, <1>2, <1>3 DEF SecondFileFirst, Blank, NoFile
<1>8. ReadsHold'
  BY <1>1, <1>2, <1>3, <1>4 DEF ReadsHold, Stands, WholePair, Blank, NoFile
<1>9. FilesFollow'
  BY <1>0, <1>1, <1>2, <1>3, <1>4 DEF FilesFollow, Stands, Even, Opens, Blank, NoFile
<1> QED
  BY <1>4, <1>5, <1>6, <1>7, <1>8, <1>9 DEF KeysInv

\* The list is filled again, with the key of the API.
LEMMA FillRemoteStep ==
  ASSUME KeysInv, NEW t \in Callers, FillRemote(t)
  PROVE  KeysInv'
<1> DEFINE r == [call[t] EXCEPT !.step = "mark"]
<1>1. /\ call \in [Callers -> Call] /\ {private, public, pairs} \subseteq Int /\ pairs \in Nat
      /\ authorized \subseteq Admins \cup Int
      /\ KeysTypeOK /\ CallsAreTyped /\ SecondFileFirst /\ ReadsHold /\ FilesFollow
      /\ call[t].step = "fillRemote"
      /\ UNCHANGED <<private, public, added, provisioned, calls, failures, pairs, overlapped, cut>>
  BY DEF KeysInv, CallsAreTyped, KeysTypeOK, FillRemote, Stands, NoFile, Blank
<1>0. /\ public # NoFile /\ call[t].pair \in Blank .. pairs /\ call[t].seen \subseteq Admins \cup Int
      /\ \A k \in call[t].seen : k \in added \/ k \in 0 .. pairs
  BY <1>1 DEF SecondFileFirst, CallsAreTyped, Call
<1>2. /\ call' = [call EXCEPT ![t] = r] /\ r \in Call
      /\ r.step = "mark" /\ r.pair = call[t].pair /\ authorized' = Lines(call[t].seen, call[t].pair)
      /\ r.seen = call[t].seen /\ r.result = call[t].result
  BY <1>1 DEF FillRemote, Call, To, Done, Caller, NoFile
<1> HIDE DEF r
<1>3. /\ call' \in [Callers -> Call] /\ call'[t] = r
      /\ \A u \in Callers : u # t => call'[u] = call[u]
  BY <1>1, <1>2
<1>4. Alone' /\ (~ overlapped => \A u \in Callers : u # t => Stands(u, "idle"))
  BY <1>1, <1>3, OthersRest DEF Stands
<1>5. KeysTypeOK'
  BY <1>0, <1>1, <1>2 DEF KeysTypeOK, Lines, Blank, NoFile
<1>6. CallsAreTyped'
  BY <1>0, <1>1, <1>2, <1>3 DEF CallsAreTyped, Lines, Blank, NoFile
<1>7. SecondFileFirst'
  BY <1>0, <1>1, <1>2, <1>3 DEF SecondFileFirst, Lines, Blank, NoFile
<1>8. ReadsHold'
  BY <1>1, <1>2, <1>3, <1>4 DEF ReadsHold, Stands, WholePair, Lines, Blank, NoFile
<1>9. FilesFollow'
  BY <1>0, <1>1, <1>2, <1>3, <1>4 DEF FilesFollow, Stands, Even, Opens, Lines, Blank, NoFile
<1> QED
  BY <1>4, <1>5, <1>6, <1>7, <1>8, <1>9 DEF KeysInv

\* The host is marked once the key opens it.
LEMMA MarkStep ==
  ASSUME KeysInv, NEW t \in Callers, Mark(t)
  PROVE  KeysInv'
<1> DEFINE r == [Caller EXCEPT !.result = "ok"]
<1>1. /\ call \in [Callers -> Call] /\ {private, public, pairs} \subseteq Int /\ pairs \in Nat
      /\ authorized \subseteq Admins \cup Int
      /\ KeysTypeOK /\ CallsAreTyped /\ SecondFileFirst /\ ReadsHold /\ FilesFollow
      /\ call[t].step = "mark"
      /\ UNCHANGED <<private, public, authorized, added, calls, failures, pairs, overlapped, cut>>
  BY DEF KeysInv, CallsAreTyped, KeysTypeOK, Mark, Stands, NoFile, Blank
<1>0. public # NoFile
  BY <1>1 DEF SecondFileFirst
<1>2. /\ call' = [call EXCEPT ![t] = r] /\ r \in Call
      /\ r.step = "idle" /\ r.seen = {} /\ r.result = "ok" /\ provisioned' = TRUE
  BY <1>1 DEF Mark, Call, To, Done, Caller, NoFile
<1> HIDE DEF r
<1>3. /\ call' \in [Callers -> Call] /\ call'[t] = r
      /\ \A u \in Callers : u # t => call'[u] = call[u]
  BY <1>1, <1>2
<1>4. Alone' /\ (~ overlapped => \A u \in Callers : u # t => Stands(u, "idle"))
  BY <1>1, <1>3, OthersRest DEF Stands
<1>5. KeysTypeOK'
  BY <1>0, <1>1, <1>2 DEF KeysTypeOK, Blank, NoFile
<1>6. CallsAreTyped'
  BY <1>0, <1>1, <1>2, <1>3 DEF CallsAreTyped, Blank, NoFile
<1>7. SecondFileFirst'
  BY <1>0, <1>1, <1>2, <1>3 DEF SecondFileFirst, Blank, NoFile
<1>8. ReadsHold'
  BY <1>1, <1>2, <1>3, <1>4 DEF ReadsHold, Stands, WholePair, Blank, NoFile
<1>9. FilesFollow'
  BY <1>0, <1>1, <1>2, <1>3, <1>4 DEF FilesFollow, Stands, Even, Opens, Blank, NoFile
<1> QED
  BY <1>4, <1>5, <1>6, <1>7, <1>8, <1>9 DEF KeysInv

\* A whole pair is used, anything else is replaced.
LEMMA ReadPublicStep ==
  ASSUME KeysInv, NEW t \in Callers, ReadPublic(t)
  PROVE  KeysInv'
<1> DEFINE whole == WholePair(call[t].private, public)
           r == IF whole THEN [call[t] EXCEPT !.pair = public, !.step = "dial"]
                ELSE [call[t] EXCEPT !.step = "make"]
<1>1. /\ call \in [Callers -> Call] /\ {private, public, pairs} \subseteq Int /\ pairs \in Nat
      /\ authorized \subseteq Admins \cup Int
      /\ KeysTypeOK /\ CallsAreTyped /\ SecondFileFirst /\ ReadsHold /\ FilesFollow
      /\ call[t].step = "public"
      /\ UNCHANGED <<private, public, authorized, added, provisioned, calls, failures, pairs, overlapped, cut>>
  BY DEF KeysInv, CallsAreTyped, KeysTypeOK, ReadPublic, Stands, NoFile, Blank
<1>2. /\ call' = [call EXCEPT ![t] = r] /\ r \in Call
      /\ whole => r.step = "dial" /\ r.pair = public
      /\ ~ whole => r.step = "make" /\ r.pair = call[t].pair
      /\ r.private = call[t].private /\ r.seen = call[t].seen /\ r.result = call[t].result
  BY <1>1 DEF ReadPublic, Call, To
<1>3. /\ whole => public \in Blank .. pairs
      /\ ~ overlapped => (whole <=> WholePair(private, public))
  BY <1>1 DEF WholePair, KeysTypeOK, NoFile, Blank, ReadsHold, Stands
<1> HIDE DEF r, whole
<1>4. /\ call' \in [Callers -> Call] /\ call'[t] = r
      /\ \A u \in Callers : u # t => call'[u] = call[u]
  BY <1>1, <1>2
<1>5. Alone' /\ (~ overlapped => \A u \in Callers : u # t => Stands(u, "idle"))
  BY <1>1, <1>4, OthersRest DEF Stands
<1>6. KeysTypeOK'
  BY <1>1 DEF KeysTypeOK
<1>7. CallsAreTyped'
  BY <1>1, <1>2, <1>3, <1>4 DEF CallsAreTyped
<1>8. SecondFileFirst'
  BY <1>1, <1>2, <1>3, <1>4 DEF SecondFileFirst, NoFile, Blank
<1>9. ReadsHold'
  BY <1>1, <1>2, <1>3, <1>4, <1>5 DEF ReadsHold, Stands, WholePair
<1>10. FilesFollow'
  BY <1>1, <1>2, <1>3, <1>4, <1>5 DEF FilesFollow, Stands, Even, Opens, WholePair, NoFile, Blank
<1> QED
  BY <1>5, <1>6, <1>7, <1>8, <1>9, <1>10 DEF KeysInv

\* A lost connection ends the request; between the two steps of the write it
\* is remembered as a cut.
LEMMA CutStep ==
  ASSUME KeysInv, NEW t \in Callers, Cut(t)
  PROVE  KeysInv'
<1> DEFINE r == [Caller EXCEPT !.result = "failed"]
<1>1. /\ call \in [Callers -> Call] /\ {private, public, pairs} \subseteq Int /\ pairs \in Nat
      /\ authorized \subseteq Admins \cup Int
      /\ KeysTypeOK /\ CallsAreTyped /\ SecondFileFirst /\ ReadsHold /\ FilesFollow
      /\ call[t].step \in {"openRemote", "fillRemote", "mark"}
      /\ failures' \in 0 .. MaxFailures
      /\ UNCHANGED <<private, public, authorized, added, provisioned, calls, pairs, overlapped>>
  BY KeysAssumption DEF KeysInv, CallsAreTyped, KeysTypeOK, Cut, Stands, NoFile, Blank
<1>2. /\ call' = [call EXCEPT ![t] = r] /\ r \in Call
      /\ r.step = "idle" /\ r.seen = {} /\ r.result = "failed"
  BY <1>1 DEF Cut, Call, Done, Caller, NoFile
<1>0. ~ cut' => ~ cut /\ call[t].step # "fillRemote"
  BY Zenon DEF Cut, Stands
<1> HIDE DEF r
<1>3. /\ call' \in [Callers -> Call] /\ call'[t] = r
      /\ \A u \in Callers : u # t => call'[u] = call[u]
  BY <1>1, <1>2
<1>4. Alone' /\ (~ overlapped => \A u \in Callers : u # t => Stands(u, "idle"))
  BY <1>1, <1>3, OthersRest DEF Stands
<1>5. KeysTypeOK'
  BY <1>1 DEF KeysTypeOK
<1>6. CallsAreTyped'
  BY <1>1, <1>2, <1>3 DEF CallsAreTyped
<1>7. SecondFileFirst'
  BY <1>1, <1>2, <1>3 DEF SecondFileFirst
<1>8. ReadsHold'
  BY <1>1, <1>2, <1>3, <1>4 DEF ReadsHold, Stands
<1>9. FilesFollow'
  BY <1>0, <1>1, <1>2, <1>3, <1>4 DEF FilesFollow, Stands, Even, Opens, NoFile
<1> QED
  BY <1>4, <1>5, <1>6, <1>7, <1>8, <1>9 DEF KeysInv

\* A request that starts beside another is remembered as an overlap.
LEMMA ProvisionStep ==
  ASSUME KeysInv, NEW t \in Callers, Provision(t)
  PROVE  KeysInv'
<1> DEFINE r == [Caller EXCEPT !.step = "private"]
<1>1. /\ call \in [Callers -> Call] /\ pairs \in Nat
      /\ KeysTypeOK /\ CallsAreTyped /\ SecondFileFirst /\ FilesFollow
      /\ call[t].step = "idle" /\ calls' \in 0 .. MaxCalls
      /\ UNCHANGED <<private, public, authorized, added, provisioned, failures, pairs, cut>>
  BY KeysAssumption DEF KeysInv, CallsAreTyped, KeysTypeOK, Provision, Stands
<1>2. /\ call' = [call EXCEPT ![t] = r] /\ r \in Call
      /\ r.step = "private" /\ r.seen = {} /\ r.result = "none"
  BY <1>1 DEF Provision, Call, Caller, NoFile
<1>0. ~ overlapped' => ~ overlapped /\ \A u \in Callers : call[u].step = "idle"
  <2>1. ~ overlapped' => ~ overlapped /\ Active = {}
    BY Zenon DEF Provision
  <2> QED
    BY <2>1 DEF Active
<1> HIDE DEF r
<1>3. /\ call' \in [Callers -> Call] /\ call'[t] = r
      /\ \A u \in Callers : u # t => call'[u] = call[u]
  BY <1>1, <1>2
<1>4. Alone'
  BY <1>0, <1>1, <1>2, <1>3 DEF Alone, Stands
<1>5. KeysTypeOK'
  BY <1>1 DEF KeysTypeOK
<1>6. CallsAreTyped'
  BY <1>1, <1>2, <1>3 DEF CallsAreTyped
<1>7. SecondFileFirst'
  BY <1>1, <1>2, <1>3 DEF SecondFileFirst
<1>8. ReadsHold'
  BY <1>0, <1>1, <1>2, <1>3 DEF ReadsHold, Stands
<1>9. FilesFollow'
  BY <1>0, <1>1, <1>2, <1>3 DEF FilesFollow, Stands, Even, Opens
<1> QED
  BY <1>4, <1>5, <1>6, <1>7, <1>8, <1>9 DEF KeysInv

\* The API ends every request; one between two steps of a write is
\* remembered as a cut.
LEMMA CrashApiStep ==
  ASSUME KeysInv, CrashApi
  PROVE  KeysInv'
<1>1. /\ call \in [Callers -> Call] /\ pairs \in Nat
      /\ KeysTypeOK /\ CallsAreTyped /\ SecondFileFirst /\ FilesFollow /\ Alone
      /\ failures' \in 0 .. MaxFailures
      /\ UNCHANGED <<private, public, authorized, added, provisioned, calls, pairs, overlapped>>
  BY KeysAssumption DEF KeysInv, CallsAreTyped, KeysTypeOK, CrashApi
<1>2. Caller \in Call /\ Caller.step = "idle" /\ Caller.seen = {} /\ Caller.result = "none"
  BY DEF Caller, Call, NoFile
<1>3. call' \in [Callers -> Call] /\ \A u \in Callers : call'[u] = Caller
  BY <1>2 DEF CrashApi
<1>4. PICK t \in Callers :
        /\ call[t].step # "idle"
        /\ ~ cut' => ~ cut /\ call[t].step \notin
                       {"fillPrivate", "openPublic", "fillPublic", "fillRemote"}
  BY DEF CrashApi, Active
<1>5. ~ overlapped => \A u \in Callers : u # t => Stands(u, "idle")
  BY <1>1, <1>4 DEF Alone, Stands
<1>6. Alone' /\ ReadsHold'
  BY <1>2, <1>3 DEF Alone, ReadsHold, Stands
<1>7. KeysTypeOK'
  BY <1>1 DEF KeysTypeOK
<1>8. CallsAreTyped'
  BY <1>1, <1>2, <1>3 DEF CallsAreTyped
<1>9. SecondFileFirst'
  BY <1>1, <1>2, <1>3 DEF SecondFileFirst
<1>10. ~ overlapped /\ ~ cut' => Even /\ added \subseteq authorized
  BY <1>1, <1>4, <1>5 DEF FilesFollow, Stands, Even, NoFile, Call
<1>11. FilesFollow'
  BY <1>1, <1>2, <1>3, <1>10 DEF FilesFollow, Stands, Even
<1> QED
  BY <1>6, <1>7, <1>8, <1>9, <1>11 DEF KeysInv

\* A user adds a key; beside a rewrite it is remembered as an overlap.
LEMMA EditStep ==
  ASSUME KeysInv, NEW k \in Admins, Edit(k)
  PROVE  KeysInv'
<1>1. /\ call \in [Callers -> Call] /\ pairs \in Nat
      /\ KeysTypeOK /\ CallsAreTyped /\ SecondFileFirst /\ FilesFollow /\ Alone /\ ReadsHold
      /\ added' = added \cup {k} /\ authorized' = authorized \cup {k}
      /\ UNCHANGED <<private, public, provisioned, call, calls, failures, pairs, cut>>
  BY DEF KeysInv, CallsAreTyped, Edit
<1>2. ~ overlapped' => /\ ~ overlapped
                       /\ \A t \in Callers : call[t].step \notin {"openRemote", "fillRemote"}
  BY DEF Edit
<1>3. Alone'
  BY <1>1, <1>2 DEF Alone, Stands
<1>4. ReadsHold'
  BY <1>1, <1>2 DEF ReadsHold, Stands
<1>5. KeysTypeOK'
  BY <1>1 DEF KeysTypeOK
<1>6. CallsAreTyped'
  BY <1>1 DEF CallsAreTyped
<1>7. SecondFileFirst'
  BY <1>1 DEF SecondFileFirst
<1>8. FilesFollow'
  BY <1>1, <1>2 DEF FilesFollow, Stands, Even, Opens
<1> QED
  BY <1>3, <1>4, <1>5, <1>6, <1>7, <1>8 DEF KeysInv

\* Every step of the requests, the users and the failures keeps the invariant.
LEMMA KeysInvStep == KeysInv /\ [KNext]_keyvars => KeysInv'
<1> SUFFICES ASSUME KeysInv, [KNext]_keyvars PROVE KeysInv'
  OBVIOUS
<1>1. CASE UNCHANGED keyvars
  BY <1>1 DEF keyvars, KeysInv, KeysTypeOK, CallsAreTyped, Alone, SecondFileFirst, ReadsHold,
              FilesFollow, Stands, Even, Opens
<1>2. CASE KNext
  BY <1>2, ProvisionStep, ReadPrivateStep, ReadPublicStep, MakeStep, FillPrivateStep,
     OpenPublicStep, FillPublicStep, RefusedStep, ReadRemoteStep, OpenRemoteStep,
     FillRemoteStep, MarkStep, CutStep, CrashApiStep, EditStep DEF KNext
<1> QED
  BY <1>1, <1>2

\* The API's key opens the machine after a request that succeeded, and the keys
\* of the machine's users stay, whatever requests, users, lost connections and
\* crashes do in between (provisionKey, installPublicKeyViaSftp).
THEOREM KeysAlwaysOpenTheHost == KSpec => []KeysOpenTheHost
<1>1. KeysInv => KeysOpenTheHost
  <2> SUFFICES ASSUME KeysInv PROVE SuccessOpensTheHost /\ UsersKeysStay
    BY DEF KeysInv, KeysOpenTheHost
  <2>1. UsersKeysStay
    BY DEF KeysInv, FilesFollow, UsersKeysStay
  <2>2. SuccessOpensTheHost
    <3> SUFFICES ASSUME Active = {}, ~ overlapped, ~ cut, NEW t \in Callers, call[t].result = "ok"
                 PROVE  private = public /\ private \in authorized \ {0}
      BY DEF SuccessOpensTheHost
    <3>1. \A u \in Callers : Stands(u, "idle")
      BY DEF Active, Stands
    <3>2. Even /\ Opens
      BY <3>1 DEF KeysInv, FilesFollow
    <3> QED
      BY <3>1, <3>2 DEF Even, Opens, Stands, KeysInv, CallsAreTyped
  <2> QED
    BY <2>1, <2>2
<1> QED
  BY <1>1, KeysInvInit, KeysInvStep, PTL DEF KSpec

\* A pair that opens the machine is given up only because its format is not
\* supported, by no failure and no second request (ensureKeyPair).
THEOREM PairsAreKept == KSpec => PairIsKept
<1>1. KeysInv /\ [KNext]_keyvars =>
        [private' # private /\ private \in authorized /\ ~ overlapped => private = 0]_keyvars
  <2> SUFFICES ASSUME KeysInv, KNext, private' # private, private \in authorized, ~ overlapped
               PROVE  private = 0
    BY DEF keyvars
  <2>1. /\ KeysTypeOK /\ SecondFileFirst /\ ReadsHold
        /\ private \in Int /\ private # Blank /\ private # NoFile /\ private \notin added
    BY KeysAssumption DEF KeysInv, KeysTypeOK, CallsAreTyped, Blank, NoFile
  <2>2. PICK t \in Callers : Make(t) \/ FillPrivate(t)
    BY DEF KNext, Provision, ReadPrivate, ReadPublic, OpenPublic, FillPublic, Refused,
           ReadRemote, OpenRemote, FillRemote, Mark, Cut, CrashApi, Edit
  <2>3. CASE Make(t)
    BY <2>1, <2>3 DEF Make, ReadsHold, WholePair, SecondFileFirst
  <2>4. CASE FillPrivate(t)
    BY <2>1, <2>4 DEF FillPrivate, ReadsHold
  <2> QED
    BY <2>2, <2>3, <2>4
<1> QED
  BY <1>1, KeysInvInit, KeysInvStep, PTL DEF KSpec, PairIsKept

-----------------------------------------------------------------------------
(* LocalSupervisor *)

\* An API that signs off has stopped; one that has ended has no collection under way.
SupervisorInv ==
  /\ beat \in Beat /\ flight \in Steps /\ machineUp \in {"none", "unknown", "healthy"}
  /\ life \in {"stopping", "over"} => stopping
  /\ life = "over" => flight = "none"
  /\ life = "over" /\ ~ unsigned /\ beat.by = "supervisor" => beat.status = "offline"

\* The stand-in's heartbeat takes the place of no agent's.
LEMMA SyntheticBeatKeepsAgent ==
  ASSUME beat \in Beat, NEW status \in {"online", "offline"}, SyntheticBeat(status)
  PROVE  /\ beat' \in Beat /\ (beat.by = "agent" => beat' = beat)
         /\ beat'.by = "supervisor" => beat'.status = status
  BY DEF SyntheticBeat, Beat

\* Every step of the collector, its shutdown and its surroundings keeps the
\* invariant, and an agent's heartbeat.
LEMMA SupervisorStep ==
  SupervisorInv /\ [SNext]_svars => SupervisorInv' /\ (beat.by = "agent" => beat'.by = "agent")
<1> SUFFICES ASSUME SupervisorInv, [SNext]_svars
             PROVE  SupervisorInv' /\ (beat.by = "agent" => beat'.by = "agent")
  OBVIOUS
<1> USE DEF SupervisorInv
<1>1. CASE StartApi
  BY <1>1 DEF StartApi, Steps
<1>2. CASE Booted
  BY <1>2 DEF Booted
<1>3. CASE Tick
  BY <1>3 DEF Tick, Steps
<1>4. CASE AppendSample
  BY <1>4 DEF AppendSample, Steps
<1>5. CASE BeatOnline
  <2>1. SyntheticBeat("online") /\ UNCHANGED <<life, stopping, unsigned, machineUp>>
        /\ flight = "beat" /\ flight' = "seen"
    BY <1>5 DEF BeatOnline
  <2> QED
    BY <2>1, SyntheticBeatKeepsAgent DEF Steps
<1>6. CASE MarkSeen
  BY <1>6 DEF MarkSeen, Steps
<1>7. CASE CallFails
  BY <1>7 DEF CallFails, Steps
<1>8. CASE Shutdown
  BY <1>8 DEF Shutdown
<1>9. CASE PoolEnds
  BY <1>9 DEF PoolEnds
<1>10. CASE SignOff
  <2>1. /\ life' = "over" /\ flight = "none" /\ stopping' = stopping /\ stopping
        /\ UNCHANGED <<machineUp, flight>>
    BY <1>10 DEF SignOff, Drained
  <2>2. SyntheticBeat("offline") \/ (unsigned' = TRUE /\ beat' = beat)
    BY <1>10 DEF SignOff
  <2>3. CASE SyntheticBeat("offline")
    BY <2>1, <2>3, SyntheticBeatKeepsAgent
  <2>4. CASE unsigned' = TRUE /\ beat' = beat
    BY <2>1, <2>4
  <2> QED
    BY <2>2, <2>3, <2>4
<1>11. CASE Dies
  BY <1>11 DEF Dies
<1>12. CASE AgentPushes
  BY <1>12 DEF AgentPushes, Beat
<1>13. CASE UNCHANGED svars
  BY <1>13 DEF svars, counts
<1> QED
  BY <1>1, <1>2, <1>3, <1>4, <1>5, <1>6, <1>7, <1>8, <1>9, <1>10, <1>11, <1>12, <1>13 DEF SNext

\* An API that signed off leaves its own heartbeat offline (onApplicationShutdown).
THEOREM StandInSignsOff == SSpec => []StoppedIsOffline
<1>1. SInit => SupervisorInv
  BY DEF SInit, SupervisorInv, Beat, Steps
<1>2. SupervisorInv => StoppedIsOffline
  BY DEF SupervisorInv, StoppedIsOffline
<1> QED
  BY <1>1, <1>2, SupervisorStep, PTL DEF SSpec

\* The heartbeat of a real agent is never replaced by the stand-in's.
THEOREM AgentsBeatStays == SSpec => AgentKeepsItsBeat
<1>1. SInit => SupervisorInv
  BY DEF SInit, SupervisorInv, Beat, Steps
<1> QED
  BY <1>1, SupervisorStep, PTL DEF SSpec, AgentKeepsItsBeat

-----------------------------------------------------------------------------
(* HostCredentials *)

\* A credential, the file that holds them, and what has been read of it.
Cred   == [scope : Scopes, status : {"active", "revoked"}] \cup {NoCred}
Tables == [CredIds -> Cred]
Reads  == Tables \cup {NotRead}

ShellState == [ kind : {"none", "install", "agent", "updater", "token", "revoke"},
             rotate : BOOLEAN, keepPrevious : BOOLEAN, scope : Scopes, id : Nat,
             step : {"idle", "host", "list", "create", "print", "check", "revoke", "config",
                     "restart", "done"},
             read : Reads, todo : SUBSET CredIds ]

\* What the files, the host and the commands hold.
CredTypes ==
  /\ driver \in Stores /\ row \in {"absent", "local", "remote"}
  /\ table \in Tables /\ inApi \in Reads /\ issued \in Nat
  /\ config \in [Scopes -> Nat] /\ service \in [Scopes -> Nat]
  /\ shell \in [Shells -> ShellState]
  /\ runs \in Nat /\ runs <= MaxRuns[driver] /\ breakdowns \in Nat

\* Which kind of command takes which steps, and as what.
StepsFit(s) ==
  /\ s.step = "idle" => s = Shell
  /\ s.step # "idle" => s.kind # "none"
  /\ s.step \in {"host", "list"} => s.kind \in {"install", "agent", "updater"}
  /\ s.step \in {"create", "print"} => s.kind \in {"install", "agent", "updater", "token"}
  /\ s.step \in {"check", "revoke"} => s.kind \in {"install", "updater", "revoke"}
  /\ s.step \in {"config", "restart"} => s.kind = "install"
  /\ s.step \in {"host", "list", "create"} => s.id = 0
  /\ s.kind = "install" /\ s.step \in {"host", "list", "create", "print", "check", "revoke"} => s.rotate
  /\ s.kind = "updater" /\ s.step \in {"check", "revoke"} => s.rotate /\ ~ s.keepPrevious
  /\ s.kind \in {"token", "revoke"} => ~ s.rotate
  /\ s.kind # "revoke" => (s.scope = "local-updater" <=> s.kind = "updater")

\* No file, and no copy of one, holds a credential before it is issued.
Unissued(f) == f # NotRead => \A c \in CredIds : c > issued => f[c] = NoCred

\* What is to be revoked has the scope of the command, and is not what it keeps.
TodoFits(p) ==
  Reached(p, "revoke") =>
    /\ shell[p].id \in 1 .. issued /\ shell[p].id \notin shell[p].todo
    /\ ~ lost => \A c \in shell[p].todo : table[c].scope = shell[p].scope

\* What holds whoever runs beside whom and whatever is lost.
CredShape ==
  /\ CredTypes
  /\ \A p \in Shells : StepsFit(shell[p])
  /\ Unissued(table) /\ Unissued(inApi) /\ \A p \in Shells : Unissued(shell[p].read)
  /\ \A p \in Shells : TodoFits(p)

\* There is an identifier for every credential that commands may create.
LEMMA IdsCount ==
  /\ CredIds \subseteq Nat \ {0}
  /\ \A d \in Stores : \A n \in 1 .. MaxRuns[d] : n \in CredIds
  BY CredentialsAssumption DEF CredIds

\* A shell at rest is a state of a shell, and fits no command.
LEMMA ShellIsCommand ==
  /\ Shell \in ShellState /\ StepsFit(Shell) /\ Shell.step = "idle" /\ Shell.read = NotRead
  /\ Shell.kind = "none" /\ NotRead \in Reads
  BY DEF Shell, ShellState, StepsFit, Scopes, Reads

\* A host before its first command has the shape.
LEMMA CredShapeInit == CInit => CredShape
<1> SUFFICES ASSUME CInit PROVE CredShape
  OBVIOUS
<1>1. NoTable \in Tables /\ \A c \in CredIds : NoTable[c] = NoCred
  BY DEF NoTable, Tables, Cred
<1>2. CredTypes
  BY <1>1, ShellIsCommand, CredentialsAssumption DEF CInit, CredTypes, Scopes
<1>3. \A p \in Shells : shell[p] = Shell
  BY DEF CInit
<1> QED
  BY <1>1, <1>2, <1>3, ShellIsCommand DEF CInit, CredShape, Unissued, TodoFits, Reached

\* A step of one command leaves the others as they are.
LEMMA ShapeStep ==
  ASSUME CredShape, NEW p \in Shells, NEW r \in ShellState,
         shell' = [shell EXCEPT ![p] = r], StepsFit(r), CredTypes',
         issued <= issued', Unissued(table)', Unissued(inApi)',
         r.read # NotRead => r.read \in {shell[p].read, table, table'},
         lost => lost',
         ~ lost' => \A c \in CredIds : table[c] # NoCred => table'[c].scope = table[c].scope,
         TodoFits(p)'
  PROVE  CredShape'
  <1>1. shell'[p] = r /\ \A q \in Shells : q # p => shell'[q] = shell[q]
    BY DEF CredShape, CredTypes
  <1>2. \A q \in Shells : StepsFit(shell[q])'
    BY <1>1 DEF CredShape, StepsFit
  <1>3. \A q \in Shells : Unissued(shell[q].read)'
    <2> SUFFICES ASSUME NEW q \in Shells, shell'[q].read # NotRead,
                        NEW c \in CredIds, c > issued'
                 PROVE  shell'[q].read[c] = NoCred
      BY DEF Unissued
    <2>1. c > issued /\ c \in Nat
      BY IdsCount DEF CredShape, CredTypes
    <2>2. /\ \A u \in Shells : shell[u].read # NotRead => shell[u].read[c] = NoCred
          /\ table # NotRead => table[c] = NoCred
          /\ table' # NotRead => table'[c] = NoCred
      BY <2>1 DEF CredShape, Unissued
    <2> QED
      BY <1>1, <2>2
  <1>4. \A q \in Shells : q # p => TodoFits(q)'
    <2> SUFFICES ASSUME NEW q \in Shells, q # p, shell[q].step = "revoke"
                 PROVE  /\ shell[q].id \in 1 .. issued' /\ shell[q].id \notin shell[q].todo
                        /\ ~ lost' => \A c \in shell[q].todo : table'[c].scope = shell[q].scope
      BY <1>1 DEF TodoFits, Reached
    <2>1. shell[q].todo \subseteq CredIds /\ shell[q].scope \in Scopes /\ issued' \in Nat /\ issued \in Nat
      BY DEF CredShape, CredTypes, ShellState
    <2>2. \A c \in shell[q].todo : ~ lost => table[c].scope = shell[q].scope /\ table[c] # NoCred
      BY <2>1 DEF CredShape, TodoFits, Reached, NoCred, Scopes
    <2> QED
      BY <2>1, <2>2 DEF CredShape, TodoFits, Reached
  <1> QED
    BY <1>2, <1>3, <1>4 DEF CredShape

\* The live credentials of a scope.
LiveIn == [s \in Scopes |-> LiveOf(s)]

\* A credential the command has issued, and one that its command has seen through.
Created(s) ==
  /\ s.step \in {"print", "check", "revoke", "config", "restart", "done"}
  /\ s.kind \in {"install", "agent", "updater", "token"} /\ (s.kind = "install" => s.rotate)
Finished(s) ==
  /\ s.rotate /\ ~ s.keepPrevious
  /\ \/ s.kind = "updater" /\ s.step \in {"print", "done"}
     \/ s.kind = "install" /\ s.step = "done"

\* What a command that runs alone can rely on, by how far it has come.
Holds(s) ==
  /\ s.read # NotRead => s.read = table
  /\ Created(s) => s.id \in LiveIn[s.scope]
  /\ s.step \in {"config", "restart"} => s.id <= issued
  /\ s.step = "restart" => config["agent"] = s.id
  /\ s.kind = "install" /\ s.step \in {"check", "revoke"} => service["agent"] = s.id
  /\ s.kind = "revoke" /\ s.step = "check" /\ s.id \in LiveIn[s.scope] => s.id = service[s.scope]
  /\ s.kind = "revoke" /\ s.step = "revoke" => s.id = service[s.scope]
  /\ s.kind = "updater" /\ s.step \in {"print", "check", "revoke"} => s.id # config["local-updater"]
  /\ s.step = "revoke" => LiveIn[s.scope] \subseteq {s.id} \cup s.todo
  /\ Finished(s) => LiveIn[s.scope] \subseteq {s.id}
  /\ breakdowns = 0 /\ s.step \in {"config", "restart"} => s.id \in LiveIn["agent"]

\* A cutover between the new token of the updater and its installation.
Cuts(s) ==
  /\ s.kind = "updater" /\ s.rotate /\ ~ s.keepPrevious
  /\ s.id # 0 /\ config["local-updater"] # s.id

\* The services authenticate, but for the updater's during a cutover.
ServedBy(s) ==
  /\ \A t \in Scopes : config[t] <= issued
  /\ breakdowns = 0 =>
       /\ service["agent"] # 0 => service["agent"] \in LiveIn["agent"]
       /\ service["local-updater"] # 0 =>
            service["local-updater"] \in LiveIn["local-updater"] \/ Cuts(s)
       /\ config["local-updater"] = service["local-updater"]
       /\ s.step # "restart" => config["agent"] = service["agent"]

\* The shell that commands run in while they run one at a time.
FirstShell == CHOOSE q \in Shells : TRUE
\* No commands ran at the same time, and no write put back an old file.
Quiet == ~ raced /\ ~ lost

\* Until commands run at the same time there is one of them; until a write puts
\* back an old file it can rely on what it has done.
CredInv ==
  /\ CredShape
  /\ ~ raced =>
       /\ issued <= runs
       /\ \A p \in Shells :
            /\ shell[p].step # "idle" => p = FirstShell
            /\ shell[p].step \in {"host", "list", "create"} => issued < runs
  /\ Quiet =>
       /\ \A p \in Shells : Holds(shell[p])
       /\ \/ ServedBy(Shell)
          \/ \E p \in Shells : ServedBy(shell[p])

\* A host before its first command satisfies the invariant.
LEMMA CredInvInit == CInit => CredInv
<1> SUFFICES ASSUME CInit PROVE CredInv
  OBVIOUS
<1>1. /\ CredShape /\ issued = 0 /\ runs = 0 /\ breakdowns = 0
      /\ \A p \in Shells : shell[p] = Shell
      /\ config = [s \in Scopes |-> 0] /\ service = [s \in Scopes |-> 0]
  BY CredShapeInit DEF CInit
<1>2. \A p \in Shells : Holds(shell[p])
  BY <1>1, ShellIsCommand DEF Holds, Created, Finished, Shell
<1>3. ServedBy(Shell)
  BY <1>1 DEF ServedBy, Scopes
<1> QED
  BY <1>1, <1>2, <1>3, ShellIsCommand DEF CredInv

\* The live credentials are those of the file.
LEMMA LiveSame == ASSUME table' = table PROVE LiveIn' = LiveIn
  BY DEF LiveIn, LiveOf, Live

\* A live credential has been issued.
LEMMA LiveIsIssued ==
  ASSUME Unissued(table), table \in Tables, issued \in Nat, NEW t \in Scopes, NEW c \in LiveIn[t]
  PROVE  c \in CredIds /\ c \in 1 .. issued /\ table[c].scope = t /\ table[c].status = "active"
<1>1. c \in CredIds /\ table[c].scope = t /\ table[c].status = "active" /\ c \in Nat \ {0}
  BY IdsCount DEF LiveIn, LiveOf, Live
<1>2. CASE table = NotRead
  BY <1>1, <1>2 DEF NotRead, Tables
<1>3. CASE table # NotRead
  BY <1>1, <1>3 DEF Unissued, NoCred
<1> QED
  BY <1>1, <1>2, <1>3

\* A command at work beside no other, and what it can rely on.
LEMMA LoneCommand ==
  ASSUME CredInv, NEW p \in Shells, shell[p].step # "idle", ~ raced
  PROVE  /\ \A q \in Shells : q # p => shell[q] = Shell
         /\ Quiet => Holds(shell[p]) /\ ServedBy(shell[p])
<1>1. \A q \in Shells : q # p => shell[q] = Shell
  BY DEF CredInv, CredShape, StepsFit
<1>2. ServedBy(Shell) => ServedBy(shell[p])
  BY ShellIsCommand DEF ServedBy, Cuts
<1> QED
  BY <1>1, <1>2 DEF CredInv

\* How far a command comes by a step that writes nothing.
Moves(p, r) ==
  /\ shell[p].step # "idle" /\ r \in ShellState /\ StepsFit(r)
  /\ r.read \in {shell[p].read, NotRead, table}
  /\ r.step = "revoke" =>
       /\ r.id \in 1 .. issued /\ r.id \notin r.todo
       /\ ~ lost => \A c \in r.todo : table[c].scope = r.scope
  /\ r.step \in {"host", "list", "create"} => shell[p].step \in {"host", "list", "create"}

\* A command that changes nothing but how far it has come.
LEMMA MoveStep ==
  ASSUME CredInv, NEW p \in Shells, NEW r, Moves(p, r),
         shell' = [shell EXCEPT ![p] = r],
         UNCHANGED <<driver, table, issued, config, service, inApi, runs, raced, lost>>,
         row' \in {"absent", "local", "remote"}, breakdowns' \in {breakdowns, breakdowns + 1},
         Quiet => Holds(r) /\ (breakdowns' # breakdowns \/ ServedBy(r))
  PROVE  CredInv'
<1>a. /\ r \in ShellState /\ StepsFit(r) /\ shell[p].step # "idle" /\ breakdowns \in Nat
      /\ r.read \in {shell[p].read, NotRead, table}
      /\ r.step = "revoke" =>
           /\ r.id \in 1 .. issued /\ r.id \notin r.todo
           /\ ~ lost => \A c \in r.todo : table[c].scope = r.scope
      /\ r.step \in {"host", "list", "create"} => shell[p].step \in {"host", "list", "create"}
  BY DEF Moves, CredInv, CredShape, CredTypes
<1>b. breakdowns' \in Nat /\ breakdowns' >= breakdowns /\ (breakdowns' # breakdowns => breakdowns' # 0)
  BY <1>a
<1>1. shell' \in [Shells -> ShellState] /\ shell'[p] = r /\ \A q \in Shells : q # p => shell'[q] = shell[q]
  BY <1>a DEF CredInv, CredShape, CredTypes
<1>2. CredTypes'
  BY <1>1, <1>b DEF CredInv, CredShape, CredTypes
<1>3. Unissued(table)' /\ Unissued(inApi)' /\ TodoFits(p)'
  BY <1>a, <1>1 DEF CredInv, CredShape, Unissued, TodoFits, Reached
<1>4. CredShape'
  <2>1. /\ CredShape /\ issued <= issued' /\ (lost => lost')
        /\ \A c \in CredIds : table'[c].scope = table[c].scope
        /\ r.read # NotRead => r.read \in {shell[p].read, table, table'}
    BY <1>a DEF CredInv, CredShape, CredTypes
  <2> QED
    BY <1>a, <1>1, <1>2, <1>3, <2>1, ShapeStep
<1>0. /\ breakdowns \in Nat /\ table' = table /\ config' = config /\ service' = service
      /\ issued' = issued
  BY DEF CredInv, CredShape, CredTypes
<1>5. breakdowns \in Nat /\ LiveIn' = LiveIn
  BY <1>0, LiveSame
<1>6. Quiet => Holds(shell[p])' /\ ServedBy(shell[p])'
  <2> SUFFICES ASSUME Quiet PROVE Holds(shell[p])' /\ ServedBy(shell[p])'
    OBVIOUS
  <2>1. Holds(r) /\ (breakdowns' = 0 => breakdowns = 0 /\ ServedBy(r))
    BY <1>a, <1>b
  <2>2. Holds(shell[p])'
    <3>1. breakdowns' = 0 => breakdowns = 0
      BY <2>1
    <3> QED
      BY <1>0, <1>1, <1>5, <2>1, <3>1 DEF Holds, Created, Finished
  <2>3. \A t \in Scopes : config[t] <= issued
    BY <1>a, LoneCommand DEF ServedBy, Quiet
  <2>4. ServedBy(shell[p])'
    BY <1>1, <1>5, <2>1, <2>3 DEF ServedBy, Cuts
  <2> QED
    BY <2>2, <2>4
<1>7. \A q \in Shells : Quiet /\ q # p => Holds(shell[q])'
  BY <1>a, <1>1, <1>5, LoneCommand, ShellIsCommand DEF Holds, Quiet, Created, Finished
<1> QED
  BY <1>a, <1>1, <1>4, <1>6, <1>7 DEF CredInv, Quiet

\* What the lemmas below begin with: the command that takes the step.
LEMMA AtWork ==
  ASSUME CredInv, NEW p \in Shells, shell[p].step # "idle"
  PROVE  /\ shell \in [Shells -> ShellState] /\ shell[p] \in ShellState /\ StepsFit(shell[p])
         /\ row \in {"absent", "local", "remote"} /\ breakdowns \in Nat /\ issued \in Nat
         /\ Quiet => Holds(shell[p]) /\ ServedBy(shell[p])
  BY LoneCommand DEF CredInv, CredShape, CredTypes, Quiet

\* A command that makes or finds the row of its own host (ensureLocalHost).
LEMMA EnsureLocalHostStep == ASSUME CredInv, NEW p \in Shells, EnsureLocalHost(p) PROVE CredInv'
<1> DEFINE s == shell[p]
           r == [s EXCEPT !.step = "list"]
<1>1. s.step = "host"
  BY DEF EnsureLocalHost, Reached
<1>2. s \in ShellState /\ StepsFit(s) /\ breakdowns \in Nat /\ (Quiet => Holds(s) /\ ServedBy(s))
  BY <1>1, AtWork
<1>3. /\ r \in ShellState /\ r.step = "list" /\ r.read = s.read /\ r.id = s.id /\ r.scope = s.scope
      /\ r.kind = s.kind /\ r.rotate = s.rotate /\ r.keepPrevious = s.keepPrevious
  BY <1>2 DEF ShellState
<1>4. /\ shell' = [shell EXCEPT ![p] = r] /\ breakdowns' = breakdowns /\ row' = "local"
      /\ UNCHANGED <<driver, table, issued, config, service, inApi, runs, raced, lost>>
  BY DEF EnsureLocalHost, Goto
<1> HIDE DEF r, s
<1>5. StepsFit(r) /\ s.id = 0
  BY <1>1, <1>2, <1>3 DEF StepsFit
<1>6. Quiet => Holds(r) /\ ServedBy(r)
  BY <1>1, <1>2, <1>3, <1>5 DEF Holds, ServedBy, Cuts, Created, Finished
<1>7. Moves(p, r)
  BY <1>1, <1>2, <1>3, <1>5 DEF Moves, s
<1> QED
  BY <1>4, <1>6, <1>7, MoveStep

\* A command that looks for live credentials before it creates one.
LEMMA ListCredentialsStep == ASSUME CredInv, NEW p \in Shells, ListCredentials(p) PROVE CredInv'
<1> DEFINE s == shell[p]
           n == [s EXCEPT !.step = "create"]
<1>1. s.step = "list"
  BY DEF ListCredentials, Reached
<1>2. /\ s \in ShellState /\ StepsFit(s) /\ breakdowns \in Nat /\ (Quiet => Holds(s) /\ ServedBy(s))
      /\ row \in {"absent", "local", "remote"}
  BY <1>1, AtWork
<1>3. /\ n \in ShellState /\ n.step = "create" /\ n.read = s.read /\ n.id = s.id /\ n.scope = s.scope
      /\ n.kind = s.kind /\ n.rotate = s.rotate /\ n.keepPrevious = s.keepPrevious
  BY <1>2 DEF ShellState
<1>4. PICK r \in {n, Shell} : shell' = [shell EXCEPT ![p] = r]
  BY DEF ListCredentials, Goto, GivesUp
<1>5. /\ breakdowns' = breakdowns /\ row' = row
      /\ UNCHANGED <<driver, table, issued, config, service, inApi, runs, raced, lost>>
  BY DEF ListCredentials
<1>0. s = shell[p]
  OBVIOUS
<1> HIDE DEF n, s
<1>6. StepsFit(n) /\ s.id = 0
  BY <1>1, <1>2, <1>3 DEF StepsFit
<1>7. Quiet => Holds(n) /\ ServedBy(n)
  BY <1>1, <1>2, <1>3, <1>6 DEF Holds, ServedBy, Cuts, Created, Finished
<1>8. Quiet => Holds(Shell) /\ ServedBy(Shell)
  BY <1>1, <1>2, <1>6, ShellIsCommand DEF Holds, ServedBy, Cuts, Created, Finished
<1>9. Moves(p, r)
  BY <1>0, <1>1, <1>2, <1>3, <1>4, <1>6, ShellIsCommand DEF Moves
<1>10. Quiet => Holds(r) /\ ServedBy(r)
  BY <1>4, <1>7, <1>8
<1> QED
  BY <1>2, <1>4, <1>5, <1>9, <1>10, MoveStep

\* A command that reads the file before it writes it, with the JSON store.
LEMMA ReadFileStep == ASSUME CredInv, NEW p \in Shells, ReadFile(p) PROVE CredInv'
<1> DEFINE s == shell[p]
           r == [s EXCEPT !.read = table]
<1>1. s.step \in {"create", "revoke"}
  BY DEF ReadFile, Reached
<1>2. /\ s \in ShellState /\ StepsFit(s) /\ breakdowns \in Nat /\ (Quiet => Holds(s) /\ ServedBy(s))
      /\ row \in {"absent", "local", "remote"} /\ table \in Reads /\ TodoFits(p)
  BY <1>1, AtWork DEF CredInv, CredShape, CredTypes, Reads
<1>3. /\ r \in ShellState /\ r.step = s.step /\ r.read = table /\ r.id = s.id /\ r.scope = s.scope
      /\ r.kind = s.kind /\ r.rotate = s.rotate /\ r.keepPrevious = s.keepPrevious
      /\ r.todo = s.todo
  BY <1>2 DEF ShellState
<1>4. /\ shell' = [shell EXCEPT ![p] = r] /\ breakdowns' = breakdowns /\ row' = row
      /\ UNCHANGED <<driver, table, issued, config, service, inApi, runs, raced, lost>>
  BY DEF ReadFile
<1>0. s = shell[p]
  OBVIOUS
<1> HIDE DEF r, s
<1>5. StepsFit(r)
  BY <1>1, <1>2, <1>3 DEF StepsFit
<1>6. Quiet => Holds(r) /\ ServedBy(r)
  BY <1>1, <1>2, <1>3 DEF Holds, ServedBy, Cuts, Created, Finished
<1>7. r.step = "revoke" =>
        /\ r.id \in 1 .. issued /\ r.id \notin r.todo
        /\ ~ lost => \A c \in r.todo : table[c].scope = r.scope
  BY <1>0, <1>2, <1>3 DEF TodoFits, Reached
<1>8. Moves(p, r)
  BY <1>0, <1>1, <1>2, <1>3, <1>5, <1>7 DEF Moves
<1> QED
  BY <1>2, <1>4, <1>6, <1>8, MoveStep

\* The CLI prints the token of the credential it has created.
LEMMA PrintTokenStep == ASSUME CredInv, NEW p \in Shells, PrintToken(p) PROVE CredInv'
<1> DEFINE s == shell[p]
           r == [s EXCEPT !.step = IF s.kind = "install" THEN "config" ELSE "done"]
<1>1. s.step = "print"
  BY DEF PrintToken, Reached
<1>2. /\ s \in ShellState /\ StepsFit(s) /\ breakdowns \in Nat /\ (Quiet => Holds(s) /\ ServedBy(s))
      /\ row \in {"absent", "local", "remote"} /\ Unissued(table) /\ issued \in Nat
      /\ table \in Tables
  BY <1>1, AtWork DEF CredInv, CredShape, CredTypes
<1>3. /\ r \in ShellState /\ r.step = (IF s.kind = "install" THEN "config" ELSE "done")
      /\ r.read = s.read /\ r.id = s.id /\ r.scope = s.scope
      /\ r.kind = s.kind /\ r.rotate = s.rotate /\ r.keepPrevious = s.keepPrevious
  BY <1>2 DEF ShellState
<1>4. /\ shell' = [shell EXCEPT ![p] = r] /\ breakdowns' = breakdowns /\ row' = row
      /\ UNCHANGED <<driver, table, issued, config, service, inApi, runs, raced, lost>>
  BY DEF PrintToken, Goto, Succeeds
<1>0. s = shell[p] /\ s.scope \in Scopes
  BY <1>2 DEF ShellState
<1> HIDE DEF r, s
<1>5. StepsFit(r)
  BY <1>1, <1>2, <1>3 DEF StepsFit
<1>6. Quiet => s.id \in LiveIn[s.scope] /\ s.id <= issued
  <2> SUFFICES ASSUME Quiet PROVE s.id \in LiveIn[s.scope] /\ s.id <= issued
    OBVIOUS
  <2>1. s.id \in LiveIn[s.scope]
    BY <1>1, <1>2 DEF Holds, Created, StepsFit
  <2> QED
    BY <2>1, <1>0, <1>2, LiveIsIssued
<1>7. Quiet => Holds(r) /\ ServedBy(r)
  <2> SUFFICES ASSUME Quiet PROVE Holds(r) /\ ServedBy(r)
    OBVIOUS
  <2>1. /\ s.kind = "install" => s.scope = "agent" /\ s.rotate
        /\ s.kind # "revoke" /\ s.kind # "none"
    BY <1>0, <1>1, <1>2 DEF StepsFit, Scopes
  <2>2. ServedBy(r)
    BY <1>1, <1>2, <1>3 DEF ServedBy, Cuts
  <2>3. Holds(s)
    BY <1>2
  <2>4. CASE s.kind = "install"
    BY <1>3, <1>6, <2>1, <2>2, <2>3, <2>4 DEF Holds, Finished
  <2>5. CASE s.kind # "install"
    <3>1. r.step = "done"
      BY <1>3, <2>5
    <3>2. Finished(r) => Finished(s)
      BY <1>1, <1>3, <2>5, <3>1 DEF Finished
    <3> QED
      BY <1>3, <1>6, <2>2, <2>3, <3>1, <3>2 DEF Holds
  <2> QED
    BY <2>4, <2>5
<1>8. Moves(p, r)
  BY <1>0, <1>1, <1>2, <1>3, <1>5 DEF Moves
<1> QED
  BY <1>2, <1>4, <1>7, <1>8, MoveStep

\* A revoking command that asks whether the credential it keeps is live.
LEMMA CheckKeepStep == ASSUME CredInv, NEW p \in Shells, CheckKeep(p) PROVE CredInv'
<1> DEFINE s == shell[p]
           n == [s EXCEPT !.step = "revoke", !.todo = ToRevoke(p)]
<1>1. s.step = "check"
  BY DEF CheckKeep, Reached
<1>2. /\ s \in ShellState /\ StepsFit(s) /\ breakdowns \in Nat /\ (Quiet => Holds(s) /\ ServedBy(s))
      /\ row \in {"absent", "local", "remote"} /\ Unissued(table) /\ issued \in Nat
      /\ table \in Tables
  BY <1>1, AtWork DEF CredInv, CredShape, CredTypes
<1>3. s.scope \in Scopes /\ LiveIn[s.scope] = LiveOf(s.scope) /\ LiveIn[s.scope] \subseteq CredIds
  BY <1>2 DEF ShellState, LiveIn, LiveOf
<1>4. ToRevoke(p) = LiveIn[s.scope] \ {s.id}
  BY <1>3 DEF ToRevoke
<1>5. /\ n \in ShellState /\ n.step = "revoke" /\ n.read = s.read /\ n.id = s.id /\ n.scope = s.scope
      /\ n.kind = s.kind /\ n.rotate = s.rotate /\ n.keepPrevious = s.keepPrevious
      /\ n.todo = LiveIn[s.scope] \ {s.id}
  BY <1>2, <1>3, <1>4 DEF ShellState
<1>6. KeepStands(p) <=> s.id \in LiveIn[s.scope]
  BY <1>3 DEF KeepStands, LiveOf, Live
<1>7. /\ shell' = IF KeepStands(p) THEN [shell EXCEPT ![p] = n] ELSE [shell EXCEPT ![p] = Shell]
      /\ breakdowns' = breakdowns /\ row' = row
      /\ UNCHANGED <<driver, table, issued, config, service, inApi, runs, raced, lost>>
  BY DEF CheckKeep, GivesUp
<1>0. s = shell[p]
  OBVIOUS
<1> HIDE DEF n, s
<1>8. CASE s.id \in LiveIn[s.scope]
  <2>1. StepsFit(n)
    BY <1>1, <1>2, <1>5 DEF StepsFit
  <2>2. /\ n.id \in 1 .. issued /\ n.id \notin n.todo
        /\ \A c \in n.todo : table[c].scope = n.scope
    BY <1>2, <1>3, <1>5, <1>8, LiveIsIssued
  <2>3. Moves(p, n)
    BY <1>0, <1>1, <1>5, <2>1, <2>2 DEF Moves
  <2>4. Quiet => ServedBy(n)
    BY <1>1, <1>2, <1>5 DEF ServedBy, Cuts
  <2>5. Quiet => Holds(n)
    <3> SUFFICES ASSUME Quiet PROVE Holds(n)
      OBVIOUS
    <3>1. Holds(s)
      BY <1>2
    <3> QED
      BY <1>1, <1>5, <1>8, <3>1 DEF Holds, Created, Finished
  <2> QED
    BY <1>2, <1>6, <1>7, <1>8, <2>3, <2>4, <2>5, MoveStep
<1>9. CASE s.id \notin LiveIn[s.scope]
  <2>1. Moves(p, Shell)
    BY <1>0, <1>1, ShellIsCommand DEF Moves
  <2>2. Quiet => s.kind = "revoke"
    BY <1>1, <1>2, <1>9 DEF Holds, Created, StepsFit
  <2>3. Quiet => Holds(Shell) /\ ServedBy(Shell)
    BY <1>1, <1>2, <2>2, ShellIsCommand DEF Holds, ServedBy, Cuts, Created, Finished
  <2> QED
    BY <1>2, <1>6, <1>7, <1>9, <2>1, <2>3, MoveStep
<1> QED
  BY <1>8, <1>9

\* A command that has revoked all it set out to revoke.
LEMMA AllRevokedStep == ASSUME CredInv, NEW p \in Shells, AllRevoked(p) PROVE CredInv'
<1> DEFINE s == shell[p]
           r == [s EXCEPT !.step = IF s.kind = "updater" THEN "print" ELSE "done"]
<1>1. s.step = "revoke" /\ s.todo = {}
  BY DEF AllRevoked, Reached
<1>2. /\ s \in ShellState /\ StepsFit(s) /\ breakdowns \in Nat /\ (Quiet => Holds(s) /\ ServedBy(s))
      /\ row \in {"absent", "local", "remote"}
  BY <1>1, AtWork
<1>3. /\ r \in ShellState /\ r.step = (IF s.kind = "updater" THEN "print" ELSE "done")
      /\ r.read = s.read /\ r.id = s.id /\ r.scope = s.scope
      /\ r.kind = s.kind /\ r.rotate = s.rotate /\ r.keepPrevious = s.keepPrevious
  BY <1>2 DEF ShellState
<1>4. /\ shell' = [shell EXCEPT ![p] = r] /\ breakdowns' = breakdowns /\ row' = row
      /\ UNCHANGED <<driver, table, issued, config, service, inApi, runs, raced, lost>>
  BY DEF AllRevoked, Goto, Succeeds
<1>0. s = shell[p]
  OBVIOUS
<1> HIDE DEF r, s
<1>5. StepsFit(r)
  BY <1>1, <1>2, <1>3 DEF StepsFit
<1>6. Quiet => Holds(r)
  <2> SUFFICES ASSUME Quiet PROVE Holds(r)
    OBVIOUS
  <2>1. Holds(s) /\ LiveIn[s.scope] \subseteq {s.id}
    BY <1>1, <1>2 DEF Holds
  <2>2. Created(r) => Created(s)
    BY <1>1, <1>3 DEF Created
  <2> QED
    BY <1>1, <1>3, <2>1, <2>2 DEF Holds
<1>7. Quiet => ServedBy(r)
  BY <1>1, <1>2, <1>3 DEF ServedBy, Cuts
<1>8. Moves(p, r)
  BY <1>0, <1>1, <1>2, <1>3, <1>5 DEF Moves
<1> QED
  BY <1>2, <1>4, <1>6, <1>7, <1>8, MoveStep

\* A command that fails or is interrupted.
LEMMA BreakDownStep == ASSUME CredInv, NEW p \in Shells, BreakDown(p) PROVE CredInv'
<1>1. /\ shell[p].step # "idle" /\ shell' = [shell EXCEPT ![p] = Shell]
      /\ breakdowns' = breakdowns + 1 /\ row' = row
      /\ UNCHANGED <<driver, table, issued, config, service, inApi, runs, raced, lost>>
  BY DEF BreakDown, Working, GivesUp
<1>2. breakdowns \in Nat /\ row \in {"absent", "local", "remote"}
  BY DEF CredInv, CredShape, CredTypes
<1>3. Moves(p, Shell)
  BY <1>1, ShellIsCommand DEF Moves
<1>4. Holds(Shell)
  BY ShellIsCommand DEF Holds, Created, Finished
<1>5. breakdowns' # breakdowns
  BY <1>1, <1>2
<1> QED
  BY <1>1, <1>2, <1>3, <1>4, <1>5, MoveStep

\* A command that writes: the others have not begun unless they ran beside it.
LEMMA WriteStep ==
  ASSUME CredInv, NEW p \in Shells, shell[p].step # "idle", CredShape',
         \A q \in Shells : q # p => shell'[q] = shell[q],
         raced' = raced, lost => lost',
         ~ raced => /\ issued' <= runs'
                    /\ shell'[p].step \in {"host", "list", "create"} => issued' < runs',
         \A q \in Shells : shell[q].step \in {"host", "list", "create"} /\ q # p => raced \/ issued' < runs',
         Quiet' => Holds(shell[p])' /\ ServedBy(shell[p])'
  PROVE  CredInv'
<1>1. ~ raced => \A q \in Shells : q # p => shell'[q] = Shell
  BY LoneCommand
<1>2. Quiet' => \A q \in Shells : Holds(shell[q])'
  BY <1>1, ShellIsCommand DEF Holds, Quiet, Created, Finished
<1>3. ~ raced' => \A q \in Shells : shell'[q].step # "idle" => q = FirstShell
  BY <1>1, ShellIsCommand DEF CredInv
<1>4. ~ raced' => /\ issued' <= runs'
                  /\ \A q \in Shells : shell'[q].step \in {"host", "list", "create"} => issued' < runs'
  BY <1>1, ShellIsCommand
<1> QED
  BY <1>2, <1>3, <1>4 DEF CredInv

\* What a write of a command is made on.
LEMMA BaseIsTable ==
  ASSUME CredInv, NEW p \in Shells, shell[p].step # "idle", MayWrite(p)
  PROVE  /\ Base(p) \in Tables /\ table \in Tables
         /\ \A c \in CredIds : c > issued => Base(p)[c] = NoCred /\ table[c] = NoCred
         /\ Quiet => Base(p) = table
<1>1. /\ shell[p] \in ShellState /\ table \in Tables /\ Unissued(table) /\ Unissued(shell[p].read)
      /\ shell[p].read \in Reads
  BY DEF CredInv, CredShape, CredTypes, ShellState
<1>2. \A c \in CredIds : c > issued => table[c] = NoCred
  BY <1>1 DEF Unissued, NotRead, Tables
<1>3. CASE driver = "json"
  BY <1>1, <1>2, <1>3, LoneCommand DEF MayWrite, Base, Unissued, Reads, Holds, Quiet
<1>4. CASE driver # "json"
  BY <1>1, <1>2, <1>4 DEF Base
<1> QED
  BY <1>3, <1>4

\* A command that issues a credential.
LEMMA CreateCredentialStep == ASSUME CredInv, NEW p \in Shells, CreateCredential(p) PROVE CredInv'
<1> DEFINE s == shell[p]
           k == issued + 1
           f == Base(p)
           new == [scope |-> s.scope, status |-> "active"]
           a == AfterCreate(p)
           r == [s EXCEPT !.id = k, !.step = a, !.read = NotRead]
<1>1. s.step = "create" /\ MayWrite(p)
  BY DEF CreateCredential, Reached
<1>2. /\ s \in ShellState /\ StepsFit(s) /\ (Quiet => Holds(s) /\ ServedBy(s))
      /\ shell \in [Shells -> ShellState] /\ issued \in Nat
  BY <1>1, AtWork
<1>3. /\ f \in Tables /\ table \in Tables
      /\ \A c \in CredIds : c > issued => f[c] = NoCred /\ table[c] = NoCred
      /\ Quiet => f = table
  BY <1>1, BaseIsTable
<1>4. /\ shell' = [shell EXCEPT ![p] = r] /\ issued' = k /\ table' = [f EXCEPT ![k] = new]
      /\ UNCHANGED <<driver, row, config, service, inApi, runs, breakdowns, raced>>
  BY DEF CreateCredential
<1>5. (lost => lost') /\ (~ lost' => f = table)
  BY Zenon DEF CreateCredential
<1>6. /\ a \in {"check", "print"}
      /\ (a = "check") <=> (s.kind = "updater" /\ s.rotate /\ ~ s.keepPrevious)
  BY DEF AfterCreate
<1>b. k \in Nat
  BY <1>2
<1> HIDE DEF a, k
<1>7. /\ r \in ShellState /\ r.step = a /\ r.read = NotRead /\ r.id = k
      /\ r.scope = s.scope /\ r.kind = s.kind /\ r.rotate = s.rotate
      /\ r.keepPrevious = s.keepPrevious /\ r.todo = s.todo
  BY <1>2, <1>6, <1>b, ShellIsCommand DEF ShellState
<1>8. new \in Cred /\ new.scope = s.scope /\ new.status = "active" /\ s.scope \in Scopes
      /\ new # NoCred
  BY <1>2 DEF Cred, ShellState, NoCred
<1>0. s = shell[p] /\ k \in Nat /\ k > issued
  BY <1>2 DEF k
<1> HIDE DEF r, s, new, f
<1>9. /\ shell' \in [Shells -> ShellState] /\ shell'[p] = r
      /\ \A q \in Shells : q # p => shell'[q] = shell[q]
  BY <1>2, <1>4, <1>7
<1>10. /\ table' \in Tables
       /\ \A c \in CredIds : table'[c] = IF c = k THEN new ELSE f[c]
  BY <1>3, <1>4, <1>8 DEF Tables
<1>11. StepsFit(r)
  BY <1>1, <1>2, <1>6, <1>7 DEF StepsFit
<1>12. CredTypes'
  BY <1>0, <1>4, <1>9, <1>10 DEF CredInv, CredShape, CredTypes
<1>13. CredShape'
  <2>1. Unissued(table)' /\ Unissued(inApi)'
    <3> SUFFICES ASSUME NEW c \in CredIds, c > issued'
                 PROVE  table'[c] = NoCred /\ (inApi # NotRead => inApi[c] = NoCred)
      BY <1>4 DEF Unissued
    <3>1. c \in Nat /\ c > k /\ c > issued
      BY <1>0, <1>2, <1>4, IdsCount
    <3> QED
      BY <1>3, <1>10, <3>1 DEF CredInv, CredShape, Unissued
  <2>2. ~ lost' => \A c \in CredIds : table[c] # NoCred => table'[c].scope = table[c].scope
    BY <1>0, <1>3, <1>5, <1>10
  <2>3. TodoFits(p)'
    BY <1>6, <1>7, <1>9 DEF TodoFits, Reached
  <2>4. issued <= issued' /\ CredShape
    BY <1>0, <1>2, <1>4 DEF CredInv
  <2> QED
    BY <1>4, <1>5, <1>7, <1>11, <1>12, <2>1, <2>2, <2>3, <2>4, ShapeStep
<1>14. Quiet' => Holds(shell[p])' /\ ServedBy(shell[p])'
  <2> SUFFICES ASSUME Quiet' PROVE Holds(shell[p])' /\ ServedBy(shell[p])'
    OBVIOUS
  <2>1. Quiet /\ f = table
    BY <1>3, <1>4, <1>5 DEF Quiet
  <2>2. k \in CredIds
    <3>1. /\ driver \in Stores /\ MaxRuns[driver] \in Nat /\ runs \in Nat /\ runs <= MaxRuns[driver]
          /\ issued < runs
      BY <1>0, <1>1, <2>1, CredentialsAssumption DEF CredInv, CredShape, CredTypes, Quiet
    <3>2. k \in 1 .. MaxRuns[driver]
      BY <1>2, <3>1 DEF k
    <3> QED
      BY <3>1, <3>2, IdsCount
  <2>3. \A t \in Scopes : LiveIn'[t] = IF t = s.scope THEN LiveIn[t] \cup {k} ELSE LiveIn[t]
    <3>1. \A t \in Scopes : /\ LiveIn[t] = { c \in CredIds : table[c].status = "active" /\ table[c].scope = t }
                           /\ LiveIn'[t] = { c \in CredIds : table'[c].status = "active" /\ table'[c].scope = t }
      BY DEF LiveIn, LiveOf, Live
    <3>2. \A c \in CredIds : table'[c] = IF c = k THEN new ELSE table[c]
      BY <1>10, <2>1
    <3>3. table[k].status # "active"
      BY <1>0, <1>3, <2>2 DEF NoCred
    <3>4. ASSUME NEW t \in Scopes, NEW c \in CredIds
          PROVE  c \in LiveIn'[t] <=> (c \in LiveIn[t] \/ (t = s.scope /\ c = k))
      BY <1>8, <2>2, <3>1, <3>2, <3>3
    <3>5. \A t \in Scopes : LiveIn[t] \subseteq CredIds /\ LiveIn'[t] \subseteq CredIds
      BY <3>1
    <3> QED
      BY <2>2, <3>4, <3>5
  <2>4. /\ k \in LiveIn'[s.scope]
        /\ \A t \in Scopes : LiveIn[t] \subseteq LiveIn'[t]
    BY <1>8, <2>3
  <2>5. \A t \in Scopes : config[t] < k /\ config[t] \in Nat
    BY <1>0, <1>2, <2>1 DEF ServedBy, CredInv, CredShape, CredTypes
  <2>6. Holds(shell[p])'
    BY <1>2, <1>4, <1>6, <1>7, <1>9, <2>4, <2>5 DEF Holds, Created, Finished, Scopes
  <2>7. ~ Cuts(s)
    BY <1>1, <1>2 DEF Cuts, StepsFit
  <2>8. ServedBy(shell[p])'
    BY <1>0, <1>1, <1>2, <1>4, <1>6, <1>7, <1>9, <2>1, <2>4, <2>5, <2>7 DEF ServedBy, Scopes
  <2> QED
    BY <2>6, <2>8
<1>15. ~ raced => issued' <= runs'
  BY <1>0, <1>1, <1>2, <1>4 DEF CredInv, CredShape, CredTypes, k
<1>16. \A q \in Shells : shell[q].step \in {"host", "list", "create"} /\ q # p => raced
  BY <1>0, <1>1, LoneCommand, ShellIsCommand
<1>17. shell[p].step # "idle" /\ shell'[p].step \notin {"host", "list", "create"} /\ raced' = raced
  BY <1>0, <1>1, <1>4, <1>6, <1>7, <1>9
<1> QED
  BY <1>5, <1>9, <1>13, <1>14, <1>15, <1>16, <1>17, WriteStep

\* A command that revokes one of the credentials it does not keep.
LEMMA RevokeCredentialStep == ASSUME CredInv, NEW p \in Shells, RevokeCredential(p) PROVE CredInv'
<1> DEFINE s == shell[p]
           f == Base(p)
<1>1. s.step = "revoke" /\ MayWrite(p)
  BY DEF RevokeCredential, Reached
<1>2. PICK k \in s.todo :
        /\ IF f[k] = NoCred
           THEN UNCHANGED <<table, lost>>
           ELSE /\ table' = [f EXCEPT ![k].status = "revoked"]
                /\ lost' = (lost \/ f # table)
        /\ shell' = [shell EXCEPT ![p].todo = @ \ {k}, ![p].read = NotRead]
  BY DEF RevokeCredential
<1> DEFINE r == [s EXCEPT !.todo = @ \ {k}, !.read = NotRead]
<1>3. /\ s \in ShellState /\ StepsFit(s) /\ (Quiet => Holds(s) /\ ServedBy(s))
      /\ shell \in [Shells -> ShellState] /\ issued \in Nat /\ TodoFits(p)
  BY <1>1, AtWork DEF CredInv, CredShape
<1>4. /\ f \in Tables /\ table \in Tables
      /\ \A c \in CredIds : c > issued => f[c] = NoCred /\ table[c] = NoCred
      /\ Quiet => f = table
  BY <1>1, BaseIsTable
<1>5. /\ UNCHANGED <<driver, row, issued, config, service, inApi, runs, breakdowns, raced>>
  BY DEF RevokeCredential
<1>6. shell' = [shell EXCEPT ![p] = r]
  BY <1>2, <1>3 DEF ShellState
<1>7. /\ r \in ShellState /\ r.step = "revoke" /\ r.read = NotRead /\ r.id = s.id
      /\ r.scope = s.scope /\ r.kind = s.kind /\ r.rotate = s.rotate
      /\ r.keepPrevious = s.keepPrevious /\ r.todo = s.todo \ {k}
  BY <1>1, <1>3, ShellIsCommand DEF ShellState
<1>8. k \in CredIds /\ s.scope \in Scopes /\ s.id # k /\ s.id \in 1 .. issued
  BY <1>1, <1>3 DEF ShellState, TodoFits, Reached
<1>9. (lost => lost') /\ (~ lost' => ~ lost)
  BY <1>2, Zenon
<1>10. ~ lost' => f = table \/ table' = table
  BY <1>2, Zenon
<1>0. s = shell[p]
  OBVIOUS
<1> HIDE DEF r, s, f
<1>11. /\ shell' \in [Shells -> ShellState] /\ shell'[p] = r
       /\ \A q \in Shells : q # p => shell'[q] = shell[q]
  BY <1>3, <1>6, <1>7
<1>12. f[k] # NoCred => [f[k] EXCEPT !.status = "revoked"] \in Cred
                        /\ [f[k] EXCEPT !.status = "revoked"].scope = f[k].scope
                        /\ [f[k] EXCEPT !.status = "revoked"].status = "revoked"
  BY <1>4, <1>8 DEF Tables, Cred
<1>13. /\ table' \in Tables
       /\ f[k] # NoCred => \A c \in CredIds :
            table'[c] = IF c = k THEN [f[k] EXCEPT !.status = "revoked"] ELSE f[c]
       /\ f[k] = NoCred => table' = table
  BY <1>2, <1>4, <1>8, <1>12 DEF Tables
<1>15. ~ lost' => \A c \in CredIds : table[c] # NoCred => table'[c].scope = table[c].scope
  BY <1>10, <1>12, <1>13
<1>16. CredTypes'
  BY <1>5, <1>11, <1>13 DEF CredInv, CredShape, CredTypes
<1>17. StepsFit(r)
  BY <1>1, <1>3, <1>7 DEF StepsFit
<1>18. CredShape'
  <2>1. Unissued(table)' /\ Unissued(inApi)'
    <3> SUFFICES ASSUME NEW c \in CredIds, c > issued
                 PROVE  table'[c] = NoCred /\ (inApi # NotRead => inApi[c] = NoCred)
      BY <1>5 DEF Unissued
    <3>1. inApi # NotRead => inApi[c] = NoCred
      BY DEF CredInv, CredShape, Unissued
    <3>2. f[k] # NoCred => c # k
      BY <1>4
    <3> QED
      BY <1>4, <1>13, <3>1, <3>2
  <2>2. TodoFits(p)'
    <3>1. \A c \in s.todo : ~ lost => table[c].scope = s.scope /\ table[c] # NoCred
      BY <1>0, <1>1, <1>3, <1>8 DEF TodoFits, Reached, NoCred, Scopes
    <3>2. s.todo \subseteq CredIds /\ s.id \notin s.todo
      BY <1>0, <1>1, <1>3 DEF ShellState, TodoFits, Reached
    <3>3. ~ lost' => \A c \in r.todo : table'[c].scope = r.scope
      BY <1>7, <1>9, <1>15, <3>1, <3>2
    <3> QED
      BY <1>5, <1>7, <1>8, <1>11, <3>2, <3>3 DEF TodoFits, Reached
  <2>3. issued <= issued' /\ CredShape
    BY <1>3, <1>5 DEF CredInv
  <2> QED
    BY <1>6, <1>7, <1>9, <1>15, <1>16, <1>17, <2>1, <2>2, <2>3, ShapeStep
<1>19. Quiet' => Holds(shell[p])' /\ ServedBy(shell[p])'
  <2> SUFFICES ASSUME Quiet' PROVE Holds(shell[p])' /\ ServedBy(shell[p])'
    OBVIOUS
  <2>1. Quiet /\ f = table
    BY <1>4, <1>5, <1>9 DEF Quiet
  <2>2. table[k].scope = s.scope /\ f[k] # NoCred
    BY <1>0, <1>1, <1>2, <1>3, <1>8, <2>1 DEF TodoFits, Reached, NoCred, Scopes, Quiet
  <2>3. \A t \in Scopes : /\ LiveIn'[t] = LiveIn[t] \ {k}
                          /\ k \in LiveIn[t] => t = s.scope
    <3>1. \A t \in Scopes : /\ LiveIn[t] = { c \in CredIds : table[c].status = "active" /\ table[c].scope = t }
                           /\ LiveIn'[t] = { c \in CredIds : table'[c].status = "active" /\ table'[c].scope = t }
      BY DEF LiveIn, LiveOf, Live
    <3>2. \A c \in CredIds : IF c = k THEN table'[c].status = "revoked" ELSE table'[c] = table[c]
      BY <1>12, <1>13, <2>1, <2>2
    <3>3. ASSUME NEW t \in Scopes, NEW c \in CredIds
          PROVE  c \in LiveIn'[t] <=> (c \in LiveIn[t] /\ c # k)
      BY <3>1, <3>2
    <3>4. \A t \in Scopes : LiveIn[t] \subseteq CredIds /\ LiveIn'[t] \subseteq CredIds
      BY <3>1
    <3>5. \A t \in Scopes : k \in LiveIn[t] => t = s.scope
      BY <2>2, <3>1
    <3> QED
      BY <3>3, <3>4, <3>5
  <2>4. Holds(s) /\ ServedBy(s)
    BY <1>3, <2>1
  <2>5. Created(r) => Created(s)
    BY <1>1, <1>7 DEF Created
  <2>6. Holds(shell[p])'
    BY <1>1, <1>5, <1>7, <1>8, <1>11, <2>3, <2>4, <2>5 DEF Holds, Created, Finished
  <2>7. /\ s.kind \in {"install", "updater", "revoke"}
        /\ s.kind = "install" => s.scope = "agent" /\ service["agent"] = s.id
        /\ s.kind = "revoke" => service[s.scope] = s.id
        /\ s.kind = "updater" => s.scope = "local-updater" /\ Cuts(s)
    BY <1>1, <1>3, <1>8, <2>4 DEF Holds, StepsFit, Cuts, Scopes
  <2>8. Cuts(s) => Cuts(shell[p])'
    BY <1>5, <1>7, <1>11 DEF Cuts
  <2>9. service["agent"] \in LiveIn["agent"] => service["agent"] \in LiveIn'["agent"]
    BY <1>8, <2>3, <2>7 DEF Scopes
  <2>10. s.kind # "updater" /\ service["local-updater"] \in LiveIn["local-updater"] =>
           service["local-updater"] \in LiveIn'["local-updater"]
    BY <1>8, <2>3, <2>7 DEF Scopes
  <2>11. ServedBy(shell[p])'
    BY <1>1, <1>5, <1>7, <1>11, <2>4, <2>7, <2>8, <2>9, <2>10 DEF ServedBy
  <2> QED
    BY <2>6, <2>11
<1>20. ~ raced => issued' <= runs'
  BY <1>5 DEF CredInv
<1>21. \A q \in Shells : shell[q].step \in {"host", "list", "create"} /\ q # p => raced
  BY <1>0, <1>1, LoneCommand, ShellIsCommand
<1>22. shell[p].step # "idle" /\ shell'[p].step \notin {"host", "list", "create"} /\ raced' = raced
  BY <1>0, <1>1, <1>5, <1>7, <1>11
<1> QED
  BY <1>9, <1>11, <1>18, <1>19, <1>20, <1>21, <1>22, WriteStep

\* The steps on the host: neither the file nor a copy of it changes.
LEMMA HostStep ==
  ASSUME CredInv, NEW p \in Shells, NEW r \in ShellState, shell[p].step # "idle",
         shell' = [shell EXCEPT ![p] = r], StepsFit(r),
         r.read = shell[p].read, r.step \notin {"host", "list", "create", "revoke"},
         UNCHANGED <<driver, row, table, issued, inApi, runs, breakdowns, raced, lost>>,
         config' \in [Scopes -> Nat], service' \in [Scopes -> Nat],
         Quiet => Holds(shell[p])' /\ ServedBy(shell[p])'
  PROVE  CredInv'
<1>1. shell' \in [Shells -> ShellState] /\ shell'[p] = r /\ \A q \in Shells : q # p => shell'[q] = shell[q]
  BY DEF CredInv, CredShape, CredTypes
<1>2. CredTypes'
  BY <1>1 DEF CredInv, CredShape, CredTypes
<1>3. Unissued(table)' /\ Unissued(inApi)' /\ TodoFits(p)'
  BY <1>1 DEF CredInv, CredShape, Unissued, TodoFits, Reached
<1>4. CredShape'
  <2>1. /\ CredShape /\ issued <= issued' /\ (lost => lost')
        /\ \A c \in CredIds : table'[c].scope = table[c].scope
        /\ r.read # NotRead => r.read \in {shell[p].read, table, table'}
    BY DEF CredInv, CredShape, CredTypes
  <2> QED
    BY <1>2, <1>3, <2>1, ShapeStep
<1>5. ~ raced => issued' <= runs'
  BY DEF CredInv
<1>6. \A q \in Shells : shell[q].step \in {"host", "list", "create"} => raced \/ issued' < runs'
  BY DEF CredInv
<1>7. Quiet' => Holds(shell[p])' /\ ServedBy(shell[p])'
  BY DEF Quiet
<1> QED
  BY <1>1, <1>4, <1>5, <1>6, <1>7, WriteStep

\* install.sh writes the agent's token to its configuration.
LEMMA InstallConfigStep == ASSUME CredInv, NEW p \in Shells, InstallConfig(p) PROVE CredInv'
<1> DEFINE s == shell[p]
           r == [s EXCEPT !.step = "restart"]
<1>1. s.step = "config"
  BY DEF InstallConfig, Reached
<1>2. /\ s \in ShellState /\ StepsFit(s) /\ shell \in [Shells -> ShellState]
      /\ (Quiet => Holds(s) /\ ServedBy(s)) /\ config \in [Scopes -> Nat] /\ service \in [Scopes -> Nat]
  BY <1>1, AtWork DEF CredInv, CredShape, CredTypes
<1>3. /\ r \in ShellState /\ r.step = "restart" /\ r.read = s.read /\ r.id = s.id /\ r.scope = s.scope
      /\ r.kind = s.kind /\ r.rotate = s.rotate /\ r.keepPrevious = s.keepPrevious
      /\ s.id \in Nat
  BY <1>2 DEF ShellState
<1>4. /\ shell' = [shell EXCEPT ![p] = r] /\ config' = [config EXCEPT !["agent"] = s.id]
      /\ UNCHANGED <<driver, row, table, issued, service, inApi, runs, breakdowns, raced, lost>>
  BY DEF InstallConfig, Goto
<1>0. s = shell[p]
  OBVIOUS
<1> HIDE DEF r, s
<1>5. StepsFit(r) /\ s.kind = "install"
  BY <1>1, <1>2, <1>3 DEF StepsFit
<1>6. /\ config' \in [Scopes -> Nat] /\ config'["agent"] = s.id
      /\ config'["local-updater"] = config["local-updater"] /\ shell'[p] = r
  BY <1>2, <1>3, <1>4 DEF Scopes
<1>7. Quiet => Holds(shell[p])' /\ ServedBy(shell[p])'
  <2> SUFFICES ASSUME Quiet PROVE Holds(shell[p])' /\ ServedBy(shell[p])'
    OBVIOUS
  <2>1. Holds(s) /\ ServedBy(s) /\ LiveIn' = LiveIn
    BY <1>2, <1>4, LiveSame
  <2>2. Created(r) => Created(s)
    BY <1>1, <1>3 DEF Created
  <2>3. Holds(shell[p])'
    BY <1>1, <1>3, <1>4, <1>5, <1>6, <2>1, <2>2 DEF Holds, Created, Finished
  <2>4. ~ Cuts(s)
    BY <1>5 DEF Cuts
  <2>5. ServedBy(shell[p])'
    BY <1>1, <1>3, <1>4, <1>6, <2>1, <2>4 DEF ServedBy, Scopes, Holds
  <2> QED
    BY <2>3, <2>5
<1>8. service' \in [Scopes -> Nat] /\ shell[p].step # "idle" /\ r.read = shell[p].read
  BY <1>0, <1>1, <1>2, <1>3, <1>4
<1> QED
  BY <1>3, <1>4, <1>5, <1>6, <1>7, <1>8, HostStep

\* install.sh restarts the agent, which reads its configuration.
LEMMA RestartServiceStep == ASSUME CredInv, NEW p \in Shells, RestartService(p) PROVE CredInv'
<1> DEFINE s == shell[p]
           r == [s EXCEPT !.step = IF s.rotate THEN "check" ELSE "done"]
<1>1. s.step = "restart"
  BY DEF RestartService, Reached
<1>2. /\ s \in ShellState /\ StepsFit(s) /\ shell \in [Shells -> ShellState]
      /\ (Quiet => Holds(s) /\ ServedBy(s)) /\ config \in [Scopes -> Nat] /\ service \in [Scopes -> Nat]
  BY <1>1, AtWork DEF CredInv, CredShape, CredTypes
<1>3. /\ r \in ShellState /\ r.step = (IF s.rotate THEN "check" ELSE "done")
      /\ r.read = s.read /\ r.id = s.id /\ r.scope = s.scope
      /\ r.kind = s.kind /\ r.rotate = s.rotate /\ r.keepPrevious = s.keepPrevious
  BY <1>2 DEF ShellState
<1>4. /\ shell' = [shell EXCEPT ![p] = r] /\ service' = [service EXCEPT !["agent"] = config["agent"]]
      /\ UNCHANGED <<driver, row, table, issued, config, inApi, runs, breakdowns, raced, lost>>
  BY DEF RestartService, Goto, Succeeds
<1>0. s = shell[p]
  OBVIOUS
<1> HIDE DEF r, s
<1>5. StepsFit(r) /\ s.kind = "install"
  BY <1>1, <1>2, <1>3 DEF StepsFit
<1>6. /\ service' \in [Scopes -> Nat] /\ service'["agent"] = config["agent"]
      /\ service'["local-updater"] = service["local-updater"] /\ shell'[p] = r
  BY <1>2, <1>3, <1>4 DEF Scopes
<1>7. Quiet => Holds(shell[p])' /\ ServedBy(shell[p])'
  <2> SUFFICES ASSUME Quiet PROVE Holds(shell[p])' /\ ServedBy(shell[p])'
    OBVIOUS
  <2>1. Holds(s) /\ ServedBy(s) /\ LiveIn' = LiveIn
    BY <1>2, <1>4, LiveSame
  <2>2. (Created(r) => Created(s)) /\ ~ Finished(r)
    BY <1>1, <1>3, <1>5 DEF Created, Finished
  <2>3. Holds(shell[p])'
    <3>1. shell'[p].step \in {"check", "done"} /\ shell'[p].kind = "install"
      BY <1>3, <1>5, <1>6
    <3>2. Created(shell[p])' => Created(r)
      BY <1>6 DEF Created
    <3>3. ~ Finished(shell[p])'
      BY <1>6, <2>2 DEF Finished
    <3> QED
      BY <1>1, <1>3, <1>4, <1>6, <2>1, <2>2, <3>1, <3>2, <3>3 DEF Holds
  <2>4. ~ Cuts(s)
    BY <1>5 DEF Cuts
  <2>5. ServedBy(shell[p])'
    BY <1>1, <1>3, <1>4, <1>6, <2>1, <2>4 DEF ServedBy, Scopes, Holds
  <2> QED
    BY <2>3, <2>5
<1>8. /\ config' \in [Scopes -> Nat] /\ shell[p].step # "idle" /\ r.read = shell[p].read
      /\ r.step \notin {"host", "list", "create", "revoke"}
  BY <1>0, <1>1, <1>2, <1>3, <1>4
<1> QED
  BY <1>3, <1>4, <1>5, <1>6, <1>7, <1>8, HostStep

\* The updater's token is installed and its service restarted.
LEMMA InstallTokenStep == ASSUME CredInv, NEW p \in Shells, InstallToken(p) PROVE CredInv'
<1> DEFINE s == shell[p]
<1>1. s.step = "done" /\ s.kind \in {"agent", "updater"}
  BY DEF InstallToken, Reached
<1>2. /\ s \in ShellState /\ StepsFit(s) /\ shell \in [Shells -> ShellState]
      /\ (Quiet => Holds(s) /\ ServedBy(s)) /\ config \in [Scopes -> Nat] /\ service \in [Scopes -> Nat]
      /\ Unissued(table) /\ table \in Tables /\ issued \in Nat
  BY <1>1, AtWork DEF CredInv, CredShape, CredTypes
<1>3. s.id \in Nat /\ s.scope \in Scopes
  BY <1>2 DEF ShellState
<1>4. /\ shell' = shell /\ config' = [config EXCEPT ![s.scope] = s.id]
      /\ service' = [service EXCEPT ![s.scope] = s.id]
      /\ UNCHANGED <<driver, row, table, issued, inApi, runs, breakdowns, raced, lost>>
  BY DEF InstallToken
<1>0. s = shell[p]
  OBVIOUS
<1> HIDE DEF s
<1>5. shell' = [shell EXCEPT ![p] = s] /\ shell'[p] = s
  BY <1>0, <1>2, <1>4
<1>6. /\ config' \in [Scopes -> Nat] /\ service' \in [Scopes -> Nat]
      /\ \A t \in Scopes : /\ config'[t] = IF t = s.scope THEN s.id ELSE config[t]
                           /\ service'[t] = IF t = s.scope THEN s.id ELSE service[t]
  BY <1>2, <1>3, <1>4
<1>7. Quiet => Holds(shell[p])' /\ ServedBy(shell[p])'
  <2> SUFFICES ASSUME Quiet PROVE Holds(shell[p])' /\ ServedBy(shell[p])'
    OBVIOUS
  <2>1. Holds(s) /\ ServedBy(s) /\ LiveIn' = LiveIn
    BY <1>2, <1>4, LiveSame
  <2>2. s.id \in LiveIn[s.scope] /\ s.id \in 1 .. issued
    <3>1. s.id \in LiveIn[s.scope]
      BY <1>1, <2>1 DEF Holds, Created
    <3> QED
      BY <1>2, <1>3, <3>1, LiveIsIssued
  <2>3. Holds(shell[p])'
    BY <1>1, <1>4, <1>5, <2>1 DEF Holds, Created, Finished
  <2>4. s.scope = "local-updater" <=> s.kind = "updater"
    BY <1>1, <1>2 DEF StepsFit
  <2>5. \A t \in Scopes : config'[t] <= issued'
    BY <1>4, <1>6, <2>1, <2>2 DEF ServedBy
  <2>6. ASSUME breakdowns = 0
        PROVE  /\ service'["agent"] # 0 => service'["agent"] \in LiveIn'["agent"]
               /\ config'["local-updater"] = service'["local-updater"]
               /\ config'["agent"] = service'["agent"]
    BY <1>1, <1>6, <2>1, <2>2, <2>6 DEF ServedBy, Scopes
  <2>7. ASSUME breakdowns = 0, service'["local-updater"] # 0
        PROVE  service'["local-updater"] \in LiveIn'["local-updater"]
    <3>1. CASE s.scope = "local-updater"
      BY <1>6, <2>1, <2>2, <3>1 DEF Scopes
    <3>2. CASE s.scope = "agent"
      <4>1. ~ Cuts(s)
        BY <2>4, <3>2 DEF Cuts
      <4>2. service'["local-updater"] = service["local-updater"]
        BY <1>6, <3>2 DEF Scopes
      <4> QED
        BY <2>1, <2>7, <4>1, <4>2 DEF ServedBy
    <3> QED
      BY <1>3, <3>1, <3>2 DEF Scopes
  <2>8. ServedBy(shell[p])'
    BY <1>4, <2>5, <2>6, <2>7 DEF ServedBy
  <2> QED
    BY <2>3, <2>8
<1>8. /\ shell[p].step # "idle" /\ s.read = shell[p].read
      /\ s.step \notin {"host", "list", "create", "revoke"}
  BY <1>0, <1>1
<1> QED
  BY <1>2, <1>4, <1>5, <1>6, <1>7, <1>8, HostStep

\* The API between its read and its write of the file.
LEMMA ApiSteps == ASSUME CredInv, ApiReads \/ ApiWrites PROVE CredInv'
<1>1. /\ UNCHANGED <<driver, row, issued, config, service, shell, runs, breakdowns, raced>>
      /\ table' = table \/ (inApi # NotRead /\ table' = inApi)
      /\ inApi' \in {table, NotRead}
  BY DEF ApiReads, ApiWrites
<1>2. (lost => lost') /\ (~ lost' => ~ lost /\ table' = table)
  <2>1. CASE ApiReads
    BY <2>1 DEF ApiReads
  <2>2. CASE ApiWrites
    <3>1. (lost => lost') /\ (~ lost' => ~ lost /\ table = inApi)
      BY <2>2, Zenon DEF ApiWrites
    <3> QED
      BY <2>2, <3>1 DEF ApiWrites
  <2> QED
    BY <2>1, <2>2
<1>3. table' \in Tables /\ inApi' \in Reads
  BY <1>1, ShellIsCommand DEF CredInv, CredShape, CredTypes, Reads
<1>4. CredTypes'
  BY <1>1, <1>3 DEF CredInv, CredShape, CredTypes
<1>5. Unissued(table)' /\ Unissued(inApi)' /\ \A p \in Shells : Unissued(shell[p].read)'
  BY <1>1 DEF CredInv, CredShape, Unissued
<1>6. \A p \in Shells : StepsFit(shell[p])' /\ TodoFits(p)'
  BY <1>1, <1>2 DEF CredInv, CredShape, StepsFit, TodoFits, Reached
<1>7. Quiet' => Quiet /\ LiveIn' = LiveIn /\ table' = table
  BY <1>1, <1>2, LiveSame DEF Quiet
<1>8. Quiet' => \A p \in Shells : Holds(shell[p])'
  BY <1>1, <1>7 DEF CredInv, Holds, Created, Finished
<1>9. Quiet' => ServedBy(Shell)' \/ \E p \in Shells : ServedBy(shell[p])'
  <2>1. Quiet' => (ServedBy(Shell) => ServedBy(Shell)')
    BY <1>1, <1>7 DEF ServedBy, Cuts, Shell
  <2>2. Quiet' => \A p \in Shells : ServedBy(shell[p]) => ServedBy(shell[p])'
    BY <1>1, <1>7 DEF ServedBy, Cuts
  <2> QED
    BY <1>7, <2>1, <2>2 DEF CredInv
<1> QED
  BY <1>1, <1>4, <1>5, <1>6, <1>8, <1>9 DEF CredInv, CredShape

\* Where a command begins tells what it is, and that nothing was cut over before it.
LEMMA BeginsIs ==
  ASSUME NEW r \in CommandLines
  PROVE  /\ Begins(r) \in {"refused", "config", "create", "check", "host"}
         /\ Begins(r) = "config" => r.kind = "install" /\ config["agent"] # 0 /\ ~ r.rotate
         /\ Begins(r) = "create" => r.kind = "token"
         /\ Begins(r) = "check" => r.kind = "revoke"
         /\ Begins(r) = "host" => r.kind \in {"install", "agent", "updater"}
<1>1. r.kind \in {"install", "agent", "updater", "token", "revoke"}
  BY DEF CommandLines
<1> QED
  BY <1>1 DEF Begins

\* An operator who starts a command, alone or beside another.
LEMMA StartCommandStep ==
  ASSUME CredInv, NEW p \in Shells, NEW r \in CommandLines, StartCommand(p, r)
  PROVE  CredInv'
<1> DEFINE b == Begins(r)
           rot == r.rotate \/ (r.kind = "install" /\ b = "host")
           i == IF r.kind = "revoke" THEN r.keep ELSE IF b = "config" THEN config["agent"] ELSE 0
           n == [Shell EXCEPT !.kind = r.kind, !.rotate = rot, !.keepPrevious = r.keepPrevious,
                              !.scope = r.scope, !.step = b, !.id = i]
           m == IF b = "refused" THEN Shell ELSE n
<1>1. /\ shell' = [shell EXCEPT ![p] = m] /\ runs < MaxRuns[driver] /\ runs' = runs + 1
      /\ UNCHANGED <<driver, row, table, issued, config, service, inApi, breakdowns, lost>>
      /\ Sensible(r) /\ ~ Working(p) /\ p = CHOOSE q \in Shells : ~ Working(q)
      /\ \A q \in Shells : CutsOver(q) => Working(q)
  BY DEF StartCommand
<1>2. /\ b \in {"refused", "config", "create", "check", "host"}
      /\ b = "config" => r.kind = "install" /\ config["agent"] # 0 /\ ~ r.rotate
      /\ b = "create" => r.kind = "token"
      /\ b = "check" => r.kind = "revoke"
      /\ b = "host" => r.kind \in {"install", "agent", "updater"}
  BY BeginsIs
<1>3. /\ r.kind \in {"install", "agent", "updater", "token", "revoke"}
      /\ r.rotate \in BOOLEAN /\ r.keepPrevious \in BOOLEAN /\ r.scope \in Scopes
      /\ r.keep \in {0} \cup CredIds
      /\ r.kind \in {"token", "revoke"} => ~ r.rotate
      /\ r.kind # "revoke" => (r.scope = "local-updater" <=> r.kind = "updater")
  BY DEF CommandLines
<1>4. /\ CredShape /\ shell \in [Shells -> ShellState] /\ config \in [Scopes -> Nat]
      /\ service \in [Scopes -> Nat] /\ issued \in Nat /\ runs \in Nat /\ MaxRuns[driver] \in Nat
      /\ driver \in Stores
  BY CredentialsAssumption DEF CredInv, CredShape, CredTypes
<1> HIDE DEF rot
<1>5. i \in Nat
  <2>1. r.keep \in Nat
    <3>1. \A c \in CredIds : c \in Nat
      BY IdsCount
    <3>2. r.keep = 0 \/ r.keep \in CredIds
      BY <1>3
    <3> QED
      BY <3>1, <3>2
  <2>2. config["agent"] \in Nat
    BY <1>4 DEF Scopes
  <2> QED
    BY <2>1, <2>2
<1>6. rot \in BOOLEAN
  BY Zenon DEF rot
<1>7. /\ b = "host" /\ r.kind = "install" => rot
      /\ b = "config" => ~ rot
      /\ r.kind \in {"token", "revoke"} => ~ rot
  <2>1. b = "host" /\ r.kind = "install" => rot
    BY DEF rot
  <2>2. b = "config" => ~ rot
    BY <1>2 DEF rot
  <2>3. r.kind \in {"token", "revoke"} => ~ rot
    BY <1>2, <1>3 DEF rot
  <2> QED
    BY <2>1, <2>2, <2>3
<1> HIDE DEF i, b
<1>8. b # "refused" =>
        /\ n \in ShellState /\ n.kind = r.kind /\ n.rotate = rot /\ n.keepPrevious = r.keepPrevious
        /\ n.scope = r.scope /\ n.step = b /\ n.id = i /\ n.read = NotRead
  BY <1>2, <1>3, <1>5, <1>6, ShellIsCommand DEF Shell, ShellState
<1> HIDE DEF n
<1>9. /\ m \in ShellState /\ m.read = NotRead /\ m.step \in {"idle", "config", "create", "check", "host"}
      /\ m.step = "idle" => m = Shell
      /\ m.step # "idle" => m = n /\ b # "refused"
  BY <1>2, <1>8, ShellIsCommand
<1>10. StepsFit(n) \/ b = "refused"
  <2> SUFFICES ASSUME b # "refused" PROVE StepsFit(n)
    OBVIOUS
  <2>1. n.step = "host" \/ n.step = "create" => n.id = 0
    BY <1>2, <1>8 DEF i
  <2>2. n.kind \in {"token", "revoke"} => ~ n.rotate
    BY <1>7, <1>8
  <2>3. n.kind = "install" /\ n.step \in {"host", "list", "create", "print", "check", "revoke"} => n.rotate
    BY <1>2, <1>7, <1>8
  <2> QED
    BY <1>2, <1>3, <1>8, <2>1, <2>2, <2>3 DEF StepsFit
<1>11. StepsFit(m)
  BY <1>10, ShellIsCommand
<1> HIDE DEF m
<1>12. /\ shell' \in [Shells -> ShellState] /\ shell'[p] = m
       /\ \A q \in Shells : q # p => shell'[q] = shell[q]
  BY <1>1, <1>4, <1>9
<1>13. CredTypes'
  BY <1>1, <1>4, <1>12 DEF CredInv, CredShape, CredTypes
<1>14. CredShape'
  <2>1. Unissued(table)' /\ Unissued(inApi)' /\ TodoFits(p)'
    BY <1>1, <1>4, <1>9, <1>12 DEF CredShape, Unissued, TodoFits, Reached
  <2>2. /\ issued <= issued' /\ (lost => lost')
        /\ \A c \in CredIds : table'[c].scope = table[c].scope
    BY <1>1, <1>4
  <2> QED
    BY <1>1, <1>4, <1>9, <1>11, <1>13, <2>1, <2>2, ShapeStep
<1>15. ~ raced' => ~ raced /\ \A q \in Shells \ {p} : ~ Working(q)
  BY Zenon DEF StartCommand
<1>16. ~ raced' => p = FirstShell
  <2> SUFFICES ASSUME ~ raced' PROVE p = FirstShell
    OBVIOUS
  <2>1. \A q \in Shells : ~ Working(q)
    BY <1>1, <1>15
  <2>2. (CHOOSE q \in Shells : ~ Working(q)) = (CHOOSE q \in Shells : TRUE)
    BY <2>1
  <2> QED
    BY <1>1, <2>2 DEF FirstShell
<1>17. ~ raced' => \A q \in Shells : q # p => shell'[q] = Shell
  BY <1>12, <1>15, <1>16 DEF CredInv, CredShape, StepsFit
<1>18. ~ raced' => /\ issued' <= runs'
                   /\ \A q \in Shells : /\ shell'[q].step # "idle" => q = FirstShell
                                        /\ shell'[q].step \in {"host", "list", "create"} => issued' < runs'
  <2> SUFFICES ASSUME ~ raced'
               PROVE  /\ issued' < runs'
                      /\ \A q \in Shells : shell'[q].step # "idle" => q = FirstShell
    BY <1>1, <1>4
  <2>1. issued <= runs
    BY <1>15 DEF CredInv
  <2>2. issued' = issued /\ runs' = runs + 1
    BY <1>1
  <2>3. issued' < runs'
    BY <1>4, <2>1, <2>2
  <2>4. \A q \in Shells : shell'[q].step # "idle" => q = FirstShell
    BY <1>16, <1>17, ShellIsCommand
  <2> QED
    BY <2>3, <2>4
<1>19. ASSUME Quiet' PROVE Holds(shell[p])' /\ ServedBy(shell[p])'
  <2>1. Quiet /\ \A q \in Shells : ~ Working(q)
    BY <1>1, <1>15, <1>19 DEF Quiet
  <2>2. PICK s : ServedBy(s) /\ ~ Cuts(s) /\ s.step # "restart"
    <3>1. ~ Cuts(Shell) /\ Shell.step # "restart"
      BY ShellIsCommand DEF Cuts
    <3>2. \A q \in Shells : ~ Cuts(shell[q]) /\ shell[q].step # "restart"
      BY <1>1, <2>1 DEF Cuts, CutsOver, Working
    <3> QED
      BY <2>1, <3>1, <3>2 DEF CredInv
  <2>3. LiveIn' = LiveIn
    BY <1>1, LiveSame
  <2>4. ServedBy(shell[p])'
    BY <1>1, <2>2, <2>3 DEF ServedBy
  <2>5. ~ Created(m) /\ ~ Finished(m)
    BY <1>2, <1>7, <1>8, <1>9 DEF Created, Finished
  <2>6. m.step = "config" => /\ m.id = config["agent"] /\ m.id # 0 /\ m.id <= issued
                             /\ breakdowns = 0 => m.id \in LiveIn["agent"]
    BY <1>2, <1>8, <1>9, <2>2 DEF ServedBy, i, Scopes
  <2>7. m.step = "check" /\ m.id \in LiveIn[m.scope] => m.id = service[m.scope]
    <3>1. m.step = "check" => m.kind = "revoke" /\ r.kind = "revoke" /\ m.id = r.keep /\ m.scope = r.scope
      BY <1>2, <1>8, <1>9 DEF i
    <3> QED
      BY <1>1, <1>3, <3>1 DEF Sensible, LiveIn
  <2>8. m.step = "check" => m.kind = "revoke"
    BY <1>2, <1>8, <1>9
  <2>9. m.step # "restart" /\ m.step # "revoke" /\ m.step # "print"
    BY <1>9
  <2>10. Holds(m)
    BY <1>9, <2>5, <2>6, <2>7, <2>8, <2>9 DEF Holds
  <2>11. Holds(shell[p])'
    BY <1>1, <1>12, <2>3, <2>10 DEF Holds, Created, Finished
  <2> QED
    BY <2>4, <2>11
<1>20. Quiet' => \A q \in Shells : Holds(shell[q])'
  <2>1. Quiet' => \A q \in Shells : q # p => Holds(shell[q])'
    BY <1>17, ShellIsCommand DEF Holds, Quiet, Created, Finished
  <2> QED
    BY <1>19, <2>1
<1> QED
  BY <1>14, <1>18, <1>19, <1>20 DEF CredInv

\* Every step of the commands, the operator and the API keeps the invariant.
LEMMA CredInvStep == CredInv /\ [CNext]_credvars => CredInv'
<1> SUFFICES ASSUME CredInv, [CNext]_credvars PROVE CredInv'
  OBVIOUS
<1>1. CASE CNext
  <2>1. CASE \E p \in Shells, r \in CommandLines : StartCommand(p, r)
    BY <2>1, StartCommandStep
  <2>2. CASE \E p \in Shells : EnsureLocalHost(p) \/ ListCredentials(p) \/ ReadFile(p) \/ CreateCredential(p)
    BY <2>2, EnsureLocalHostStep, ListCredentialsStep, ReadFileStep, CreateCredentialStep
  <2>3. CASE \E p \in Shells : PrintToken(p) \/ CheckKeep(p) \/ RevokeCredential(p) \/ AllRevoked(p)
    BY <2>3, PrintTokenStep, CheckKeepStep, RevokeCredentialStep, AllRevokedStep
  <2>4. CASE \E p \in Shells : InstallConfig(p) \/ RestartService(p) \/ InstallToken(p) \/ BreakDown(p)
    BY <2>4, InstallConfigStep, RestartServiceStep, InstallTokenStep, BreakDownStep
  <2>5. CASE ApiReads \/ ApiWrites
    BY <2>5, ApiSteps
  <2> QED
    BY <1>1, <2>1, <2>2, <2>3, <2>4, <2>5 DEF CNext
<1>2. CASE UNCHANGED credvars
  <2>1. /\ UNCHANGED <<driver, row, table, issued, config, service, shell, inApi, runs, breakdowns>>
        /\ raced' = raced /\ lost' = lost
    BY <1>2 DEF credvars
  <2>2. CredShape'
    BY <2>1 DEF CredInv, CredShape, CredTypes, StepsFit, Unissued, TodoFits, Reached
  <2>3. LiveIn' = LiveIn
    BY <2>1, LiveSame
  <2>4. Quiet => \A p \in Shells : Holds(shell[p])'
    BY <2>1, <2>3 DEF CredInv, Holds, Created, Finished
  <2>5. Quiet => ServedBy(Shell)' \/ \E p \in Shells : ServedBy(shell[p])'
    <3>1. ServedBy(Shell) => ServedBy(Shell)'
      BY <2>1, <2>3 DEF ServedBy, Cuts, Shell
    <3>2. \A p \in Shells : ServedBy(shell[p]) => ServedBy(shell[p])'
      BY <2>1, <2>3 DEF ServedBy, Cuts
    <3> QED
      BY <3>1, <3>2 DEF CredInv
  <2> QED
    BY <2>1, <2>2, <2>4, <2>5 DEF CredInv, Quiet
<1> QED
  BY <1>1, <1>2

\* The invariant implies what the run checks.
LEMMA CredInvServes == CredInv => CredentialsServe
<1> SUFFICES ASSUME CredInv PROVE CredentialsServe
  OBVIOUS
<1>1. /\ row \in {"absent", "local", "remote"} /\ table \in Tables
      /\ service \in [Scopes -> Nat]
  BY DEF CredInv, CredShape, CredTypes
<1>2. \A c \in CredIds : table[c] = NoCred \/ table[c] \in [scope : Scopes, status : {"active", "revoked"}]
  BY <1>1 DEF Tables, Cred
<1>3. ServicesAuthenticate
  <2> SUFFICES ASSUME ~ raced, ~ lost, breakdowns = 0
               PROVE  /\ service["agent"] # 0 => Live(service["agent"])
                      /\ service["local-updater"] # 0 =>
                           Live(service["local-updater"]) \/ \E p \in Shells : CutsOver(p)
    BY DEF ServicesAuthenticate
  <2>1. PICK s : ServedBy(s) /\ (s = Shell \/ \E p \in Shells : s = shell[p])
    BY DEF CredInv, Quiet
  <2>2. \A t \in Scopes : \A c \in LiveIn[t] : Live(c)
    BY DEF LiveIn, LiveOf
  <2>3. Cuts(s) => \E p \in Shells : CutsOver(p)
    BY <2>1, ShellIsCommand DEF Cuts, CutsOver
  <2> QED
    BY <2>1, <2>2, <2>3 DEF ServedBy, Scopes
<1>4. OneIsLeft
  <2> SUFFICES ASSUME ~ raced, ~ lost, NEW p \in Shells, Reached(p, "done"), shell[p].rotate,
                      ~ shell[p].keepPrevious, shell[p].kind # "agent"
               PROVE  LiveOf(shell[p].scope) = {shell[p].id}
    BY DEF OneIsLeft
  <2>1. /\ shell[p] \in ShellState /\ StepsFit(shell[p]) /\ Holds(shell[p])
        /\ shell[p].step = "done"
    BY DEF CredInv, CredShape, CredTypes, Quiet, Reached
  <2>2. shell[p].kind \in {"install", "updater"} /\ shell[p].scope \in Scopes
    BY <2>1, ShellIsCommand DEF ShellState, StepsFit
  <2>3. shell[p].id \in LiveIn[shell[p].scope] /\ LiveIn[shell[p].scope] \subseteq {shell[p].id}
    BY <2>1, <2>2 DEF Holds, Created, Finished
  <2> QED
    BY <2>2, <2>3 DEF LiveIn
<1> QED
  BY <1>1, <1>2, <1>3, <1>4 DEF CredentialsServe

\* The services of the API's host have live tokens, but for the updater's during
\* its cutover, and a rotation that went through leaves one credential of its
\* scope, unless commands ran at once, one broke down or a write was lost.
THEOREM CredentialsAlwaysServe == CSpec => []CredentialsServe
  BY CredInvInit, CredInvStep, CredInvServes, PTL DEF CSpec

\* A step that revokes is one of a command for that scope, which keeps another
\* that was issued; install.sh revokes only when the service has the new token.
THEOREM RevocationStaysScoped == CSpec => RevocationIsScoped
<1> DEFINE Scoped == \A c \in CredIds :
                       Live(c) /\ table'[c].status = "revoked" /\ ~ lost' =>
                         \E p \in Shells :
                           /\ Reached(p, "revoke") /\ shell[p].scope = table[c].scope
                           /\ shell[p].id # c /\ shell[p].id \in 1 .. issued
                           /\ shell[p].kind = "install" /\ ~ raced => service["agent"] = shell[p].id
<1>1. CredInv /\ [CNext]_credvars => [Scoped]_credvars
  <2> SUFFICES ASSUME CredInv, CNext, NEW c \in CredIds,
                      Live(c), table'[c].status = "revoked", ~ lost'
               PROVE  \E p \in Shells :
                        /\ Reached(p, "revoke") /\ shell[p].scope = table[c].scope
                        /\ shell[p].id # c /\ shell[p].id \in 1 .. issued
                        /\ shell[p].kind = "install" /\ ~ raced => service["agent"] = shell[p].id
    OBVIOUS
  <2>1. table' # table
    BY DEF Live
  <2>2. \/ \E p \in Shells : CreateCredential(p) \/ RevokeCredential(p)
        \/ ApiWrites
    BY <2>1 DEF CNext, StartCommand, EnsureLocalHost, ListCredentials, ReadFile, PrintToken, CheckKeep,
                AllRevoked, InstallConfig, RestartService, InstallToken, BreakDown, ApiReads
  <2>3. ~ ApiWrites
    <3> SUFFICES ASSUME ApiWrites PROVE FALSE
      OBVIOUS
    <3>1. ~ lost' => table = inApi
      BY Zenon DEF ApiWrites
    <3> QED
      BY <2>1, <3>1 DEF ApiWrites
  <2>4. ASSUME NEW p \in Shells, CreateCredential(p) PROVE FALSE
    <3>1. ~ lost' => Base(p) = table
      BY <2>4, Zenon DEF CreateCredential
    <3>2. table' = [table EXCEPT ![issued + 1] = [scope |-> shell[p].scope, status |-> "active"]]
      BY <2>4, <3>1 DEF CreateCredential
    <3> QED
      BY <3>2 DEF Live, CredInv, CredShape, CredTypes, Tables
  <2>5. ASSUME NEW p \in Shells, RevokeCredential(p)
        PROVE  /\ Reached(p, "revoke") /\ shell[p].scope = table[c].scope
               /\ shell[p].id # c /\ shell[p].id \in 1 .. issued
               /\ shell[p].kind = "install" /\ ~ raced => service["agent"] = shell[p].id
    <3>1. Reached(p, "revoke") /\ shell[p].step = "revoke"
      BY <2>5 DEF RevokeCredential, Reached
    <3>2. PICK k \in shell[p].todo :
            IF Base(p)[k] = NoCred
            THEN UNCHANGED <<table, lost>>
            ELSE /\ table' = [Base(p) EXCEPT ![k].status = "revoked"]
                 /\ lost' = (lost \/ Base(p) # table)
      BY <2>5 DEF RevokeCredential
    <3>3. Base(p)[k] # NoCred /\ table' = [Base(p) EXCEPT ![k].status = "revoked"]
      BY <2>1, <3>2
    <3>4. ~ lost /\ Base(p) = table
      <4>1. lost' = (lost \/ Base(p) # table)
        BY <3>2, <3>3
      <4> QED
        BY <4>1, Zenon
    <3>5. c = k
      BY <3>3, <3>4 DEF Live, CredInv, CredShape, CredTypes, Tables
    <3>6. shell[p].scope = table[c].scope /\ shell[p].id # c /\ shell[p].id \in 1 .. issued
      BY <3>1, <3>4, <3>5 DEF CredInv, CredShape, TodoFits
    <3>7. shell[p].kind = "install" /\ ~ raced => service["agent"] = shell[p].id
      BY <3>1, <3>4 DEF CredInv, Quiet, Holds
    <3> QED
      BY <3>1, <3>6, <3>7
  <2> QED
    BY <2>2, <2>3, <2>4, <2>5
<1> QED
  BY <1>1, CredInvInit, CredInvStep, PTL DEF CSpec, RevocationIsScoped

-----------------------------------------------------------------------------
(* DockerStatePair *)

\* A script that has looked at the files and not ended.
Past(s) == scripts[s].at \notin {"none", "look", "ready"}
\* A script that runs as root, by login or through sudo.
Privileged == login = "root" \/ sudo

\* The scripts that may still read the identity, and those that may do so twice.
MayRead == { s \in Scripts : scripts[s].at \in {"look", "read"} \/ scripts[s].gives }
ReadsTwice == { s \in Scripts :
                  scripts[s].at = "look" \/ (scripts[s].at = "read" /\ scripts[s].gives) }

\* A script generates a key at most at each of its two reads.
PairCounts ==
  /\ IsFiniteSet(MayRead)
  /\ generated + Cardinality(ReadsTwice) + Cardinality(MayRead) <= 2 * launched

\* What a script is while it runs, whatever happens to the files.
ScriptsFit ==
  \A s \in Scripts :
    /\ scripts[s].at \in {"identity", "keys"} => scripts[s].key # 0
    /\ scripts[s].at \in {"own", "hand"} => scripts[s].gives
    /\ scripts[s].gives => scripts[s].as = "root" /\ Past(s)
    /\ Past(s) /\ ~ scripts[s].gives => scripts[s].expect = login
    /\ Past(s) /\ scripts[s].as = "user" => login = "user"

\* Scripts that run at the same time have the same privilege, and an identity of
\* root is handed over only when the keys match it.
FilesFit ==
  ~ disturbed =>
    /\ There(runtimeKeys) => There(identity)
    /\ Split => Matched
    /\ \A s \in Scripts :
         /\ Past(s) => (scripts[s].as = "root" <=> Privileged)
         /\ scripts[s].at \in {"keys", "check", "own", "hand"} => There(identity)
         /\ Past(s) /\ scripts[s].as = "user" =>
              /\ There(identity) => identity.owner = "user"
              /\ There(runtimeKeys) => runtimeKeys.owner = "user"
         /\ scripts[s].at \in {"own", "hand"} => Matched /\ identity.owner = "root"

\* The invariant.
PairInv == PairTypeOK /\ PairCounts /\ ScriptsFit /\ FilesFit

\* The states a script is in before, after and as it is launched.
LEMMA ScriptStates ==
  /\ 0 \in Keys
  /\ NotRunning \in Script /\ NotRunning.at = "none" /\ NotRunning.gives = FALSE
  /\ Provisioned \in Script /\ Provisioned.at = "ready" /\ Provisioned.gives = FALSE
  /\ [NotRunning EXCEPT !.at = "look"] \in Script
<1>1. 0 \in Keys
  BY PairAssumption DEF Keys
<1>2. NotRunning \in Script
  BY <1>1 DEF NotRunning, Script, Users
<1>3. [NotRunning EXCEPT !.at = "look"] \in Script
  BY <1>2 DEF Script
<1>4. Provisioned \in Script
  BY <1>2 DEF Script, Provisioned
<1> QED
  BY <1>1, <1>2, <1>3, <1>4 DEF NotRunning, Provisioned

\* The scripts that may read are scripts.
LEMMA ReadsAreScripts ==
  ASSUME NEW a \in Users, NEW e \in Users, NEW g \in BOOLEAN
  PROVE  [at |-> "read", as |-> a, expect |-> e, key |-> 0, gives |-> g] \in Script
BY ScriptStates DEF Script

\* Nothing runs at first, and there are no files.
LEMMA PairInvInit == PairInit => PairInv
<1> SUFFICES ASSUME PairInit PROVE PairInv
  OBVIOUS
<1>1. PairTypeOK
  <2>1. scripts \in [Scripts -> Script]
    BY ScriptStates DEF PairInit
  <2>2. NoFileYet \in [key : Keys, owner : Users]
    BY ScriptStates DEF NoFileYet, Users
  <2> QED
    <3>1. /\ {identity, runtimeKeys} \subseteq [key : Keys, owner : Users]
          /\ generated \in Keys /\ launched \in 0 .. MaxScripts /\ events \in 0 .. MaxEvents
      BY <2>2, ScriptStates, PairAssumption DEF PairInit
    <3>2. login \in Users /\ sudo \in BOOLEAN /\ disturbed \in BOOLEAN
      BY Zenon DEF PairInit
    <3> QED
      BY <2>1, <3>1, <3>2 DEF PairTypeOK
<1>2. MayRead = {} /\ ReadsTwice = {}
  BY DEF PairInit, MayRead, ReadsTwice, NotRunning
<1>3. PairCounts
  BY <1>2, FS_EmptySet DEF PairInit, PairCounts
<1>4. ScriptsFit
  BY DEF PairInit, ScriptsFit, NotRunning, Past
<1>5. FilesFit
  BY DEF PairInit, FilesFit, Split, There, NoFileYet, NotRunning, Past
<1> QED
  BY <1>1, <1>3, <1>4, <1>5 DEF PairInv

\* Scripts that end or go on never read more often than they might have; one that
\* generates a key has read.
LEMMA PairCountsStep ==
  ASSUME PairTypeOK, PairCounts, MayRead' \subseteq MayRead, ReadsTwice' \subseteq ReadsTwice,
         launched' = launched,
         \/ generated' = generated
         \/ /\ generated' = generated + 1
            /\ \E s \in Scripts : s \in MayRead \ MayRead' \/ s \in ReadsTwice \ ReadsTwice'
  PROVE  PairCounts'
<1>1. IsFiniteSet(MayRead) /\ IsFiniteSet(MayRead') /\ IsFiniteSet(ReadsTwice) /\ IsFiniteSet(ReadsTwice')
  BY FS_Subset DEF PairCounts, MayRead, ReadsTwice
<1>2. /\ Cardinality(MayRead) \in Nat /\ Cardinality(MayRead') \in Nat
      /\ Cardinality(ReadsTwice) \in Nat /\ Cardinality(ReadsTwice') \in Nat
  BY <1>1, FS_CardinalityType
<1>3. Cardinality(MayRead') <= Cardinality(MayRead) /\ Cardinality(ReadsTwice') <= Cardinality(ReadsTwice)
  BY <1>1, FS_Subset
<1>4. /\ MayRead' # MayRead => Cardinality(MayRead') # Cardinality(MayRead)
      /\ ReadsTwice' # ReadsTwice => Cardinality(ReadsTwice') # Cardinality(ReadsTwice)
  BY <1>1, FS_Subset
<1>5. generated \in Nat /\ launched \in Nat
  BY PairAssumption DEF PairTypeOK, Keys
<1>6. CASE generated' = generated
  BY <1>1, <1>2, <1>3, <1>5, <1>6 DEF PairCounts
<1>7. CASE generated' = generated + 1 /\ MayRead' # MayRead
  BY <1>1, <1>2, <1>3, <1>4, <1>5, <1>7 DEF PairCounts
<1>8. CASE generated' = generated + 1 /\ ReadsTwice' # ReadsTwice
  BY <1>1, <1>2, <1>3, <1>4, <1>5, <1>8 DEF PairCounts
<1> QED
  BY <1>6, <1>7, <1>8

\* A script that goes on from one step to another, or ends.
LEMMA ScriptMoves ==
  ASSUME PairTypeOK, NEW s \in Scripts, NEW r, scripts' = [scripts EXCEPT ![s] = r],
         r.at \in {"look", "read"} \/ r.gives => s \in MayRead,
         r.at = "look" \/ (r.at = "read" /\ r.gives) => s \in ReadsTwice
  PROVE  /\ scripts'[s] = r /\ \A q \in Scripts : q # s => scripts'[q] = scripts[q]
         /\ MayRead' \subseteq MayRead /\ ReadsTwice' \subseteq ReadsTwice
         /\ s \in MayRead' => r.at \in {"look", "read"} \/ r.gives
         /\ s \in ReadsTwice' => r.at = "look" \/ (r.at = "read" /\ r.gives)
<1>1. scripts'[s] = r /\ \A q \in Scripts : q # s => scripts'[q] = scripts[q]
  BY DEF PairTypeOK
<1> QED
  BY <1>1 DEF MayRead, ReadsTwice

\* A script that ends, or is refused.
LEMMA ScriptEnds ==
  ASSUME PairInv, NEW s \in Scripts, NEW r \in {NotRunning, Provisioned},
         scripts' = [scripts EXCEPT ![s] = r],
         UNCHANGED <<login, sudo, identity, runtimeKeys, generated, launched, disturbed>>,
         events' \in 0 .. MaxEvents
  PROVE  PairInv'
<1> USE DEF PairInv
<1>1. /\ r \in Script /\ r.at \in {"none", "ready"} /\ ~ r.gives
  BY ScriptStates
<1>2. /\ scripts'[s] = r /\ \A q \in Scripts : q # s => scripts'[q] = scripts[q]
      /\ MayRead' \subseteq MayRead /\ ReadsTwice' \subseteq ReadsTwice
  BY <1>1, ScriptMoves
<1>3. PairTypeOK'
  BY <1>1 DEF PairTypeOK
<1>4. PairCounts'
  BY <1>2, PairCountsStep
<1>5. ScriptsFit'
  BY <1>1, <1>2 DEF ScriptsFit, Past
<1>6. FilesFit'
  BY <1>1, <1>2 DEF FilesFit, Past, Split, There, Matched, Privileged
<1> QED
  BY <1>3, <1>4, <1>5, <1>6

\* A script that is launched.
LEMMA LaunchScriptStep == ASSUME PairInv, LaunchScript PROVE PairInv'
<1> USE DEF PairInv
<1>1. PICK s \in Scripts : /\ scripts[s].at \in {"none", "ready"}
                           /\ scripts' = [scripts EXCEPT ![s] = [NotRunning EXCEPT !.at = "look"]]
  BY DEF LaunchScript
<1> DEFINE r == [NotRunning EXCEPT !.at = "look"]
<1>2. r \in Script /\ r.at = "look" /\ ~ r.gives
  BY ScriptStates DEF NotRunning
<1>3. scripts' = [scripts EXCEPT ![s] = r]
  BY <1>1
<1> HIDE DEF r
<1>4. scripts'[s] = r /\ \A q \in Scripts : q # s => scripts'[q] = scripts[q]
  BY <1>3 DEF PairTypeOK
<1>5. /\ UNCHANGED <<login, sudo, identity, runtimeKeys, generated, events, disturbed>>
      /\ launched < MaxScripts /\ launched' = launched + 1
  BY DEF LaunchScript, Files
<1>6. PairTypeOK'
  BY <1>2, <1>3, <1>5, PairAssumption DEF PairTypeOK
<1>7. PairCounts'
  <2>1. MayRead' = MayRead \cup {s} /\ ReadsTwice' = ReadsTwice \cup {s}
    BY <1>2, <1>4 DEF MayRead, ReadsTwice
  <2>2. IsFiniteSet(MayRead) /\ IsFiniteSet(ReadsTwice)
    BY FS_Subset DEF PairCounts, MayRead, ReadsTwice
  <2>3. Cardinality(MayRead) \in Nat /\ Cardinality(ReadsTwice) \in Nat
    BY <2>2, FS_CardinalityType
  <2>4. /\ IsFiniteSet(MayRead') /\ Cardinality(MayRead') \in {Cardinality(MayRead), Cardinality(MayRead) + 1}
        /\ Cardinality(ReadsTwice') \in {Cardinality(ReadsTwice), Cardinality(ReadsTwice) + 1}
    BY <2>1, <2>2, FS_AddElement
  <2>5. generated \in Nat /\ launched \in Nat
    BY PairAssumption DEF PairTypeOK, Keys
  <2> QED
    BY <1>5, <2>3, <2>4, <2>5 DEF PairCounts
<1>8. ScriptsFit'
  BY <1>2, <1>4, <1>5 DEF ScriptsFit, Past
<1>9. FilesFit'
  BY <1>2, <1>4, <1>5 DEF FilesFit, Past, Split, There, Matched, Privileged
<1> QED
  BY <1>6, <1>7, <1>8, <1>9

\* What a script that takes a step was, and is if it is not refused.
LEMMA TurnIs ==
  ASSUME PairInv, NEW s \in Scripts, NEW step, NEW next, Turn(s, step, next)
  PROVE  /\ scripts[s].at = step /\ scripts[s] \in Script
         /\ ~ MayAct(s) => scripts' = [scripts EXCEPT ![s] = NotRunning]
         /\ MayAct(s) => scripts' = [scripts EXCEPT ![s] = next]
BY DEF PairInv, PairTypeOK, Turn, MayAct

\* A script looks at its privilege and at the files.
LEMMA LookAtPairStep == ASSUME PairInv, NEW s \in Scripts, LookAtPair(s) PROVE PairInv'
<1> USE DEF PairInv
<1> DEFINE r == IF login = "root" \/ sudo THEN AsRoot ELSE AsUser
<1>1. /\ scripts[s].at = "look" /\ scripts[s] \in Script
      /\ ~ MayAct(s) => scripts' = [scripts EXCEPT ![s] = NotRunning]
      /\ MayAct(s) => scripts' = [scripts EXCEPT ![s] = r]
  BY TurnIs DEF LookAtPair
<1>2. UNCHANGED <<login, sudo, identity, runtimeKeys, generated, launched, events, disturbed>>
  BY DEF LookAtPair, Files, Aside
<1>3. CASE ~ MayAct(s) \/ r \in {NotRunning, Provisioned}
  BY <1>1, <1>2, <1>3, ScriptEnds DEF PairTypeOK
<1>4. CASE MayAct(s) /\ r \notin {NotRunning, Provisioned}
  <2>1. /\ identity.owner \in Users /\ runtimeKeys.owner \in Users /\ login \in Users
    BY DEF PairTypeOK
  <2>2. CASE Privileged
    <3>1. r = AsRoot /\ AsRoot # NotRunning
      BY <1>4, <2>2 DEF Privileged
    <3>2. PICK e \in Users :
            r = [at |-> "read", as |-> "root", expect |-> e, key |-> 0, gives |-> TRUE]
      BY <2>1, <3>1 DEF AsRoot, Users
    <3> HIDE DEF r
    <3>b. r \in Script
      <4>1. "root" \in Users /\ TRUE \in BOOLEAN
        BY DEF Users
      <4> QED
        BY <3>2, <4>1, ReadsAreScripts
    <3>a. /\ r \in Script /\ r.at = "read" /\ r.gives /\ r.as = "root"
      BY <3>2, <3>b
    <3>3. s \in ReadsTwice /\ s \in MayRead
      BY <1>1 DEF ReadsTwice, MayRead
    <3>4. /\ scripts'[s] = r /\ \A q \in Scripts : q # s => scripts'[q] = scripts[q]
          /\ MayRead' \subseteq MayRead /\ ReadsTwice' \subseteq ReadsTwice
      BY <1>1, <1>4, <3>3, <3>a, ScriptMoves
    <3>5. PairTypeOK'
      BY <1>1, <1>2, <1>4, <3>a DEF PairTypeOK
    <3>6. PairCounts'
      BY <1>2, <3>4, PairCountsStep
    <3>7. ScriptsFit'
      BY <1>2, <3>a, <3>4 DEF ScriptsFit, Past
    <3>8. FilesFit'
      BY <1>2, <2>2, <3>a, <3>4 DEF FilesFit, Past, Split, There, Matched, Privileged
    <3> QED
      BY <3>5, <3>6, <3>7, <3>8
  <2>3. CASE ~ Privileged
    <3>1. r = AsUser
      BY <2>3 DEF Privileged
    <3>2. /\ r = [at |-> "read", as |-> "user", expect |-> "user", key |-> 0, gives |-> FALSE]
          /\ There(identity) => identity.owner = "user"
          /\ There(runtimeKeys) => runtimeKeys.owner = "user"
      BY <1>4, <3>1 DEF AsUser
    <3> HIDE DEF r
    <3>b. r \in Script
      <4>1. "user" \in Users /\ FALSE \in BOOLEAN
        BY DEF Users
      <4> QED
        BY <3>2, <4>1, ReadsAreScripts
    <3>3. /\ r \in Script /\ r.at = "read" /\ ~ r.gives /\ r.as = "user" /\ r.expect = "user"
      BY <3>2, <3>b
    <3>4. s \in ReadsTwice /\ s \in MayRead
      BY <1>1 DEF ReadsTwice, MayRead
    <3>5. /\ scripts'[s] = r /\ \A q \in Scripts : q # s => scripts'[q] = scripts[q]
          /\ MayRead' \subseteq MayRead /\ ReadsTwice' \subseteq ReadsTwice
      BY <1>1, <1>4, <3>4, ScriptMoves
    <3>6. PairTypeOK'
      BY <1>1, <1>2, <1>4, <3>3 DEF PairTypeOK
    <3>7. PairCounts'
      BY <1>2, <3>5, PairCountsStep
    <3>8. login = "user"
      BY <2>1, <2>3 DEF Privileged, Users
    <3>9. ScriptsFit'
      BY <1>2, <3>3, <3>5, <3>8 DEF ScriptsFit, Past
    <3>10. FilesFit'
      BY <1>2, <2>3, <3>2, <3>3, <3>5 DEF FilesFit, Past, Split, There, Matched, Privileged
    <3> QED
      BY <3>6, <3>7, <3>9, <3>10
  <2> QED
    BY <2>2, <2>3
<1> QED
  BY <1>3, <1>4

\* A script reads the identity, or generates one.
LEMMA ReadIdentityStep == ASSUME PairInv, NEW s \in Scripts, ReadIdentity(s) PROVE PairInv'
<1> USE DEF PairInv
<1> DEFINE new == MayAct(s) /\ Owned(s) /\ ~ There(identity)
           k == IF new THEN generated + 1 ELSE identity.key
           r == [Moved(s, "identity") EXCEPT !.key = k]
<1>1. /\ scripts[s].at = "read" /\ scripts[s] \in Script
      /\ ~ MayAct(s) => scripts' = [scripts EXCEPT ![s] = NotRunning]
      /\ MayAct(s) => scripts' = [scripts EXCEPT ![s] = IF Owned(s) THEN r ELSE NotRunning]
  BY TurnIs DEF ReadIdentity
<1>2. /\ UNCHANGED <<login, sudo, identity, runtimeKeys, launched, events, disturbed>>
      /\ generated' = IF new THEN generated + 1 ELSE generated
  BY DEF ReadIdentity, Files, Aside
<1>3. CASE ~ MayAct(s) \/ ~ Owned(s)
  BY <1>1, <1>2, <1>3, ScriptEnds DEF PairTypeOK
<1>4. CASE MayAct(s) /\ Owned(s)
  <2>1. /\ generated \in Nat /\ launched \in Nat /\ launched <= MaxScripts /\ MaxScripts \in Nat
        /\ identity.key \in Keys
    BY PairAssumption DEF PairTypeOK, Keys
  <2>2. s \in MayRead /\ (scripts[s].gives => s \in ReadsTwice)
    BY <1>1 DEF MayRead, ReadsTwice
  <2>3. generated + 1 <= 2 * launched
    <3>1. IsFiniteSet(MayRead) /\ IsFiniteSet(ReadsTwice)
      BY FS_Subset DEF PairCounts, MayRead, ReadsTwice
    <3>2. /\ Cardinality(MayRead) \in Nat /\ Cardinality(ReadsTwice) \in Nat
          /\ Cardinality(MayRead) # 0
      BY <2>2, <3>1, FS_CardinalityType, FS_EmptySet
    <3> QED
      BY <2>1, <3>2 DEF PairCounts
  <2>4. k \in Keys /\ k # 0 /\ generated' \in Keys
    <3>1. generated + 1 \in Keys
      BY <2>1, <2>3 DEF Keys
    <3>2. CASE There(identity)
      BY <1>2, <2>1, <3>2 DEF PairTypeOK, There
    <3>3. CASE ~ There(identity)
      BY <1>2, <1>4, <2>1, <3>1, <3>3
    <3> QED
      BY <3>2, <3>3
  <2>5. /\ r \in Script /\ r.at = "identity" /\ r.key = k /\ r.as = scripts[s].as
        /\ r.gives = scripts[s].gives /\ r.expect = scripts[s].expect
    BY <1>1, <2>4 DEF Moved, Script
  <2>6. generated' = generated \/ generated' = generated + 1
    BY <1>2
  <2>7. scripts' = [scripts EXCEPT ![s] = r]
    BY <1>1, <1>4
  <2> HIDE DEF r, k, new
  <2>8. /\ scripts'[s] = r /\ \A q \in Scripts : q # s => scripts'[q] = scripts[q]
        /\ MayRead' \subseteq MayRead /\ ReadsTwice' \subseteq ReadsTwice
        /\ s \in MayRead' => r.gives /\ s \notin ReadsTwice'
    BY <2>2, <2>5, <2>7, ScriptMoves
  <2>9. PairTypeOK'
    BY <1>1, <1>2, <2>4, <2>5, <2>7 DEF PairTypeOK
  <2>10. s \notin ReadsTwice'
    BY <2>5, <2>8 DEF ReadsTwice
  <2>11. s \in MayRead \ MayRead' \/ s \in ReadsTwice \ ReadsTwice'
    BY <2>2, <2>5, <2>8, <2>10
  <2>12. PairCounts'
    BY <1>2, <2>6, <2>8, <2>11, PairCountsStep
  <2>13. ScriptsFit'
    BY <1>1, <1>2, <2>4, <2>5, <2>8 DEF ScriptsFit, Past
  <2>14. FilesFit'
    BY <1>1, <1>2, <2>5, <2>8 DEF FilesFit, Past, Split, There, Matched, Privileged
  <2> QED
    BY <2>9, <2>12, <2>13, <2>14
<1> QED
  BY <1>3, <1>4

\* A script that goes on from where it stands, after its reads.
LEMMA ScriptGoesOn ==
  ASSUME PairInv, NEW s \in Scripts, NEW next, scripts[s].at \notin {"none", "ready"},
         scripts' = [scripts EXCEPT ![s] = Moved(s, next)],
         next \in {"keys", "check", "own", "hand"},
         UNCHANGED <<login, sudo, generated, launched, events, disturbed>>,
         {identity', runtimeKeys'} \subseteq [key : Keys, owner : Users]
  PROVE  /\ scripts'[s] \in Script /\ scripts'[s].at = next
         /\ scripts'[s].as = scripts[s].as /\ scripts'[s].key = scripts[s].key
         /\ scripts'[s].gives = scripts[s].gives /\ scripts'[s].expect = scripts[s].expect
         /\ \A q \in Scripts : q # s => scripts'[q] = scripts[q]
         /\ PairTypeOK' /\ PairCounts'
<1> USE DEF PairInv
<1> DEFINE r == Moved(s, next)
<1>1. scripts[s] \in Script
  BY DEF PairTypeOK
<1>2. /\ r \in Script /\ r.at = next /\ r.as = scripts[s].as /\ r.key = scripts[s].key
      /\ r.gives = scripts[s].gives /\ r.expect = scripts[s].expect
  BY <1>1 DEF Moved, Script
<1>3. scripts' = [scripts EXCEPT ![s] = r]
  OBVIOUS
<1> HIDE DEF r
<1>4. /\ r.at \in {"look", "read"} \/ r.gives => s \in MayRead
      /\ r.at = "look" \/ (r.at = "read" /\ r.gives) => s \in ReadsTwice
  <2>1. r.at # "look" /\ r.at # "read"
    BY <1>2
  <2>2. r.gives => s \in MayRead
    BY <1>2 DEF MayRead
  <2> QED
    BY <2>1, <2>2
<1>5. /\ scripts'[s] = r /\ \A q \in Scripts : q # s => scripts'[q] = scripts[q]
      /\ MayRead' \subseteq MayRead /\ ReadsTwice' \subseteq ReadsTwice
  <2>1. PairTypeOK
    OBVIOUS
  <2> QED
    BY <2>1, <1>3, <1>4, ScriptMoves
<1>6. PairTypeOK'
  BY <1>2, <1>3 DEF PairTypeOK
<1>7. PairCounts'
  BY <1>5, PairCountsStep
<1> QED
  BY <1>2, <1>5, <1>6, <1>7

\* A file that is published is there.
LEMMA PublishedIs ==
  ASSUME PairInv, NEW s \in Scripts, NEW file \in [key : Keys, owner : Users],
         scripts[s].at \in {"identity", "keys"}
  PROVE  /\ Published(file, s) \in [key : Keys, owner : Users] /\ There(Published(file, s))
         /\ There(file) => Published(file, s) = file
         /\ ~ There(file) => Published(file, s).owner = scripts[s].as
BY DEF PairInv, PairTypeOK, ScriptsFit, Published, There, Script

\* A script publishes the identity it has read or generated.
LEMMA PublishIdentityStep == ASSUME PairInv, NEW s \in Scripts, PublishIdentity(s) PROVE PairInv'
<1> USE DEF PairInv
<1>1. /\ scripts[s].at = "identity" /\ scripts[s] \in Script
      /\ ~ MayAct(s) => scripts' = [scripts EXCEPT ![s] = NotRunning]
      /\ MayAct(s) => scripts' = [scripts EXCEPT ![s] = Moved(s, "keys")]
  BY TurnIs DEF PublishIdentity
<1>2. /\ UNCHANGED <<login, sudo, runtimeKeys, generated, launched, events, disturbed>>
      /\ identity' = IF MayAct(s) THEN Published(identity, s) ELSE identity
  BY DEF PublishIdentity, Aside
<1>3. CASE ~ MayAct(s)
  BY <1>1, <1>2, <1>3, ScriptEnds DEF PairTypeOK
<1>4. CASE MayAct(s)
  <2>1. /\ identity' \in [key : Keys, owner : Users] /\ There(identity)'
        /\ There(identity) => identity' = identity
        /\ ~ There(identity) => identity'.owner = scripts[s].as
    BY <1>1, <1>2, <1>4, PublishedIs DEF PairTypeOK, There
  <2>2. /\ scripts'[s].at = "keys" /\ scripts'[s].key = scripts[s].key
        /\ scripts'[s].as = scripts[s].as
        /\ scripts'[s].gives = scripts[s].gives /\ scripts'[s].expect = scripts[s].expect
        /\ \A q \in Scripts : q # s => scripts'[q] = scripts[q]
        /\ PairTypeOK' /\ PairCounts'
    BY <1>1, <1>2, <1>4, <2>1, ScriptGoesOn DEF PairTypeOK
  <2>3. ScriptsFit'
    BY <1>1, <1>2, <2>2 DEF ScriptsFit, Past
  <2>4. FilesFit'
    <3>1. CASE There(identity)
      BY <1>1, <1>2, <2>1, <2>2, <3>1 DEF FilesFit, Past, Split, There, Matched, Privileged
    <3>2. CASE ~ There(identity)
      <4> SUFFICES ASSUME ~ disturbed PROVE FilesFit'
        BY <1>2 DEF FilesFit
      <4>1. ~ There(runtimeKeys) /\ ~ There(runtimeKeys)'
        BY <1>2, <3>2 DEF FilesFit, There
      <4>2. \A q \in Scripts : Past(q)' /\ scripts'[q].as = "user" => identity'.owner = "user"
        <5>1. scripts[s].as \in Users /\ Past(s) /\ (Past(s) => (scripts[s].as = "root" <=> Privileged))
          BY <1>1 DEF Script, Past, FilesFit
        <5>2. \A q \in Scripts : Past(q)' => Past(q) /\ scripts'[q].as = scripts[q].as
          BY <1>1, <2>2 DEF Past
        <5> QED
          BY <2>1, <3>2, <5>1, <5>2 DEF FilesFit, Users
      <4>3. \A q \in Scripts : scripts[q].at \notin {"keys", "check", "own", "hand"}
        BY <3>2 DEF FilesFit
      <4>4. \A q \in Scripts : Past(q)' => (scripts'[q].as = "root" <=> Privileged')
        BY <1>1, <1>2, <2>2 DEF FilesFit, Past, Privileged
      <4> QED
        BY <1>2, <2>1, <2>2, <4>1, <4>2, <4>3, <4>4 DEF FilesFit, Split, There
    <3> QED
      BY <3>1, <3>2
  <2> QED
    BY <2>2, <2>3, <2>4
<1> QED
  BY <1>3, <1>4

\* A script publishes the runtime keys of the identity.
LEMMA PublishKeysStep == ASSUME PairInv, NEW s \in Scripts, PublishKeys(s) PROVE PairInv'
<1> USE DEF PairInv
<1>1. /\ scripts[s].at = "keys" /\ scripts[s] \in Script
      /\ ~ MayAct(s) => scripts' = [scripts EXCEPT ![s] = NotRunning]
      /\ MayAct(s) => scripts' = [scripts EXCEPT ![s] = Moved(s, "check")]
  BY TurnIs DEF PublishKeys
<1>2. /\ UNCHANGED <<login, sudo, identity, generated, launched, events, disturbed>>
      /\ runtimeKeys' = IF MayAct(s) THEN Published(runtimeKeys, s) ELSE runtimeKeys
  BY DEF PublishKeys, Aside
<1>3. CASE ~ MayAct(s)
  BY <1>1, <1>2, <1>3, ScriptEnds DEF PairTypeOK
<1>4. CASE MayAct(s)
  <2>1. /\ runtimeKeys' \in [key : Keys, owner : Users]
        /\ There(runtimeKeys) => runtimeKeys' = runtimeKeys
        /\ ~ There(runtimeKeys) => runtimeKeys'.owner = scripts[s].as
    BY <1>1, <1>2, <1>4, PublishedIs DEF PairTypeOK
  <2>2. /\ scripts'[s].at = "check" /\ scripts'[s].key = scripts[s].key
        /\ scripts'[s].as = scripts[s].as
        /\ scripts'[s].gives = scripts[s].gives /\ scripts'[s].expect = scripts[s].expect
        /\ \A q \in Scripts : q # s => scripts'[q] = scripts[q]
        /\ PairTypeOK' /\ PairCounts'
    BY <1>1, <1>2, <1>4, <2>1, ScriptGoesOn DEF PairTypeOK
  <2>3. ScriptsFit'
    BY <1>1, <1>2, <2>2 DEF ScriptsFit, Past
  <2>4. FilesFit'
    <3>1. CASE There(runtimeKeys)
      BY <1>1, <1>2, <2>1, <2>2, <3>1 DEF FilesFit, Past, Split, There, Matched, Privileged
    <3>2. CASE ~ There(runtimeKeys)
      <4> SUFFICES ASSUME ~ disturbed PROVE FilesFit'
        BY <1>2 DEF FilesFit
      <4>1. There(identity) /\ There(identity)'
        BY <1>1, <1>2 DEF FilesFit, There
      <4>2. scripts[s].as \in Users /\ Past(s)
        BY <1>1 DEF Script, Past
      <4>3. \A q \in Scripts : Past(q)' => Past(q) /\ scripts'[q].as = scripts[q].as
        BY <1>1, <2>2 DEF Past
      <4>4. \A q \in Scripts : scripts[q].at \notin {"own", "hand"}
        BY <3>2, <4>1 DEF FilesFit, Matched, There
      <4>5. ~ Split'
        <5>1. CASE scripts[s].as = "root"
          BY <1>2, <2>1, <3>2, <5>1 DEF Split
        <5>2. CASE scripts[s].as = "user"
          BY <1>2, <4>1, <4>2, <5>2 DEF FilesFit, Split
        <5> QED
          BY <4>2, <5>1, <5>2 DEF Users
      <4>6. \A q \in Scripts : Past(q)' /\ scripts'[q].as = "user" =>
                                 identity'.owner = "user" /\ runtimeKeys'.owner = "user"
        BY <1>2, <2>1, <3>2, <4>1, <4>2, <4>3 DEF FilesFit, Users
      <4>7. \A q \in Scripts : Past(q)' => (scripts'[q].as = "root" <=> Privileged')
        BY <1>2, <4>3 DEF FilesFit, Privileged
      <4> QED
        BY <2>2, <4>1, <4>4, <4>5, <4>6, <4>7 DEF FilesFit
    <3> QED
      BY <3>1, <3>2
  <2> QED
    BY <2>2, <2>3, <2>4
<1> QED
  BY <1>3, <1>4

\* A script compares the keys with the identity.
LEMMA CheckPairStep == ASSUME PairInv, NEW s \in Scripts, CheckPair(s) PROVE PairInv'
<1> USE DEF PairInv
<1>1. /\ scripts[s].at = "check" /\ scripts[s] \in Script
      /\ ~ MayAct(s) => scripts' = [scripts EXCEPT ![s] = NotRunning]
      /\ MayAct(s) => scripts' = [ scripts EXCEPT ![s] =
                                     IF ~ (Matched /\ Owned(s)) THEN NotRunning
                                     ELSE IF scripts[s].gives THEN Moved(s, "own") ELSE Provisioned ]
  BY TurnIs DEF CheckPair
<1>2. UNCHANGED <<login, sudo, identity, runtimeKeys, generated, launched, events, disturbed>>
  BY DEF CheckPair, Files, Aside
<1>3. CASE ~ (MayAct(s) /\ Matched /\ Owned(s) /\ scripts[s].gives)
  <2>1. \/ scripts' = [scripts EXCEPT ![s] = NotRunning]
        \/ scripts' = [scripts EXCEPT ![s] = Provisioned]
    BY <1>1, <1>3
  <2> QED
    BY <1>1, <1>2, <2>1, ScriptEnds DEF PairTypeOK
<1>4. CASE MayAct(s) /\ Matched /\ Owned(s) /\ scripts[s].gives
  <2>1. /\ scripts'[s].at = "own" /\ scripts'[s].key = scripts[s].key
        /\ scripts'[s].as = scripts[s].as
        /\ scripts'[s].gives = scripts[s].gives /\ scripts'[s].expect = scripts[s].expect
        /\ \A q \in Scripts : q # s => scripts'[q] = scripts[q]
        /\ PairTypeOK' /\ PairCounts'
    BY <1>1, <1>2, <1>4, ScriptGoesOn DEF PairTypeOK
  <2>2. ScriptsFit'
    <3>1. scripts[s].at = "check" /\ scripts[s].gives /\ login' = login
      BY <1>1, <1>2, <1>4
    <3>2. ScriptsFit
      OBVIOUS
    <3> HIDE DEF PairInv
    <3> QED
      BY <2>1, <3>1, <3>2 DEF ScriptsFit, Past
  <2>3. There(identity) /\ identity.owner = "root" /\ scripts[s].as = "root"
    BY <1>4 DEF Matched, Owned, ScriptsFit
  <2>4. FilesFit'
    BY <1>1, <1>2, <1>4, <2>1, <2>3 DEF FilesFit, Past, Split, There, Matched, Privileged
  <2> QED
    BY <2>1, <2>2, <2>4
<1> QED
  BY <1>3, <1>4

\* Root takes the identity.
LEMMA OwnIdentityStep == ASSUME PairInv, NEW s \in Scripts, OwnIdentity(s) PROVE PairInv'
<1> USE DEF PairInv
<1>1. /\ scripts[s].at = "own" /\ scripts[s] \in Script
      /\ ~ MayAct(s) => scripts' = [scripts EXCEPT ![s] = NotRunning]
      /\ MayAct(s) => scripts' = [ scripts EXCEPT ![s] =
                                     IF There(identity) THEN Moved(s, "hand") ELSE NotRunning ]
  BY TurnIs DEF OwnIdentity
<1>2. /\ UNCHANGED <<login, sudo, runtimeKeys, generated, launched, events, disturbed>>
      /\ identity' = IF MayAct(s) /\ There(identity) THEN [identity EXCEPT !.owner = "root"] ELSE identity
  BY DEF OwnIdentity, Aside
<1>3. CASE ~ (MayAct(s) /\ There(identity))
  BY <1>1, <1>2, <1>3, ScriptEnds DEF PairTypeOK
<1>4. CASE MayAct(s) /\ There(identity)
  <2>1. /\ identity' \in [key : Keys, owner : Users] /\ identity'.key = identity.key
        /\ identity'.owner = "root"
    BY <1>2, <1>4 DEF PairTypeOK, Users
  <2>2. ~ disturbed => identity' = identity
    BY <1>1, <1>2, <1>4 DEF FilesFit, PairTypeOK
  <2>3. /\ scripts'[s].at = "hand" /\ scripts'[s].key = scripts[s].key
        /\ scripts'[s].as = scripts[s].as
        /\ scripts'[s].gives = scripts[s].gives /\ scripts'[s].expect = scripts[s].expect
        /\ \A q \in Scripts : q # s => scripts'[q] = scripts[q]
        /\ PairTypeOK' /\ PairCounts'
    BY <1>1, <1>2, <1>4, <2>1, ScriptGoesOn DEF PairTypeOK
  <2>4. ScriptsFit'
    BY <1>1, <1>2, <2>3 DEF ScriptsFit, Past
  <2>5. FilesFit'
    BY <1>1, <1>2, <2>2, <2>3 DEF FilesFit, Past, Split, There, Matched, Privileged
  <2> QED
    BY <2>3, <2>4, <2>5
<1> QED
  BY <1>3, <1>4

\* The keys go to the user who runs the agent, as whom they are checked again.
LEMMA HandKeysStep == ASSUME PairInv, NEW s \in Scripts, HandKeys(s) PROVE PairInv'
<1> USE DEF PairInv
<1> DEFINE r == [ scripts[s] EXCEPT !.at = "read", !.key = 0, !.gives = FALSE, !.expect = login ]
<1>1. /\ scripts[s].at = "hand" /\ scripts[s] \in Script
      /\ ~ MayAct(s) => scripts' = [scripts EXCEPT ![s] = NotRunning]
      /\ MayAct(s) => scripts' = [ scripts EXCEPT ![s] =
                                     IF There(runtimeKeys) THEN r ELSE NotRunning ]
  BY TurnIs DEF HandKeys
<1>2. /\ UNCHANGED <<login, sudo, identity, generated, launched, events, disturbed>>
      /\ runtimeKeys' = IF MayAct(s) /\ There(runtimeKeys)
                        THEN [runtimeKeys EXCEPT !.owner = login] ELSE runtimeKeys
  BY DEF HandKeys, Aside
<1>3. CASE ~ (MayAct(s) /\ There(runtimeKeys))
  BY <1>1, <1>2, <1>3, ScriptEnds DEF PairTypeOK
<1>4. CASE MayAct(s) /\ There(runtimeKeys)
  <2>1. /\ runtimeKeys' \in [key : Keys, owner : Users] /\ runtimeKeys'.key = runtimeKeys.key
        /\ runtimeKeys'.owner = login
    BY <1>2, <1>4 DEF PairTypeOK
  <2>2. /\ r \in Script /\ r.at = "read" /\ r.expect = login /\ r.as = scripts[s].as /\ ~ r.gives
    <3>1. login \in Users /\ FALSE \in BOOLEAN
      BY DEF PairTypeOK
    <3> QED
      BY <1>1, <3>1, ScriptStates DEF Script
  <2>3. scripts' = [scripts EXCEPT ![s] = r]
    BY <1>1, <1>4
  <2> HIDE DEF r
  <2>4. s \in MayRead /\ scripts[s].as = "root" /\ scripts[s].gives
    BY <1>1 DEF MayRead, ScriptsFit
  <2>5. /\ scripts'[s] = r /\ \A q \in Scripts : q # s => scripts'[q] = scripts[q]
        /\ MayRead' \subseteq MayRead /\ ReadsTwice' \subseteq ReadsTwice
    BY <2>2, <2>3, <2>4, ScriptMoves
  <2>6. PairTypeOK'
    BY <1>2, <2>1, <2>2, <2>3 DEF PairTypeOK
  <2>7. PairCounts'
    BY <1>2, <2>5, PairCountsStep
  <2>8. ScriptsFit'
    BY <1>2, <2>2, <2>4, <2>5 DEF ScriptsFit, Past
  <2>9. FilesFit'
    <3> SUFFICES ASSUME ~ disturbed PROVE FilesFit'
      BY <1>2 DEF FilesFit
    <3>1. Matched /\ Matched' /\ There(runtimeKeys)' /\ There(identity)
      BY <1>1, <1>2, <2>1 DEF FilesFit, Matched, There
    <3>2. \A q \in Scripts : Past(q) => scripts[q].as = "root"
      BY <1>1, <2>4 DEF FilesFit, Past
    <3>3. \A q \in Scripts : Past(q)' => Past(q) /\ scripts'[q].as = scripts[q].as
      BY <1>1, <2>2, <2>5 DEF Past
    <3>4. \A q \in Scripts : scripts'[q].at \in {"own", "hand"} => scripts[q].at \in {"own", "hand"}
      BY <2>2, <2>5
    <3>5. \A q \in Scripts : Past(q)' => (scripts'[q].as = "root" <=> Privileged')
      BY <1>2, <3>3 DEF FilesFit, Privileged
    <3> QED
      BY <1>2, <3>1, <3>2, <3>3, <3>4, <3>5 DEF FilesFit, There
  <2> QED
    BY <2>6, <2>7, <2>8, <2>9
<1> QED
  BY <1>3, <1>4

\* Sudo changes, or the directory goes: under a script, or while none runs.
LEMMA SurroundingsStep == ASSUME PairInv, ChangeSudo \/ RemovePair PROVE PairInv'
<1> USE DEF PairInv
<1>1. /\ UNCHANGED <<login, scripts, generated, launched>> /\ Disturbs
      /\ events < MaxEvents /\ events' = events + 1
      /\ sudo' \in BOOLEAN
      /\ \/ UNCHANGED <<identity, runtimeKeys>>
         \/ identity' = NoFileYet /\ runtimeKeys' = NoFileYet
  BY DEF ChangeSudo, RemovePair, Happens, Files, PairTypeOK
<1>2. PairTypeOK'
  <2>1. {identity', runtimeKeys'} \subseteq [key : Keys, owner : Users]
    BY <1>1, ScriptStates DEF PairTypeOK, NoFileYet, Users
  <2>2. events' \in 0 .. MaxEvents
    BY <1>1, PairAssumption DEF PairTypeOK
  <2>3. disturbed' \in BOOLEAN
    BY <1>1, Zenon DEF Disturbs
  <2> QED
    BY <1>1, <2>1, <2>2, <2>3 DEF PairTypeOK
<1>3. MayRead' = MayRead /\ ReadsTwice' = ReadsTwice
  BY <1>1 DEF MayRead, ReadsTwice
<1>4. PairCounts'
  BY <1>1, <1>3, PairCountsStep
<1>5. ScriptsFit'
  BY <1>1 DEF ScriptsFit, Past
<1>6. FilesFit'
  <2> SUFFICES ASSUME ~ disturbed' PROVE FilesFit'
    BY DEF FilesFit
  <2>1. disturbed' = (disturbed \/ \E s \in Scripts : scripts[s].at \notin {"none", "ready"})
    BY <1>1 DEF Disturbs
  <2>2. ~ disturbed /\ \A s \in Scripts : scripts[s].at \in {"none", "ready"}
    BY <2>1, Zenon
  <2>3. \A s \in Scripts : ~ Past(s)' /\ scripts'[s].at \notin {"keys", "check", "own", "hand"}
    BY <1>1, <2>2 DEF Past
  <2>4. /\ There(runtimeKeys)' => There(identity)'
        /\ Split' => Matched'
    BY <1>1, <2>2 DEF FilesFit, Split, Matched, There, NoFileYet
  <2> QED
    BY <2>3, <2>4 DEF FilesFit
<1> QED
  BY <1>2, <1>4, <1>5, <1>6

\* Every step of the scripts and of their surroundings keeps the invariant.
LEMMA PairInvStep == PairInv /\ [PairNext]_pairvars => PairInv'
<1> SUFFICES ASSUME PairInv, [PairNext]_pairvars PROVE PairInv'
  OBVIOUS
<1>1. CASE UNCHANGED pairvars
  BY <1>1 DEF pairvars, PairInv, PairTypeOK, PairCounts, ScriptsFit, FilesFit, MayRead, ReadsTwice,
              Past, Split, Matched, There, Privileged
<1>2. ASSUME NEW s \in Scripts, ScriptDies(s) PROVE PairInv'
  <2>1. events' \in 0 .. MaxEvents
    BY <1>2, PairAssumption DEF ScriptDies, Happens, PairInv, PairTypeOK
  <2> QED
    BY <1>2, <2>1, ScriptEnds DEF ScriptDies, Files
<1>3. CASE PairNext
  BY <1>2, <1>3, LaunchScriptStep, LookAtPairStep, ReadIdentityStep, PublishIdentityStep, PublishKeysStep,
     CheckPairStep, OwnIdentityStep, HandKeysStep, SurroundingsStep DEF PairNext
<1> QED
  BY <1>1, <1>3

\* What a run without privilege takes on trust is true, and the variables keep
\* their types: a script generates two keys at most (ensureDockerState).
THEOREM PairStaysSound == PairSpec => []PairIsSound
<1>1. PairInv => PairIsSound
  BY DEF PairInv, PairIsSound, SplitIsVouched, FilesFit
<1> QED
  BY <1>1, PairInvInit, PairInvStep, PTL DEF PairSpec

\* A script that ends well leaves keys the agent can load; keys it can load are
\* taken away only with the directory.
THEOREM KeysStayLoadable == PairSpec => KeysAreKept
<1> DEFINE Kept == /\ \A s \in Scripts :
                        ~ disturbed /\ scripts[s].at # "ready" /\ scripts'[s].at = "ready" => Loadable'
                   /\ Loadable /\ There(identity') => Loadable' /\ identity'.key = identity.key
<1>1. PairInv /\ [PairNext]_pairvars => [Kept]_pairvars
  <2> SUFFICES ASSUME PairInv, PairNext PROVE Kept
    OBVIOUS
  <2>1. ASSUME Loadable, There(identity') PROVE Loadable' /\ identity'.key = identity.key
    <3>1. There(identity) /\ There(runtimeKeys) /\ identity.key = runtimeKeys.key
          /\ runtimeKeys.owner = login /\ {identity, runtimeKeys} \subseteq [key : Keys, owner : Users]
      BY <2>1 DEF Loadable, Matched, There, PairInv, PairTypeOK
    <3>2. /\ identity' \in {identity, [identity EXCEPT !.owner = "root"]}
          /\ runtimeKeys' \in {runtimeKeys, [runtimeKeys EXCEPT !.owner = login]}
          /\ login' = login
      <4>1. CASE LaunchScript \/ ChangeSudo \/ RemovePair
        BY <2>1, <4>1 DEF LaunchScript, ChangeSudo, RemovePair, Files, There, NoFileYet
      <4>2. ASSUME NEW s \in Scripts, LookAtPair(s) \/ ReadIdentity(s) \/ CheckPair(s) \/ ScriptDies(s)
            PROVE  UNCHANGED <<identity, runtimeKeys, login>>
        BY <4>2 DEF LookAtPair, ReadIdentity, CheckPair, ScriptDies, Files, Aside
      <4>3. ASSUME NEW s \in Scripts, PublishIdentity(s) \/ PublishKeys(s)
            PROVE  UNCHANGED <<identity, runtimeKeys, login>>
        BY <3>1, <4>3 DEF PublishIdentity, PublishKeys, Published, Aside
      <4>4. ASSUME NEW s \in Scripts, OwnIdentity(s)
            PROVE  /\ identity' \in {identity, [identity EXCEPT !.owner = "root"]}
                   /\ UNCHANGED <<runtimeKeys, login>>
        BY <4>4 DEF OwnIdentity, Aside
      <4>5. ASSUME NEW s \in Scripts, HandKeys(s)
            PROVE  /\ runtimeKeys' \in {runtimeKeys, [runtimeKeys EXCEPT !.owner = login]}
                   /\ UNCHANGED <<identity, login>>
        BY <4>5 DEF HandKeys, Aside
      <4> QED
        BY <4>1, <4>2, <4>3, <4>4, <4>5 DEF PairNext
    <3> QED
      BY <3>1, <3>2 DEF Loadable, Matched, There
  <2>2. ASSUME NEW s \in Scripts, ~ disturbed, scripts[s].at # "ready", scripts'[s].at = "ready"
        PROVE  Loadable'
    <3>1. ASSUME NEW q \in Scripts, NEW r, scripts' = [scripts EXCEPT ![q] = r]
          PROVE  q = s /\ r.at = "ready"
      BY <2>2, <3>1 DEF PairInv, PairTypeOK
    <3>2. scripts' # scripts
      BY <2>2
    <3>3. ~ (LaunchScript \/ ChangeSudo \/ RemovePair)
      BY <3>1, <3>2 DEF LaunchScript, ChangeSudo, RemovePair, NotRunning
    <3>4. NotRunning.at # "ready"
      BY DEF NotRunning
    <3>5. ASSUME NEW q \in Scripts, NEW step, NEW next, Turn(q, step, next)
          PROVE  q = s /\ next.at = "ready" /\ scripts[s].at = step
      <4>1. /\ scripts[q].at = step
            /\ \/ scripts' = [scripts EXCEPT ![q] = NotRunning]
               \/ scripts' = [scripts EXCEPT ![q] = next]
        BY <3>5 DEF Turn
      <4>2. scripts' # [scripts EXCEPT ![q] = NotRunning]
        BY <3>1, <3>4
      <4> QED
        BY <3>1, <4>1, <4>2
    <3>6. ASSUME NEW q \in Scripts
          PROVE  ~ (ReadIdentity(q) \/ PublishIdentity(q) \/ PublishKeys(q) \/ OwnIdentity(q)
                    \/ HandKeys(q) \/ ScriptDies(q))
      <4>1. \A next : Moved(q, next).at = next
        BY DEF Moved, PairInv, PairTypeOK, Script
      <4>2. ~ ScriptDies(q)
        BY <3>1, <3>4 DEF ScriptDies
      <4>3. ~ (PublishIdentity(q) \/ PublishKeys(q))
        BY <3>5, <4>1 DEF PublishIdentity, PublishKeys
      <4>4. ~ OwnIdentity(q)
        BY <3>4, <3>5, <4>1 DEF OwnIdentity
      <4>5. ~ ReadIdentity(q)
        <5> DEFINE new == MayAct(q) /\ Owned(q) /\ ~ There(identity)
                   k == IF new THEN generated + 1 ELSE identity.key
                   r == [Moved(q, "identity") EXCEPT !.key = k]
        <5>1. r.at = "identity"
          BY <4>1 DEF Moved, PairInv, PairTypeOK, Script
        <5>2. ReadIdentity(q) => Turn(q, "read", IF Owned(q) THEN r ELSE NotRunning)
          BY DEF ReadIdentity
        <5> HIDE DEF r
        <5> QED
          BY <3>4, <3>5, <5>1, <5>2
      <4>6. ~ HandKeys(q)
        <5> DEFINE r == [ scripts[q] EXCEPT !.at = "read", !.key = 0, !.gives = FALSE, !.expect = login ]
        <5>1. r.at = "read"
          BY DEF PairInv, PairTypeOK, Script
        <5>2. HandKeys(q) => Turn(q, "hand", IF There(runtimeKeys) THEN r ELSE NotRunning)
          BY DEF HandKeys
        <5> HIDE DEF r
        <5> QED
          BY <3>4, <3>5, <5>1, <5>2
      <4> QED
        BY <4>2, <4>3, <4>4, <4>5, <4>6
    <3>7. LookAtPair(s) \/ CheckPair(s)
      BY <3>1, <3>3, <3>5, <3>6 DEF PairNext, LookAtPair, CheckPair
    <3>8. CASE LookAtPair(s)
      <4>1. ~ Privileged /\ Split
        <5>1. (IF login = "root" \/ sudo THEN AsRoot ELSE AsUser).at = "ready"
          BY <3>5, <3>8 DEF LookAtPair
        <5>2. AsRoot.at # "ready"
          BY <3>4 DEF AsRoot
        <5>3. ~ Privileged /\ AsUser.at = "ready"
          BY <5>1, <5>2 DEF Privileged
        <5>4. Split
          BY <3>4, <5>3 DEF AsUser
        <5> QED
          BY <5>3, <5>4
      <4>2. Matched /\ runtimeKeys.owner = "user" /\ login = "user"
        BY <2>2, <4>1 DEF PairInv, PairTypeOK, FilesFit, Split, Privileged, Users
      <4> QED
        BY <3>8, <4>2 DEF LookAtPair, Files, Aside, Loadable, Matched, There
    <3>9. CASE CheckPair(s)
      <4> DEFINE next == IF ~ (Matched /\ Owned(s)) THEN NotRunning
                         ELSE IF scripts[s].gives THEN Moved(s, "own") ELSE Provisioned
      <4>1. next.at = "ready" /\ scripts[s].at = "check"
        BY <3>5, <3>9 DEF CheckPair
      <4>2. Moved(s, "own").at # "ready"
        BY DEF Moved, PairInv, PairTypeOK, Script
      <4>3. Matched /\ Owned(s) /\ ~ scripts[s].gives
        BY <3>4, <4>1, <4>2
      <4>4. scripts[s].expect = login
        BY <4>1, <4>3 DEF PairInv, ScriptsFit, Past
      <4>5. Matched /\ runtimeKeys.owner = login
        BY <4>3, <4>4 DEF Matched, Owned, There
      <4> QED
        BY <3>9, <4>5 DEF CheckPair, Files, Aside, Loadable, Matched, There
    <3> QED
      BY <3>7, <3>8, <3>9
  <2> QED
    BY <2>1, <2>2
<1> QED
  BY <1>1, PairInvInit, PairInvStep, PTL DEF PairSpec, KeysAreKept

-----------------------------------------------------------------------------
(* AgentLifecycle *)

\* The steps of each operation.
StepsOf ==
  [ install   |-> {"upload", "config", "try", "trying", "launch", "online", "revoke", "note"},
    uninstall |-> {"stop", "remove", "retire", "gone", "note"},
    upgrade   |-> {"lock", "stage", "try", "trying", "inspect", "stop", "baseline", "swap",
                   "start", "verify", "clean", "unlock", "unstage", "loosen", "back",
                   "restore", "base", "again", "check", "tidy"},
    restart   |-> {"lock", "inspect", "stop", "baseline", "start", "verify", "unlock",
                   "loosen"},
    rotate    |-> {"apply", "activate", "turn", "revoke"} ]

\* An operation that is at work.
Runs(op) == task # None /\ slot = op

\* The steps before an operation has its job.
Fresh == {"ready", "prepared"}

\* The slot, the task and its step belong together; the local host keeps an agent.
SlotFits ==
  /\ task # None =>
       /\ slot = task.op /\ slot \in OpsHere(place)
       /\ task.at \in StepsOf[slot] \cup {"ready", "prepared", "queued", "audit", "failed"}
  /\ place = "local" => agents.status # "not_installed" /\ machine.bin # 0

\* Jobs are numbered as they come, and so are the credentials their operations make:
\* none that is still to come has been used.
JobsInOrder ==
  /\ NextJob \in 1 .. MaxOps + 1
  /\ \A o \in 1 .. MaxOps : jobs[o] # "none" <=> o < NextJob
  /\ task # None => /\ task.cred = task.job
                    /\ IF task.at \in Fresh THEN task.job = NextJob ELSE task.job < NextJob
                    /\ \A c \in task.old : c < NextJob
  /\ \A c \in Ids : c >= NextJob => creds[c] \in {"unused", "pending"}
  /\ \A c \in Ids : c > NextJob \/ (c = NextJob /\ task # None /\ task.at \notin Fresh)
                     => creds[c] = "unused"

\* What will take a time from the clock: pushes that have none, and an installation
\* that has not been recorded.
Unstamped == { q \in pushes : q.at \in {"sent", "verified", "begun"} }
ToRecord ==
  IF /\ Runs("install")
     /\ task.at \in {"queued", "upload", "config", "try", "trying", "launch", "online"}
  THEN 1 ELSE 0

\* The clock runs ahead neither of the pushes sent nor of the operations begun.
ClockFits ==
  /\ IsFiniteSet(Unstamped)
  /\ clock + Cardinality(Unstamped) + ToRecord <= sent + NextJob - 1

\* A credential that some operation has made.
Known(c) == creds[c] # "unused" /\ c < NextJob

\* Processes, pushes and the configuration of the host come from jobs there have been,
\* and so do their credentials.
IdsFit ==
  /\ \A p \in procs : p.id <= 3 * (NextJob - 1) /\ Known(p.cred)
  /\ \A q \in pushes : q.by <= 3 * (NextJob - 1) /\ Known(q.cred)
  /\ \A b \in proved : b <= 3 * (NextJob - 1)
  /\ machine.conf # None => Known(machine.conf)

\* A push that goes on without activating its credential finds it active or revoked;
\* none is under way in an uninstallation.
PushesFit ==
  /\ \A q \in pushes : (q.at = "stamped" /\ q.saw = "active") \/ q.at \in {"used", "landed"}
                          => creds[q.cred] # "pending"
  /\ slot = "uninstall" /\ (task = None \/ task.at # "ready") => Ingests = {}

\* An agent that is not installed can bring itself back by nothing: the credentials of
\* its processes and of its pushes are revoked.  Operations that need an agent have one.
GoneFits ==
  /\ agents.status = "not_installed" =>
       /\ ~ info
       /\ \A c \in Ids : creds[c] # "active"
       /\ \A q \in pushes : /\ q.at \notin {"stamped", "used", "landed"}
                            /\ creds[q.cred] = "revoked"
       /\ \A p \in procs : creds[p.cred] = "revoked"
  /\ Runs("install") /\ task.at \notin Fresh => agents.status # "not_installed"
  /\ (Runs("upgrade") \/ Runs("restart")) /\ task.at # "ready"
       => agents.status # "not_installed"

\* What each step of each operation relies on of the files and processes of the host.
HostFits ==
  /\ Loops = {} \/ \E p \in procs : Loops = {p}
  /\ machine.conf # None => machine.bin # 0 \/ machine.backup # 0
  /\ Runs("install") =>
       /\ task.at \in {"config", "try", "trying", "launch"}
            => Loops = {} /\ machine.bin = Shipped
       /\ task.at \in {"try", "trying", "launch", "online", "audit"}
            => machine.conf = task.cred
  /\ Runs("uninstall") /\ task.at \in {"retire", "gone", "audit"} => machine.conf = None
  /\ task # None /\ task.at \in {"baseline", "swap", "start", "restore", "base", "again"}
       => Loops = {}
  /\ Runs("upgrade") =>
       /\ task.at \in {"try", "trying", "inspect", "stop", "baseline", "swap"}
            => machine.staged = Shipped
       /\ task.at \in {"start", "verify", "clean", "unlock", "audit"} => machine.bin = Shipped
       /\ task.at \in {"unlock", "audit"} => machine.backup = 0
  /\ Runs("restart") /\ task.at \in {"verify", "unlock", "audit"} => machine.pid = Born3(2)
  /\ Runs("rotate") /\ task.at \in {"activate", "turn", "audit"} => machine.conf = task.cred

\* What each step of each operation relies on of the credentials.
CredsFit ==
  /\ \A c \in Ids : creds[c] = "pending" /\ ~ crashed =>
       /\ slot \in {"install", "rotate"}
       /\ task # None => c = task.cred /\ task.at # "ready"
  /\ Runs("install") =>
       /\ task.at \notin {"ready", "revoke", "note", "failed"} => creds[task.cred] \in Usable
       /\ task.at \in {"launch", "online", "audit", "note", "failed"}
            => creds[task.cred] # "pending"
  /\ Runs("rotate") =>
       /\ task.at \in {"prepared", "queued", "apply", "activate"}
            => creds[task.cred] \in Usable
       /\ task.at \in {"turn", "audit"} => creds[task.cred] = "active"
       /\ task.at = "failed" => creds[task.cred] # "pending"
       /\ task.at # "ready" => task.cred \notin task.old
  /\ Runs("uninstall") /\ task.at \in {"gone", "audit"} => \A c \in Ids : creds[c] \notin Usable

\* The process an installation tries pushes with the new credential, and has made it
\* active when its push has landed.
TrialFits ==
  Runs("install") /\ task.at \in {"queued", "upload", "config", "try", "trying"} =>
    /\ \A p \in procs : p.id = Born3(1) => p.cred = task.cred
    /\ \A q \in pushes : q.by = Born3(1) => q.cred = task.cred
    /\ Born3(1) \in proved => creds[task.cred] # "pending"

\* Where the lock of the host is held and `installing' stands when nothing went wrong.
LeftBehind ==
  mishaps = 0 =>
    /\ machine.lock =>
         /\ Runs("upgrade") \/ Runs("restart")
         /\ task.at \notin {"ready", "prepared", "queued", "lock", "audit", "failed"}
    /\ agents.status = "installing" =>
         /\ Runs("install") \/ Runs("uninstall")
         /\ task.at \notin {"ready", "prepared", "audit", "failed"}

\* The invariant.
LifeInv ==
  /\ LifecycleTypeOK /\ SlotFits /\ JobsInOrder /\ ClockFits /\ IdsFit /\ PushesFit
  /\ GoneFits /\ HostFits /\ CredsFit /\ TrialFits /\ LeftBehind

\* The operations there are.
LEMMA OpsAre ==
  /\ Ops = {"install", "uninstall", "upgrade", "restart", "rotate"}
  /\ \A p \in {"local", "remote"} : OpsHere(p) \subseteq Ops
  /\ None \notin Nat /\ None \notin Ops
<1>1. OpsHere("local") = {"rotate"} /\ OpsHere("remote") = {"install", "uninstall", "upgrade", "restart"}
  BY DEF OpsHere
<1> QED
  BY <1>1, LifecycleAssumption DEF Ops

\* Jobs that go on leave the number of the next one alone.
LEMMA JobGoesOn ==
  ASSUME LifecycleTypeOK, JobsInOrder, NEW j \in 1 .. MaxOps, j < NextJob, NEW x, x # "none",
         jobs' = [jobs EXCEPT ![j] = x]
  PROVE  NextJob' = NextJob /\ \A o \in 1 .. MaxOps : jobs'[o] # "none" <=> o < NextJob'
<1>1. \A o \in 1 .. MaxOps : jobs'[o] # "none" <=> jobs[o] # "none"
  BY DEF LifecycleTypeOK, JobsInOrder
<1>2. NextJob' = NextJob
  BY <1>1 DEF NextJob
<1> QED
  BY <1>1, <1>2 DEF JobsInOrder

\* A job that is created is the next one.
LEMMA JobIsNext ==
  ASSUME LifecycleTypeOK, JobsInOrder, NextJob \in 1 .. MaxOps, NEW x, x # "none",
         jobs' = [jobs EXCEPT ![NextJob] = x]
  PROVE  NextJob' = NextJob + 1 /\ \A o \in 1 .. MaxOps : jobs'[o] # "none" <=> o < NextJob'
<1>1. PICK n : n = NextJob
  OBVIOUS
<1>2. n \in 1 .. MaxOps /\ MaxOps \in Nat /\ \A o \in 1 .. MaxOps : jobs[o] # "none" <=> o < n
  BY <1>1, LifecycleAssumption DEF JobsInOrder
<1>3. \A o \in 1 .. MaxOps : jobs'[o] # "none" <=> o < n + 1
  BY <1>1, <1>2 DEF LifecycleTypeOK
<1>4. { o \in 1 .. MaxOps : jobs'[o] # "none" } = 1 .. n
  BY <1>2, <1>3
<1>5. Cardinality(1 .. n) = n
  BY <1>2, FS_Interval
<1>6. NextJob' = n + 1
  <2> DEFINE S == { o \in 1 .. MaxOps : jobs'[o] # "none" }
  <2>1. NextJob' = 1 + Cardinality(S) /\ S = 1 .. n
    BY <1>4 DEF NextJob
  <2> HIDE DEF S
  <2> QED
    BY <1>2, <1>4, <1>5, <2>1
<1> QED
  BY <1>1, <1>3, <1>6

\* An operation at work, and the bounds on its job.
LEMMA AtWorkIs ==
  ASSUME LifeInv, task # None
  PROVE  /\ task \in Task /\ slot = task.op /\ slot \in Ops /\ task.cred = task.job
         /\ task.job \in 1 .. MaxOps /\ task.job \in Ids /\ MaxOps \in Nat
         /\ task.at \in StepsOf[slot] \cup {"ready", "prepared", "queued", "audit", "failed"}
         /\ task.at \notin Fresh => task.job < NextJob
<1>1. task \in Task
  BY DEF LifeInv, LifecycleTypeOK
<1>2. slot = task.op /\ task.cred = task.job
      /\ task.at \in StepsOf[slot] \cup {"ready", "prepared", "queued", "audit", "failed"}
  BY DEF LifeInv, SlotFits, JobsInOrder
<1>3. task.job \in 1 .. MaxOps /\ task.op \in Ops /\ MaxOps \in Nat
  BY <1>1, LifecycleAssumption DEF Task
<1>4. task.job \in Ids
  BY <1>3 DEF Ids
<1>5. task.at \notin Fresh => task.job < NextJob
  BY DEF LifeInv, JobsInOrder
<1> QED
  BY <1>1, <1>2, <1>3, <1>4, <1>5

\* What the handlers of pushes leave alone.
LEMMA HandlerKeeps ==
  ASSUME LifeInv, UNCHANGED <<place, slot, task, jobs, machine, crashed>>, procs' \subseteq procs,
         mishaps' = mishaps \/ mishaps' = mishaps + 1,
         agents' = agents \/ agents'.status = "online"
  PROVE  /\ SlotFits' /\ NextJob' = NextJob /\ ToRecord' = ToRecord /\ HostFits' /\ LeftBehind'
<1> USE DEF LifeInv
<1>1. SlotFits'
  BY DEF SlotFits
<1>2. NextJob' = NextJob /\ ToRecord' = ToRecord
  BY DEF NextJob, ToRecord, Runs
<1>3. Loops' = {} \/ (Loops' = Loops /\ \E p \in procs' : Loops' = {p})
  <2>1. Loops' \subseteq Loops
    BY DEF Loops
  <2>2. CASE Loops = {}
    BY <2>1, <2>2
  <2>3. ASSUME NEW p \in procs, Loops = {p} PROVE Loops' = {} \/ (Loops' = Loops /\ p \in procs')
    <3>1. CASE p \in Loops'
      BY <2>1, <2>3, <3>1 DEF Loops
    <3>2. CASE p \notin Loops'
      BY <2>1, <2>3, <3>2
    <3> QED
      BY <3>1, <3>2
  <2> QED
    BY <2>2, <2>3 DEF HostFits
<1>4. HostFits'
  BY <1>3 DEF HostFits, Runs, Born3
<1>5. LeftBehind'
  <2>1. mishaps \in Nat
    BY LifecycleAssumption DEF LifecycleTypeOK
  <2> QED
    BY <2>1 DEF LeftBehind, Runs
<1> QED
  BY <1>1, <1>2, <1>4, <1>5

\* How many members a set has when one comes, goes or takes another's place.
LEMMA CountsMove ==
  ASSUME NEW S, IsFiniteSet(S), NEW T, NEW q, NEW r
  PROVE  /\ Cardinality(S) \in Nat
         /\ T \subseteq S => IsFiniteSet(T) /\ Cardinality(T) \in Nat /\ Cardinality(T) <= Cardinality(S)
         /\ T \subseteq S \cup {r} =>
              IsFiniteSet(T) /\ Cardinality(T) \in Nat /\ Cardinality(T) <= Cardinality(S) + 1
         /\ q \in S /\ T \subseteq S \ {q} =>
              IsFiniteSet(T) /\ Cardinality(T) \in Nat /\ Cardinality(T) <= Cardinality(S) - 1
         /\ q \in S /\ T \subseteq (S \ {q}) \cup {r} =>
              IsFiniteSet(T) /\ Cardinality(T) \in Nat /\ Cardinality(T) <= Cardinality(S)
<1>1. Cardinality(S) \in Nat
  BY FS_CardinalityType
<1>2. ASSUME NEW U, IsFiniteSet(U), T \subseteq U
      PROVE  IsFiniteSet(T) /\ Cardinality(T) \in Nat /\ Cardinality(T) <= Cardinality(U)
  BY <1>2, FS_Subset, FS_CardinalityType
<1>3. /\ IsFiniteSet(S \cup {r}) /\ Cardinality(S \cup {r}) \in Nat
      /\ Cardinality(S \cup {r}) <= Cardinality(S) + 1
  <2>1. IsFiniteSet(S \cup {r}) /\ Cardinality(S \cup {r}) \in {Cardinality(S), Cardinality(S) + 1}
    BY FS_AddElement
  <2> QED
    BY <1>1, <2>1
<1>4. ASSUME q \in S
      PROVE  /\ IsFiniteSet(S \ {q}) /\ Cardinality(S \ {q}) = Cardinality(S) - 1
             /\ Cardinality(S \ {q}) \in Nat
  BY <1>1, <1>4, FS_RemoveElement, FS_CardinalityType
<1>5. ASSUME q \in S
      PROVE  /\ IsFiniteSet((S \ {q}) \cup {r}) /\ Cardinality((S \ {q}) \cup {r}) \in Nat
             /\ Cardinality((S \ {q}) \cup {r}) <= Cardinality(S)
  BY <1>1, <1>4, <1>5, FS_AddElement
<1>6. T \subseteq S => IsFiniteSet(T) /\ Cardinality(T) \in Nat /\ Cardinality(T) <= Cardinality(S)
  BY <1>2
<1>7. T \subseteq S \cup {r} =>
        IsFiniteSet(T) /\ Cardinality(T) \in Nat /\ Cardinality(T) <= Cardinality(S) + 1
  <2> SUFFICES ASSUME T \subseteq S \cup {r}
               PROVE  IsFiniteSet(T) /\ Cardinality(T) \in Nat /\ Cardinality(T) <= Cardinality(S) + 1
    OBVIOUS
  <2>1. IsFiniteSet(T) /\ Cardinality(T) \in Nat /\ Cardinality(T) <= Cardinality(S \cup {r})
    BY <1>2, <1>3
  <2> QED
    BY <1>1, <1>3, <2>1
<1>8. q \in S /\ T \subseteq S \ {q} =>
        IsFiniteSet(T) /\ Cardinality(T) \in Nat /\ Cardinality(T) <= Cardinality(S) - 1
  BY <1>2, <1>4
<1>9. q \in S /\ T \subseteq (S \ {q}) \cup {r} =>
        IsFiniteSet(T) /\ Cardinality(T) \in Nat /\ Cardinality(T) <= Cardinality(S)
  <2> SUFFICES ASSUME q \in S, T \subseteq (S \ {q}) \cup {r}
               PROVE  IsFiniteSet(T) /\ Cardinality(T) \in Nat /\ Cardinality(T) <= Cardinality(S)
    OBVIOUS
  <2>1. IsFiniteSet(T) /\ Cardinality(T) \in Nat /\ Cardinality(T) <= Cardinality((S \ {q}) \cup {r})
    BY <1>2, <1>5
  <2> QED
    BY <1>1, <1>5, <2>1
<1> QED
  BY <1>1, <1>6, <1>7, <1>8, <1>9

\* The counters, and how far apart they are.
LEMMA CountersAre ==
  ASSUME LifeInv
  PROVE  /\ clock \in Nat /\ sent \in 0 .. MaxPushes /\ NextJob \in 1 .. MaxOps + 1
         /\ mishaps \in 0 .. MaxMishaps /\ MaxPushes \in Nat /\ MaxOps \in Nat /\ MaxMishaps \in Nat
         /\ ToRecord \in 0 .. 1 /\ IsFiniteSet(Unstamped) /\ Cardinality(Unstamped) \in Nat
         /\ clock + Cardinality(Unstamped) + ToRecord <= sent + NextJob - 1
         /\ Times = 0 .. MaxPushes + MaxOps /\ Ids = 0 .. MaxOps /\ Births = 0 .. 3 * MaxOps
<1>1. IsFiniteSet(Unstamped) /\ Cardinality(Unstamped) \in Nat
  BY FS_CardinalityType DEF LifeInv, ClockFits
<1> QED
  BY <1>1, LifecycleAssumption
     DEF LifeInv, LifecycleTypeOK, JobsInOrder, ClockFits, ToRecord, Times, Ids, Births

\* The same, as numbers.
LEMMA NumbersAre ==
  ASSUME LifeInv
  PROVE  /\ clock \in Nat /\ sent \in Nat /\ NextJob \in Nat /\ ToRecord \in Nat
         /\ IsFiniteSet(Unstamped) /\ Cardinality(Unstamped) \in Nat
         /\ clock + Cardinality(Unstamped) + ToRecord <= sent + NextJob - 1
         /\ sent <= MaxPushes /\ MaxPushes \in Nat
         /\ mishaps \in Nat /\ mishaps <= MaxMishaps /\ MaxMishaps \in Nat
         /\ Ids \subseteq Int /\ Births \subseteq Int
<1>1. clock \in Nat /\ sent \in Nat /\ NextJob \in Nat /\ ToRecord \in Nat
  BY CountersAre
<1>2. /\ IsFiniteSet(Unstamped) /\ Cardinality(Unstamped) \in Nat
      /\ clock + Cardinality(Unstamped) + ToRecord <= sent + NextJob - 1
  BY CountersAre
<1>3. /\ sent <= MaxPushes /\ MaxPushes \in Nat
      /\ mishaps \in Nat /\ mishaps <= MaxMishaps /\ MaxMishaps \in Nat
  BY CountersAre
<1>4. Ids \subseteq Int /\ Births \subseteq Int
  BY DEF Ids, Births
<1> QED
  BY <1>1, <1>2, <1>3, <1>4

\* The clock keeps within its bound as long as it stands.
LEMMA ClockStands ==
  ASSUME LifeInv, clock' = clock, sent' = sent, NextJob' = NextJob, ToRecord' = ToRecord,
         NEW q, NEW r,
         \/ Unstamped' \subseteq Unstamped
         \/ q \in Unstamped /\ Unstamped' \subseteq (Unstamped \ {q}) \cup {r}
  PROVE  ClockFits'
<1>1. /\ clock \in Nat /\ sent \in Nat /\ NextJob \in Nat /\ ToRecord \in Nat
      /\ Cardinality(Unstamped) \in Nat /\ IsFiniteSet(Unstamped)
      /\ clock + Cardinality(Unstamped) + ToRecord <= sent + NextJob - 1
  BY NumbersAre
<1>2. /\ IsFiniteSet(Unstamped') /\ Cardinality(Unstamped') \in Nat
      /\ Cardinality(Unstamped') <= Cardinality(Unstamped)
  BY <1>1, CountsMove
<1> QED
  BY <1>1, <1>2 DEF ClockFits

\* A process or a push that is there is one of a job there has been.
LEMMA SendPushStep == ASSUME LifeInv, SendPush PROVE LifeInv'
<1> USE DEF LifeInv
<1>1. PICK p \in procs :
        pushes' = pushes \cup {[ by |-> p.id, ver |-> p.ver, cred |-> p.cred, at |-> "sent",
                                 saw |-> "active", now |-> 0 ]}
  BY DEF SendPush
<1> DEFINE n == [ by |-> p.id, ver |-> p.ver, cred |-> p.cred, at |-> "sent",
                  saw |-> "active", now |-> 0 ]
<1>2. /\ UNCHANGED << place, slot, task, jobs, agents, info, creds, machine, procs, clock,
                      mishaps, crashed, proved >>
      /\ sent < MaxPushes /\ sent' = sent + 1
  BY DEF SendPush
<1>3. /\ SlotFits' /\ NextJob' = NextJob /\ ToRecord' = ToRecord /\ HostFits' /\ LeftBehind'
  BY <1>2, HandlerKeeps
<1>4. n \in Push /\ n.by = p.id /\ n.cred = p.cred /\ n.at = "sent" /\ n.ver = p.ver
  <2>1. p \in Process /\ 0 \in Times
    BY CountersAre DEF LifecycleTypeOK
  <2> QED
    BY <2>1 DEF Process, Push
<1>5. pushes' = pushes \cup {n}
  BY <1>1
<1> HIDE DEF n
<1>6. LifecycleTypeOK'
  <2>1. pushes' \subseteq Push
    BY <1>4, <1>5 DEF LifecycleTypeOK
  <2>2. sent' \in 0 .. MaxPushes
    BY <1>2, NumbersAre
  <2> QED
    BY <1>2, <2>1, <2>2 DEF LifecycleTypeOK
<1>7. JobsInOrder'
  BY <1>2, <1>3 DEF JobsInOrder
<1>8. ClockFits'
  <2>1. Unstamped' \subseteq Unstamped \cup {n}
    BY <1>5 DEF Unstamped
  <2>2. IsFiniteSet(Unstamped') /\ Cardinality(Unstamped') \in Nat
        /\ Cardinality(Unstamped') <= Cardinality(Unstamped) + 1 /\ Cardinality(Unstamped) \in Nat
    BY <2>1, CountersAre, CountsMove
  <2>3. /\ clock \in Nat /\ sent \in Nat /\ NextJob \in Nat /\ ToRecord \in Nat
        /\ clock + Cardinality(Unstamped) + ToRecord <= sent + NextJob - 1
    BY NumbersAre
  <2> QED
    BY <1>2, <1>3, <2>2, <2>3 DEF ClockFits
<1>9. IdsFit'
  BY <1>2, <1>3, <1>4, <1>5 DEF IdsFit, Known
<1>10. PushesFit'
  BY <1>2, <1>4, <1>5 DEF PushesFit, Ingests
<1>11. GoneFits'
  BY <1>2, <1>4, <1>5 DEF GoneFits, Runs
<1>12. CredsFit' /\ TrialFits'
  BY <1>2, <1>4, <1>5 DEF CredsFit, TrialFits, Runs, Born3
<1> QED
  BY <1>3, <1>6, <1>7, <1>8, <1>9, <1>10, <1>11, <1>12

\* A push that is rejected goes, and with it perhaps the agent.
LEMMA RejectIs ==
  ASSUME LifeInv, NEW q \in pushes, Reject(q)
  PROVE  /\ procs' \subseteq procs /\ pushes' \subseteq pushes
         /\ IsFiniteSet(Unstamped') /\ Cardinality(Unstamped') \in Nat
         /\ Cardinality(Unstamped') <= Cardinality(Unstamped)
<1>1. procs' \subseteq procs /\ pushes' \subseteq pushes
  BY DEF Reject
<1>2. Unstamped' \subseteq Unstamped
  BY <1>1 DEF Unstamped
<1> QED
  BY <1>1, <1>2, CountersAre, CountsMove

\* Pushes and processes that go leave the rest as it is.
LEMMA FewerPushes ==
  ASSUME LifeInv, procs' \subseteq procs, pushes' \subseteq pushes,
         mishaps' = mishaps \/ mishaps' = mishaps + 1, mishaps' \in 0 .. MaxMishaps,
         UNCHANGED << place, slot, task, jobs, agents, info, creds, machine, clock, sent,
                      crashed, proved >>
  PROVE  LifeInv'
<1> USE DEF LifeInv
<1>1. /\ SlotFits' /\ NextJob' = NextJob /\ ToRecord' = ToRecord /\ HostFits' /\ LeftBehind'
  BY HandlerKeeps
<1>2. LifecycleTypeOK'
  BY DEF LifecycleTypeOK
<1>3. JobsInOrder'
  BY <1>1 DEF JobsInOrder
<1>4. ClockFits'
  <2>1. Unstamped' \subseteq Unstamped
    BY DEF Unstamped
  <2> QED
    BY <1>1, <2>1, ClockStands
<1>5. IdsFit'
  BY <1>1 DEF IdsFit, Known
<1>6. PushesFit'
  BY DEF PushesFit, Ingests
<1>7. GoneFits'
  BY DEF GoneFits, Runs
<1>8. CredsFit' /\ TrialFits'
  BY DEF CredsFit, TrialFits, Runs, Born3
<1> QED
  BY <1>1, <1>2, <1>3, <1>4, <1>5, <1>6, <1>7, <1>8

\* What a push is when it goes one step on.
PushMoves(q, r) ==
  /\ q \in pushes /\ pushes' = (pushes \ {q}) \cup {r} /\ r \in Push
  /\ r.by = q.by /\ r.cred = q.cred /\ r.ver = q.ver

\* A push that goes on before it is stamped.
LEMMA PushGoesOn ==
  ASSUME LifeInv, NEW q, NEW r, PushMoves(q, r),
         q.at \in {"sent", "verified"}, r.at \in {"verified", "begun"},
         r.at = "begun" => slot # "uninstall",
         UNCHANGED << place, slot, task, jobs, agents, info, creds, machine, procs, clock, sent,
                      mishaps, crashed, proved >>
  PROVE  LifeInv'
<1> USE DEF LifeInv, PushMoves
<1>1. /\ SlotFits' /\ NextJob' = NextJob /\ ToRecord' = ToRecord /\ HostFits' /\ LeftBehind'
  BY HandlerKeeps
<1>2. LifecycleTypeOK'
  BY DEF LifecycleTypeOK
<1>3. JobsInOrder'
  BY <1>1 DEF JobsInOrder
<1>4. ClockFits'
  <2>1. q \in Unstamped /\ Unstamped' \subseteq (Unstamped \ {q}) \cup {r}
    BY DEF Unstamped
  <2> QED
    BY <1>1, <2>1, ClockStands
<1>5. IdsFit'
  BY <1>1 DEF IdsFit, Known
<1>6. PushesFit'
  BY DEF PushesFit, Ingests
<1>7. GoneFits'
  BY DEF GoneFits, Runs
<1>8. CredsFit' /\ TrialFits'
  BY DEF CredsFit, TrialFits, Runs, Born3
<1> QED
  BY <1>1, <1>2, <1>3, <1>4, <1>5, <1>6, <1>7, <1>8

\* The token of a push is verified.
LEMMA VerifyTokenStep == ASSUME LifeInv, VerifyToken PROVE LifeInv'
<1>1. PICK q \in pushes :
        /\ q.at = "sent"
        /\ \/ creds[q.cred] = "revoked" /\ Reject(q)
           \/ creds[q.cred] # "revoked" /\ Step(q, [q EXCEPT !.at = "verified"]) /\ UNCHANGED procs
  BY DEF VerifyToken
<1>2. UNCHANGED << place, slot, task, jobs, agents, info, creds, machine, clock, sent,
                   mishaps, crashed, proved >>
  BY DEF VerifyToken
<1>3. q \in Push
  BY DEF LifeInv, LifecycleTypeOK
<1>4. CASE Reject(q)
  BY <1>2, <1>4, RejectIs, FewerPushes, CountersAre
<1>5. CASE Step(q, [q EXCEPT !.at = "verified"]) /\ UNCHANGED procs
  <2> DEFINE r == [q EXCEPT !.at = "verified"]
  <2>1. r \in Push /\ r.at = "verified" /\ r.by = q.by /\ r.cred = q.cred /\ r.ver = q.ver
    BY <1>3 DEF Push
  <2>2. pushes' = (pushes \ {q}) \cup {r}
    BY <1>5 DEF Step
  <2> HIDE DEF r
  <2>3. PushMoves(q, r)
    BY <2>1, <2>2 DEF PushMoves
  <2> QED
    BY <1>1, <1>2, <1>5, <2>1, <2>3, PushGoesOn
<1> QED
  BY <1>1, <1>4, <1>5

\* A push is let into the ingest, unless an uninstallation keeps it out.
LEMMA BeginIngestStep == ASSUME LifeInv, BeginIngest PROVE LifeInv'
<1>1. PICK q \in pushes :
        /\ q.at = "verified"
        /\ \/ Admit(q) /\ Step(q, [q EXCEPT !.at = "begun"])
           \/ ~ Admit(q) /\ pushes' = pushes \ {q}
  BY DEF BeginIngest
<1>2. UNCHANGED << place, slot, task, jobs, agents, info, creds, machine, procs, clock, sent,
                   mishaps, crashed, proved >>
  BY DEF BeginIngest
<1>3. q \in Push
  BY DEF LifeInv, LifecycleTypeOK
<1>4. CASE pushes' = pushes \ {q}
  BY <1>2, <1>4, FewerPushes, CountersAre
<1>5. CASE Admit(q) /\ Step(q, [q EXCEPT !.at = "begun"])
  <2> DEFINE r == [q EXCEPT !.at = "begun"]
  <2>1. r \in Push /\ r.at = "begun" /\ r.by = q.by /\ r.cred = q.cred /\ r.ver = q.ver
    BY <1>3 DEF Push
  <2>2. pushes' = (pushes \ {q}) \cup {r}
    BY <1>5 DEF Step
  <2> HIDE DEF r
  <2>3. PushMoves(q, r)
    BY <2>1, <2>2 DEF PushMoves
  <2>4. slot # "uninstall"
    BY <1>5 DEF Admit
  <2> QED
    BY <1>1, <1>2, <2>1, <2>3, <2>4, PushGoesOn
<1> QED
  BY <1>1, <1>4, <1>5

\* A process dies.
LEMMA DieStep == ASSUME LifeInv, Die PROVE LifeInv'
<1>1. /\ UNCHANGED << place, slot, task, jobs, agents, info, creds, machine, pushes, clock, sent,
                      crashed, proved >>
      /\ procs' \subseteq procs /\ mishaps < MaxMishaps /\ mishaps' = mishaps + 1
  BY DEF Die, Mishap
<1>2. mishaps' \in 0 .. MaxMishaps
  BY <1>1, NumbersAre
<1> QED
  BY <1>1, <1>2, FewerPushes

\* An observation gets its time, if its credential is good still.
LEMMA StampPushStep == ASSUME LifeInv, StampPush PROVE LifeInv'
<1> USE DEF LifeInv
<1>1. PICK q \in pushes :
        /\ q.at = "begun"
        /\ \/ ~ StillGood(q) /\ Reject(q) /\ UNCHANGED clock
           \/ /\ StillGood(q) /\ clock' = clock + 1 /\ UNCHANGED procs
              /\ Step(q, [q EXCEPT !.at = "stamped", !.now = clock + 1,
                                   !.saw = IF creds[q.cred] = "pending" THEN "pending"
                                           ELSE "active"])
  BY DEF StampPush
<1>2. UNCHANGED << place, slot, task, jobs, agents, info, creds, machine, sent, mishaps,
                   crashed, proved >>
  BY DEF StampPush
<1>3. q \in Push
  BY DEF LifecycleTypeOK
<1>4. CASE Reject(q) /\ UNCHANGED clock
  BY <1>2, <1>4, RejectIs, FewerPushes, CountersAre
<1>5. CASE StillGood(q) /\ clock' = clock + 1 /\ UNCHANGED procs
           /\ Step(q, [q EXCEPT !.at = "stamped", !.now = clock + 1,
                                !.saw = IF creds[q.cred] = "pending" THEN "pending" ELSE "active"])
  <2> DEFINE saw == IF creds[q.cred] = "pending" THEN "pending" ELSE "active"
             r == [q EXCEPT !.at = "stamped", !.now = clock + 1, !.saw = saw]
  <2>1. /\ clock \in Nat /\ sent \in Nat /\ sent <= MaxPushes /\ NextJob \in Nat /\ ToRecord \in Nat
        /\ NextJob <= MaxOps + 1 /\ MaxOps \in Nat /\ MaxPushes \in Nat
        /\ clock + Cardinality(Unstamped) + ToRecord <= sent + NextJob - 1
        /\ Cardinality(Unstamped) \in Nat /\ Times = 0 .. MaxPushes + MaxOps
    BY CountersAre
  <2>2. q \in Unstamped /\ IsFiniteSet(Unstamped)
    BY <1>1, CountersAre DEF Unstamped
  <2>3. pushes' = (pushes \ {q}) \cup {r}
    BY <1>5 DEF Step
  <2>4. r.at = "stamped" /\ r.by = q.by /\ r.cred = q.cred /\ r.saw = saw
    BY <1>3 DEF Push
  <2>5. Unstamped' \subseteq Unstamped \ {q}
    BY <2>3, <2>4 DEF Unstamped
  <2>6. /\ IsFiniteSet(Unstamped') /\ Cardinality(Unstamped') \in Nat
        /\ Cardinality(Unstamped') <= Cardinality(Unstamped) - 1
    BY <2>2, <2>5, CountsMove
  <2>7. clock + 1 \in Times
    BY <2>1, <2>6
  <2>8. r \in Push
    BY <1>3, <2>7 DEF Push
  <2>9. saw \in {"pending", "active"} /\ (saw = "active" => creds[q.cred] # "pending")
    OBVIOUS
  <2> HIDE DEF r, saw
  <2>10. /\ SlotFits' /\ NextJob' = NextJob /\ ToRecord' = ToRecord /\ HostFits' /\ LeftBehind'
    BY <1>2, <1>5, HandlerKeeps
  <2>11. LifecycleTypeOK'
    <3>1. pushes' \subseteq Push /\ clock' \in Times
      BY <1>5, <2>3, <2>7, <2>8 DEF LifecycleTypeOK
    <3> QED
      BY <1>2, <1>5, <3>1 DEF LifecycleTypeOK
  <2>12. JobsInOrder'
    BY <1>2, <2>10 DEF JobsInOrder
  <2>13. ClockFits'
    BY <1>2, <1>5, <2>1, <2>6, <2>10, SMTT(30) DEF ClockFits
  <2>14. IdsFit'
    BY <1>2, <1>5, <2>3, <2>4, <2>10 DEF IdsFit, Known
  <2>15. slot # "uninstall" \/ (task # None /\ task.at = "ready")
    BY <1>1 DEF PushesFit, Ingests
  <2>16. PushesFit'
    BY <1>2, <2>3, <2>4, <2>9, <2>15 DEF PushesFit, Ingests
  <2>17. agents.status # "not_installed"
    BY <1>5 DEF GoneFits, StillGood
  <2>18. GoneFits'
    BY <1>2, <2>17 DEF GoneFits, Runs
  <2>19. CredsFit' /\ TrialFits'
    BY <1>2, <1>5, <2>3, <2>4 DEF CredsFit, TrialFits, Runs, Born3
  <2> QED
    BY <2>10, <2>11, <2>12, <2>13, <2>14, <2>16, <2>18, <2>19
<1> QED
  BY <1>1, <1>4, <1>5

\* A push that has been stamped and goes on.
LEMMA StampedGoesOn ==
  ASSUME LifeInv, NEW q, NEW r, PushMoves(q, r),
         q.at \in {"stamped", "used"}, r.at \in {"used", "landed"},
         UNCHANGED << place, slot, task, jobs, info, machine, procs, clock, sent, mishaps, crashed >>,
         agents' = agents \/ agents'.status = "online"
  PROVE  /\ SlotFits' /\ NextJob' = NextJob /\ ToRecord' = ToRecord /\ HostFits' /\ LeftBehind'
         /\ ClockFits' /\ (slot # "uninstall" \/ (task # None /\ task.at = "ready"))
         /\ agents.status # "not_installed" /\ pushes' \subseteq Push /\ q \in Push
<1> USE DEF LifeInv, PushMoves
<1>1. /\ SlotFits' /\ NextJob' = NextJob /\ ToRecord' = ToRecord /\ HostFits' /\ LeftBehind'
  BY HandlerKeeps
<1>2. q \in Push /\ pushes' \subseteq Push
  BY DEF LifecycleTypeOK
<1>3. Unstamped' \subseteq Unstamped
  BY DEF Unstamped
<1>6. ClockFits'
  BY <1>1, <1>3, ClockStands
<1>7. slot # "uninstall" \/ (task # None /\ task.at = "ready")
  BY DEF PushesFit, Ingests
<1>8. agents.status # "not_installed"
  BY DEF GoneFits
<1> QED
  BY <1>1, <1>2, <1>6, <1>7, <1>8

\* A credential that was pending when it was read becomes active.
LEMMA UseCredentialStep == ASSUME LifeInv, UseCredential PROVE LifeInv'
<1> USE DEF LifeInv
<1>1. PICK q \in pushes :
        /\ q.at = "stamped" /\ Step(q, [q EXCEPT !.at = "used"])
        /\ creds' = IF q.saw = "pending" THEN [creds EXCEPT ![q.cred] = "active"] ELSE creds
  BY DEF UseCredential
<1>2. UNCHANGED << place, slot, task, jobs, agents, info, machine, procs, clock, sent,
                   mishaps, crashed, proved >>
  BY DEF UseCredential
<1>3. q \in Push /\ q.cred \in Ids
  BY DEF LifecycleTypeOK, Push
<1> DEFINE r == [q EXCEPT !.at = "used"]
<1>4. r \in Push /\ r.at = "used" /\ r.by = q.by /\ r.cred = q.cred /\ r.ver = q.ver
  BY <1>3 DEF Push
<1>5. pushes' = (pushes \ {q}) \cup {r}
  BY <1>1 DEF Step
<1> HIDE DEF r
<1>6. PushMoves(q, r)
  BY <1>4, <1>5 DEF PushMoves
<1>7. /\ SlotFits' /\ NextJob' = NextJob /\ ToRecord' = ToRecord /\ HostFits' /\ LeftBehind'
      /\ ClockFits' /\ (slot # "uninstall" \/ (task # None /\ task.at = "ready"))
      /\ agents.status # "not_installed" /\ pushes' \subseteq Push
  BY <1>1, <1>2, <1>4, <1>6, StampedGoesOn
<1>8. /\ creds \in [Ids -> {"unused", "pending", "active", "revoked"}]
      /\ creds' \in [Ids -> {"unused", "pending", "active", "revoked"}]
      /\ \A c \in Ids : creds'[c] = creds[c] \/ (c = q.cred /\ creds'[c] = "active")
      /\ creds'[q.cred] # "pending"
  BY <1>1, <1>3 DEF LifecycleTypeOK, PushesFit, Push
<1>9. Known(q.cred)
  BY DEF IdsFit
<1>10. LifecycleTypeOK'
  BY <1>2, <1>7, <1>8 DEF LifecycleTypeOK
<1>11. JobsInOrder'
  <2>1. q.cred < NextJob /\ NextJob \in Int /\ Ids \subseteq Int
    BY <1>9, CountersAre DEF Known
  <2>2. \A c \in Ids : c >= NextJob => creds'[c] = creds[c]
    BY <1>3, <1>8, <2>1
  <2>3. \A c \in Ids : c > NextJob => c >= NextJob
    BY <2>1
  <2>4. \A c \in Ids : c = NextJob => c >= NextJob
    BY <2>1
  <2>5. UNCHANGED <<task, jobs>> /\ NextJob' = NextJob
    BY <1>2, <1>7
  <2> QED
    BY <2>2, <2>3, <2>4, <2>5 DEF JobsInOrder
<1>12. \A c \in Ids : Known(c) => Known(c)'
  BY <1>7, <1>8 DEF Known
<1>13. IdsFit'
  <2>1. \A p \in procs : p.cred \in Ids
    BY DEF LifecycleTypeOK, Process
  <2>2. machine.conf # None => machine.conf \in Ids
    BY DEF LifecycleTypeOK, Machine
  <2>3. \A u \in pushes' : Known(u.cred)'
    BY <1>3, <1>4, <1>5, <1>12 DEF IdsFit, LifecycleTypeOK, Push
  <2> QED
    BY <1>2, <1>4, <1>5, <1>7, <1>12, <2>1, <2>2, <2>3 DEF IdsFit
<1>14. PushesFit'
  BY <1>2, <1>3, <1>4, <1>5, <1>7, <1>8 DEF PushesFit, Ingests, LifecycleTypeOK, Push
<1>15. GoneFits'
  BY <1>2, <1>7 DEF GoneFits, Runs
<1>16. CredsFit'
  <2>1. task # None => task.cred \in Ids
    BY AtWorkIs
  <2>2. ~ (Runs("uninstall") /\ task.at \in {"gone", "audit"})
    BY <1>7 DEF Runs
  <2> QED
    BY <1>2, <1>8, <2>1, <2>2 DEF CredsFit, Runs, Usable
<1>17. TrialFits'
  <2>1. task # None => task.cred \in Ids
    BY AtWorkIs
  <2> QED
    BY <1>2, <1>4, <1>5, <1>8, <2>1 DEF TrialFits, Runs, Born3
<1> QED
  BY <1>7, <1>10, <1>11, <1>13, <1>14, <1>15, <1>16, <1>17

\* An observation becomes the agent's state.
LEMMA LandPushStep == ASSUME LifeInv, LandPush PROVE LifeInv'
<1> USE DEF LifeInv
<1>1. PICK q \in pushes :
        /\ q.at = "used" /\ Step(q, [q EXCEPT !.at = "landed"])
        /\ agents' = [status |-> "online", version |-> q.ver, seen |-> q.now]
        /\ proved' = proved \cup {q.by}
  BY DEF LandPush
<1>2. UNCHANGED << place, slot, task, jobs, info, creds, machine, procs, clock, sent,
                   mishaps, crashed >>
  BY DEF LandPush
<1>3. q \in Push
  BY DEF LifecycleTypeOK
<1> DEFINE r == [q EXCEPT !.at = "landed"]
<1>4. r \in Push /\ r.at = "landed" /\ r.by = q.by /\ r.cred = q.cred /\ r.ver = q.ver
  BY <1>3 DEF Push
<1>5. pushes' = (pushes \ {q}) \cup {r}
  BY <1>1 DEF Step
<1> HIDE DEF r
<1>6. PushMoves(q, r)
  BY <1>4, <1>5 DEF PushMoves
<1>7. agents' \in AgentState /\ agents'.status = "online" /\ proved' \subseteq Births
  BY <1>1, <1>3 DEF AgentState, Push, LifecycleTypeOK
<1>8. /\ SlotFits' /\ NextJob' = NextJob /\ ToRecord' = ToRecord /\ HostFits' /\ LeftBehind'
      /\ ClockFits' /\ (slot # "uninstall" \/ (task # None /\ task.at = "ready"))
      /\ agents.status # "not_installed" /\ pushes' \subseteq Push
  BY <1>1, <1>2, <1>4, <1>6, <1>7, StampedGoesOn
<1>9. LifecycleTypeOK'
  BY <1>2, <1>7, <1>8 DEF LifecycleTypeOK
<1>10. JobsInOrder'
  BY <1>2, <1>8 DEF JobsInOrder
<1>11. IdsFit'
  BY <1>1, <1>2, <1>4, <1>5, <1>8 DEF IdsFit, Known
<1>12. PushesFit'
  BY <1>1, <1>2, <1>4, <1>5, <1>8 DEF PushesFit, Ingests
<1>13. GoneFits'
  BY <1>2, <1>7 DEF GoneFits, Runs
<1>14. CredsFit'
  BY <1>2 DEF CredsFit, Runs
<1>15. TrialFits'
  BY <1>1, <1>2, <1>4, <1>5 DEF TrialFits, Runs, Born3, PushesFit
<1> QED
  BY <1>8, <1>9, <1>10, <1>11, <1>12, <1>13, <1>14, <1>15

\* System information is written and the ingest is over.
LEMMA EndIngestStep == ASSUME LifeInv, EndIngest PROVE LifeInv'
<1> USE DEF LifeInv
<1>1. PICK q \in pushes : q.at = "landed" /\ pushes' = pushes \ {q}
  BY DEF EndIngest
<1>2. /\ info' = TRUE
      /\ UNCHANGED << place, slot, task, jobs, agents, creds, machine, procs, clock, sent,
                      mishaps, crashed, proved >>
  BY DEF EndIngest
<1>3. /\ SlotFits' /\ NextJob' = NextJob /\ ToRecord' = ToRecord /\ HostFits' /\ LeftBehind'
  BY <1>2, HandlerKeeps
<1>4. LifecycleTypeOK'
  <2>1. info' \in BOOLEAN
    BY <1>2
  <2> QED
    BY <1>1, <1>2, <2>1 DEF LifecycleTypeOK
<1>5. JobsInOrder'
  BY <1>2, <1>3 DEF JobsInOrder
<1>6. ClockFits'
  <2>1. Unstamped' \subseteq Unstamped
    BY <1>1 DEF Unstamped
  <2> QED
    BY <1>2, <1>3, <2>1, ClockStands
<1>7. IdsFit'
  BY <1>1, <1>2, <1>3 DEF IdsFit, Known
<1>8. PushesFit'
  BY <1>1, <1>2 DEF PushesFit, Ingests
<1>9. GoneFits'
  BY <1>1, <1>2 DEF GoneFits, Runs
<1>10. CredsFit' /\ TrialFits'
  BY <1>1, <1>2 DEF CredsFit, TrialFits, Runs, Born3
<1> QED
  BY <1>3, <1>4, <1>5, <1>6, <1>7, <1>8, <1>9, <1>10

\* The API crashes.
LEMMA CrashStep == ASSUME LifeInv, Crash PROVE LifeInv'
<1> USE DEF LifeInv
<1>1. /\ mishaps < MaxMishaps /\ mishaps' = mishaps + 1 /\ crashed' = TRUE
      /\ slot' = None /\ task' = None /\ pushes' = {}
      /\ UNCHANGED <<place, jobs, agents, info, creds, machine, procs, clock, sent, proved>>
  BY DEF Crash, Mishap
<1>2. mishaps \in Nat /\ mishaps' \in 0 .. MaxMishaps
  BY <1>1, CountersAre
<1>3. None \notin Ops /\ None \notin {"install", "uninstall", "upgrade", "restart", "rotate"}
  BY OpsAre
<1>4. LifecycleTypeOK'
  <2>1. crashed' \in BOOLEAN
    BY <1>1
  <2> QED
    BY <1>1, <1>2, <2>1 DEF LifecycleTypeOK
<1>5. NextJob' = NextJob /\ ToRecord' = 0
  BY <1>1 DEF NextJob, ToRecord, Runs
<1>6. SlotFits'
  BY <1>1 DEF SlotFits
<1>7. JobsInOrder'
  BY <1>1, <1>5 DEF JobsInOrder
<1>8. ClockFits'
  <2>1. Unstamped' = {}
    BY <1>1 DEF Unstamped
  <2> QED
    <3>1. ToRecord' = 0
      BY <1>1 DEF ToRecord, Runs
    <3>2. IsFiniteSet(Unstamped') /\ Cardinality(Unstamped') = 0
      BY <2>1, FS_EmptySet
    <3>3. clock <= sent + NextJob - 1 /\ clock \in Nat
      BY NumbersAre
    <3> QED
      BY <1>1, <1>5, <3>1, <3>2, <3>3 DEF ClockFits
<1>9. IdsFit'
  BY <1>1, <1>5 DEF IdsFit, Known
<1>10. PushesFit'
  BY <1>1 DEF PushesFit, Ingests
<1>11. GoneFits'
  BY <1>1 DEF GoneFits, Runs
<1>12. HostFits'
  BY <1>1 DEF HostFits, Runs, Loops
<1>13. CredsFit' /\ TrialFits'
  BY <1>1 DEF CredsFit, TrialFits, Runs
<1>14. LeftBehind'
  BY <1>1, <1>2 DEF LeftBehind
<1> QED
  BY <1>4, <1>6, <1>7, <1>8, <1>9, <1>10, <1>11, <1>12, <1>13, <1>14

\* The steps of an operation are names, and none is the first two of every operation.
LEMMA StepsAre ==
  /\ StepsOf["install"] = {"upload", "config", "try", "trying", "launch", "online", "revoke", "note"}
  /\ StepsOf["uninstall"] = {"stop", "remove", "retire", "gone", "note"}
  /\ StepsOf["upgrade"] = {"lock", "stage", "try", "trying", "inspect", "stop", "baseline", "swap",
                           "start", "verify", "clean", "unlock", "unstage", "loosen", "back",
                           "restore", "base", "again", "check", "tidy"}
  /\ StepsOf["restart"] = {"lock", "inspect", "stop", "baseline", "start", "verify",
                           "unlock", "loosen"}
  /\ StepsOf["rotate"] = {"apply", "activate", "turn", "revoke"}
  /\ \A op \in Ops : \A to \in StepsOf[op] \cup {"queued", "audit", "failed"} :
       to \in TaskSteps /\ to \notin Fresh
<1>1. /\ StepsOf["install"] = {"upload", "config", "try", "trying", "launch", "online", "revoke", "note"}
      /\ StepsOf["uninstall"] = {"stop", "remove", "retire", "gone", "note"}
      /\ StepsOf["upgrade"] = {"lock", "stage", "try", "trying", "inspect", "stop", "baseline", "swap",
                               "start", "verify", "clean", "unlock", "unstage", "loosen", "back",
                               "restore", "base", "again", "check", "tidy"}
      /\ StepsOf["restart"] = {"lock", "inspect", "stop", "baseline", "start", "verify",
                               "unlock", "loosen"}
      /\ StepsOf["rotate"] = {"apply", "activate", "turn", "revoke"}
  BY DEF StepsOf
<1>2. ASSUME NEW op \in Ops
      PROVE  \A to \in StepsOf[op] \cup {"queued", "audit", "failed"} : to \in TaskSteps /\ to \notin Fresh
  <2>1. CASE op = "install"
    <3>1. StepsOf[op] = StepsOf["install"]
      BY <2>1
    <3> QED
      BY <1>1, <3>1 DEF Fresh, TaskSteps
  <2>2. CASE op = "uninstall"
    <3>1. StepsOf[op] = StepsOf["uninstall"]
      BY <2>2
    <3> QED
      BY <1>1, <3>1 DEF Fresh, TaskSteps
  <2>3. CASE op = "upgrade"
    <3>1. StepsOf[op] = StepsOf["upgrade"]
      BY <2>3
    <3> QED
      BY <1>1, <3>1 DEF Fresh, TaskSteps
  <2>4. CASE op = "restart"
    <3>1. StepsOf[op] = StepsOf["restart"]
      BY <2>4
    <3> QED
      BY <1>1, <3>1 DEF Fresh, TaskSteps
  <2>5. CASE op = "rotate"
    <3>1. StepsOf[op] = StepsOf["rotate"]
      BY <2>5
    <3> QED
      BY <1>1, <3>1 DEF Fresh, TaskSteps
  <2> QED
    BY <2>1, <2>2, <2>3, <2>4, <2>5, OpsAre
<1> QED
  BY <1>1, <1>2

\* The clock keeps within its bound when a record that is due is made or given up.
LEMMA ClockRests ==
  ASSUME LifeInv, UNCHANGED <<clock, sent, pushes>>, NextJob' = NextJob \/ NextJob' = NextJob + 1,
         ToRecord' \in {0, ToRecord} \/ (ToRecord' = 1 /\ NextJob' = NextJob + 1)
  PROVE  ClockFits'
<1>1. /\ clock \in Nat /\ sent \in Nat /\ NextJob \in Nat /\ ToRecord \in Nat
      /\ Cardinality(Unstamped) \in Nat /\ IsFiniteSet(Unstamped)
      /\ clock + Cardinality(Unstamped) + ToRecord <= sent + NextJob - 1
  BY NumbersAre
<1>2. Unstamped' = Unstamped
  BY DEF Unstamped
<1> QED
  BY <1>1, <1>2 DEF ClockFits

\* What is known of processes, pushes and files stays known.
LEMMA IdsRest ==
  ASSUME LifeInv, UNCHANGED <<machine, procs, pushes, proved>>,
         NextJob' = NextJob \/ NextJob' = NextJob + 1,
         \A c \in Ids : creds[c] # "unused" => creds'[c] # "unused"
  PROVE  IdsFit'
<1>1. NextJob \in Nat /\ Ids \subseteq Int /\ Births \subseteq Int
  BY CountersAre
<1>2. /\ \A p \in procs : p.cred \in Ids /\ p.id \in Births
      /\ \A q \in pushes : q.cred \in Ids /\ q.by \in Births
      /\ proved \subseteq Births /\ machine.conf \in Ids \cup {None}
  BY DEF LifeInv, LifecycleTypeOK, Process, Push, Machine
<1>3. \A c \in Ids : Known(c) => Known(c)'
  BY <1>1 DEF Known
<1>4. \A b \in Births : b <= 3 * (NextJob - 1) => b <= 3 * (NextJob' - 1)
  BY <1>1
<1> QED
  BY <1>2, <1>3, <1>4 DEF LifeInv, IdsFit

\* An operation that ends, from where it leaves no lock and no mark, or by a mishap,
\* when its credential is not left pending.
LEMMA ReleaseStep ==
  ASSUME LifeInv, task # None, Release, UNCHANGED working,
         agents' = agents \/ agents' = NeverThere,
         \/ mishaps' = mishaps /\ task.at \in {"ready", "prepared", "audit", "failed"}
         \/ mishaps' = mishaps + 1 /\ mishaps < MaxMishaps,
         jobs' \in [1 .. MaxOps -> {"none", "queued", "running", "succeeded", "failed"}],
         NextJob' = NextJob \/ NextJob' = NextJob + 1,
         \A o \in 1 .. MaxOps : jobs'[o] # "none" <=> o < NextJob', NextJob' \in 1 .. MaxOps + 1,
         creds' = creds \/ (creds' = [creds EXCEPT ![task.cred] = "revoked"] /\ task.cred < NextJob'),
         \A c \in Ids : creds'[c] = "pending" => crashed
  PROVE  LifeInv'
<1> USE DEF LifeInv
<1>1. /\ UNCHANGED <<place, clock, sent, crashed, proved, pushes, info, machine, procs>>
      /\ slot' = None /\ task' = None
  BY DEF working, pushing, Release
<1>2. agents' = agents \/ (agents' \in AgentState /\ agents'.status = "failed" /\ agents'.seen = 0)
  <2>1. NeverThere \in AgentState /\ NeverThere.status = "failed" /\ NeverThere.seen = 0
    <3>1. 0 \in Versions /\ 0 \in Times
      BY LifecycleAssumption DEF Versions, Times
    <3> QED
      BY <3>1 DEF NeverThere, Absent, AgentState
  <2> QED
    BY <2>1
<1>3. mishaps \in Nat /\ mishaps' \in 0 .. MaxMishaps
  <2>1. mishaps \in 0 .. MaxMishaps /\ MaxMishaps \in Nat
    BY CountersAre
  <2>2. mishaps' = mishaps \/ (mishaps' = mishaps + 1 /\ mishaps < MaxMishaps)
    OBVIOUS
  <2> QED
    BY <2>1, <2>2
<1>4. None \notin Ops /\ None \notin {"install", "uninstall", "upgrade", "restart", "rotate"}
  BY OpsAre
<1>5. task.cred \in Ids /\ NextJob \in Nat /\ Ids \subseteq Int
  <2>1. task.cred \in Ids
    BY AtWorkIs
  <2>2. NextJob \in Nat /\ Ids \subseteq Int
    BY CountersAre
  <2> QED
    BY <2>1, <2>2
<1>6. /\ creds' \in [Ids -> {"unused", "pending", "active", "revoked"}]
      /\ \A c \in Ids : creds'[c] = creds[c] \/ (creds'[c] = "revoked" /\ c < NextJob')
  BY <1>5 DEF LifecycleTypeOK
<1>7. agents' \in AgentState
  BY <1>2 DEF LifecycleTypeOK
<1>8. LifecycleTypeOK'
  BY <1>1, <1>3, <1>6, <1>7 DEF LifecycleTypeOK
<1>9. SlotFits'
  BY <1>1, <1>2 DEF SlotFits
<1>10. JobsInOrder'
  <2>1. \A c \in Ids : c >= NextJob' => creds'[c] = creds[c] /\ c >= NextJob
    BY <1>5, <1>6
  <2>2. \A c \in Ids : c > NextJob' => creds'[c] = creds[c] /\ c > NextJob
    BY <1>5, <1>6
  <2> QED
    BY <1>1, <2>1, <2>2 DEF JobsInOrder
<1>11. ClockFits'
  <2>1. ToRecord' = 0 /\ ToRecord \in 0 .. 1
    BY <1>1 DEF ToRecord, Runs
  <2> QED
    BY <1>1, <1>5, <1>2, <2>1, ClockRests
<1>12. IdsFit'
  BY <1>1, <1>6, IdsRest
<1>13. PushesFit'
  BY <1>1, <1>4, <1>6, <1>2 DEF PushesFit, Ingests, LifecycleTypeOK, Push
<1>14. GoneFits'
  BY <1>1, <1>6, <1>2 DEF GoneFits, Runs, LifecycleTypeOK, Push, Process
<1>15. HostFits'
  BY <1>1, <1>2 DEF HostFits, Runs, Loops
<1>16. CredsFit' /\ TrialFits'
  BY <1>1, <1>2 DEF CredsFit, TrialFits, Runs
<1>17. LeftBehind'
  BY <1>1, <1>3, <1>2 DEF LeftBehind
<1> QED
  BY <1>8, <1>9, <1>10, <1>11, <1>12, <1>13, <1>14, <1>15, <1>16, <1>17

\* A slot is taken.
LEMMA TryAcquireStep == ASSUME LifeInv, TryAcquire PROVE LifeInv'
<1> USE DEF LifeInv
<1>1. PICK op \in OpsHere(place) :
        /\ slot' = op
        /\ task' = [ op |-> op, at |-> "ready", job |-> NextJob, cred |-> NextJob,
                     prior |-> Absent, old |-> {}, base |-> 0, ver |-> 0 ]
  BY DEF TryAcquire
<1>2. /\ UNCHANGED <<place, clock, sent, crashed, proved, pushes, info, machine, procs, agents,
                     jobs, creds, mishaps>>
      /\ slot = None /\ NextJob \in 1 .. MaxOps
  BY DEF TryAcquire, working, pushing
<1>3. place \in {"local", "remote"}
  BY LifecycleAssumption DEF LifecycleTypeOK
<1>4. op \in Ops /\ None \notin Ops
  BY <1>3, OpsAre
<1>5. task = None
  BY <1>2, <1>4, AtWorkIs
<1>6. task' \in Task /\ task' # None /\ task'.at = "ready" /\ task'.op = op /\ task'.job = NextJob
      /\ task'.cred = NextJob /\ task'.old = {}
  <2>1. 0 \in Times /\ NextJob \in Ids
    BY <1>2, CountersAre
  <2>2. Absent \in AgentState
    BY <2>1 DEF Absent, AgentState, Versions
  <2>3. task' \in Task
    BY <1>1, <1>2, <1>4, <2>1, <2>2 DEF Task, Versions, TaskSteps
  <2>4. None \notin Task
    BY LifecycleAssumption DEF Task
  <2> QED
    BY <1>1, <2>3, <2>4
<1>7. NextJob' = NextJob
  BY <1>2 DEF NextJob
<1>8. LifecycleTypeOK'
  BY <1>1, <1>2, <1>4, <1>6 DEF LifecycleTypeOK
<1>9. SlotFits'
  BY <1>1, <1>2, <1>6 DEF SlotFits
<1>10. JobsInOrder'
  BY <1>2, <1>6, <1>7 DEF JobsInOrder, Fresh
<1>11. ClockFits'
  <2>1. ToRecord' = 0 /\ ToRecord = 0
    BY <1>1, <1>5, <1>6 DEF ToRecord, Runs
  <2> QED
    BY <1>2, <1>7, <2>1, ClockRests, CountersAre
<1>12. IdsFit'
  BY <1>2, <1>7, IdsRest
<1>13. PushesFit'
  BY <1>2, <1>6 DEF PushesFit, Ingests
<1>14. GoneFits'
  BY <1>2, <1>6 DEF GoneFits, Runs, Fresh
<1>15. HostFits'
  BY <1>2, <1>6 DEF HostFits, Runs, Loops
<1>16. CredsFit' /\ TrialFits'
  BY <1>2, <1>4, <1>6, OpsAre DEF CredsFit, TrialFits, Runs
<1>17. LeftBehind'
  BY <1>2, <1>5 DEF LeftBehind, Runs
<1> QED
  BY <1>8, <1>9, <1>10, <1>11, <1>12, <1>13, <1>14, <1>15, <1>16, <1>17

\* A task that is refused, or prepared: its agent and credentials are looked at, and
\* its credential made.
LEMMA PrepareStep == ASSUME LifeInv, task # None, Prepare PROVE LifeInv'
<1> USE DEF LifeInv
<1>1. task.at = "ready" /\ Ready /\ UNCHANGED <<working, jobs, agents, mishaps>>
  BY DEF Prepare, At
<1>2. NextJob' = NextJob
  BY <1>1 DEF NextJob
<1>3. NextJob \in Nat /\ Ids \subseteq Int /\ task.cred \in Ids /\ task \in Task
      /\ slot = task.op /\ slot \in Ops
  <2>1. NextJob \in Nat /\ Ids \subseteq Int
    BY NumbersAre
  <2>2. task.cred \in Ids /\ task \in Task /\ slot = task.op /\ slot \in Ops
    BY AtWorkIs
  <2> QED
    BY <2>1, <2>2
<1>4. task.job = NextJob /\ task.cred = NextJob
  BY <1>1 DEF JobsInOrder, Fresh
<1>5. \A c \in Ids : creds[c] = "pending" => crashed
  BY <1>1 DEF CredsFit, LifecycleTypeOK
<1>6. CASE ~ Eligible /\ Release /\ UNCHANGED creds
  <2>1. jobs' \in [1 .. MaxOps -> {"none", "queued", "running", "succeeded", "failed"}]
    BY <1>1 DEF LifecycleTypeOK
  <2>2. (\A o \in 1 .. MaxOps : jobs'[o] # "none" <=> o < NextJob') /\ NextJob' \in 1 .. MaxOps + 1
    BY <1>1, <1>2 DEF JobsInOrder
  <2>3. UNCHANGED <<working, agents>> /\ mishaps' = mishaps
    BY <1>1
  <2>4. Release /\ creds' = creds
    BY <1>6
  <2>5. \A c \in Ids : creds'[c] = "pending" => crashed
    BY <1>5, <2>4
  <2>6. mishaps' = mishaps /\ task.at \in {"ready", "prepared", "audit", "failed"}
    BY <1>1
  <2> HIDE DEF LifeInv
  <2> QED
    BY <1>2, <2>1, <2>2, <2>3, <2>4, <2>5, <2>6, ReleaseStep
<1>7. CASE Eligible /\ UNCHANGED slot /\ creds' = Issued
           /\ task' = [ task EXCEPT !.at = "prepared", !.prior = agents,
                          !.ver = IF task.op = "upgrade" THEN Shipped ELSE agents.version,
                          !.old = { c \in Ids : creds[c] = "active" } ]
  <2>1. /\ task' \in Task /\ task'.at = "prepared" /\ task'.op = task.op /\ task'.job = task.job
        /\ task'.cred = task.cred /\ task'.old = { c \in Ids : creds[c] = "active" }
    <3>1. agents \in AgentState /\ agents.version \in Versions /\ Shipped \in Versions
      BY DEF LifecycleTypeOK, AgentState, Versions
    <3>2. (IF task.op = "upgrade" THEN Shipped ELSE agents.version) \in Versions
      BY <3>1
    <3>3. { c \in Ids : creds[c] = "active" } \in SUBSET Ids
      OBVIOUS
    <3>4. PICK v \in Versions, o \in SUBSET Ids :
            /\ o = { c \in Ids : creds[c] = "active" }
            /\ task' = [ task EXCEPT !.at = "prepared", !.prior = agents, !.ver = v, !.old = o ]
      BY <1>7, <3>2, <3>3
    <3>5. "prepared" \in TaskSteps
      BY DEF TaskSteps
    <3> QED
      BY <1>3, <3>1, <3>4, <3>5 DEF Task
  <2>2. task' # None
    BY <2>1, LifecycleAssumption
  <2>3. /\ UNCHANGED <<place, clock, sent, crashed, proved, pushes, info, machine, procs, agents, jobs,
                       mishaps, slot>>
    BY <1>1, <1>7 DEF working, pushing
  <2>4. /\ creds' \in [Ids -> {"unused", "pending", "active", "revoked"}]
        /\ \A c \in Ids : creds'[c] = creds[c]
                          \/ (c = task.cred /\ creds'[c] = "pending" /\ slot \in {"install", "rotate"})
        /\ slot \in {"install", "rotate"} => creds'[task.cred] = "pending"
    BY <1>3, <1>7 DEF LifecycleTypeOK, Issued
  <2>5. creds[task.cred] \in {"unused", "pending"}
    BY <1>3, <1>4 DEF JobsInOrder
  <2>6. LifecycleTypeOK'
    BY <2>1, <2>3, <2>4 DEF LifecycleTypeOK
  <2>7. SlotFits'
    BY <2>1, <2>3, <1>3 DEF SlotFits
  <2>8. JobsInOrder'
    <3>1. \A c \in Ids : creds[c] = "active" => c < NextJob
      <4>1. \A c \in Ids : c >= NextJob => creds[c] # "active"
        BY DEF JobsInOrder
      <4>2. \A c \in Ids : c < NextJob \/ c >= NextJob
        BY <1>3
      <4> QED
        BY <4>1, <4>2
    <3>2. \A c \in Ids : c > NextJob => creds'[c] = creds[c]
      BY <1>3, <1>4, <2>4
    <3>3. \A c \in Ids : c >= NextJob => creds'[c] \in {"unused", "pending"}
      BY <1>3, <2>4 DEF JobsInOrder
    <3> QED
      BY <1>2, <1>4, <2>1, <2>3, <3>1, <3>2, <3>3 DEF JobsInOrder, Fresh
  <2>9. ClockFits'
    <3>1. ToRecord' = 0
      BY <2>1 DEF ToRecord
    <3> QED
      BY <1>2, <2>3, <3>1, ClockRests
  <2>10. IdsFit'
    BY <1>2, <2>3, <2>4, IdsRest
  <2>11. \A c \in Ids : Known(c) => c # task.cred
    BY <1>3, <1>4 DEF Known
  <2>12. PushesFit'
    <3>1. \A q \in pushes : q.cred \in Ids /\ q.cred # task.cred
      BY <2>11 DEF IdsFit, LifecycleTypeOK, Push
    <3>2. slot = "uninstall" => Ingests' = {}
      BY <1>1, <1>3, <2>3 DEF Ready, Ingests
    <3> QED
      BY <2>3, <2>4, <3>1, <3>2 DEF PushesFit
  <2>13. GoneFits'
    <3>1. \A q \in pushes : q.cred \in Ids /\ q.cred # task.cred
      BY <2>11 DEF IdsFit, LifecycleTypeOK, Push
    <3>2. \A p \in procs : p.cred \in Ids /\ p.cred # task.cred
      BY <2>11 DEF IdsFit, LifecycleTypeOK, Process
    <3>3. slot = "upgrade" \/ slot = "restart" => agents.status # "not_installed"
      BY <1>3, <1>7 DEF Eligible
    <3> QED
      BY <2>1, <2>3, <2>4, <3>1, <3>2, <3>3 DEF GoneFits, Runs, Fresh
  <2>14. HostFits'
    BY <2>1, <2>3 DEF HostFits, Runs, Loops
  <2>15. CredsFit'
    <3>1. \A c \in Ids : creds'[c] = "pending" /\ ~ crashed
                         => slot \in {"install", "rotate"} /\ c = task.cred
      BY <1>5, <2>4
    <3>2. task.cred \notin task'.old
      BY <2>1, <2>5
    <3> QED
      BY <1>3, <2>1, <2>2, <2>3, <2>4, <3>1, <3>2 DEF CredsFit, Runs, Usable
  <2>16. TrialFits'
    BY <2>1 DEF TrialFits
  <2>17. LeftBehind'
    BY <1>1, <2>3 DEF LeftBehind, Runs
  <2> QED
    BY <2>6, <2>7, <2>8, <2>9, <2>10, <2>12, <2>13, <2>14, <2>15, <2>16, <2>17
<1> QED
  BY <1>6, <1>7 DEF Prepare

\* A job is created and handed to the runner.
LEMMA DispatchStep ==
  ASSUME LifeInv, task # None, At("prepared"), Dispatch, UNCHANGED working PROVE LifeInv'
<1> USE DEF LifeInv
<1>1. /\ task.at = "prepared" /\ task' = [task EXCEPT !.at = "queued"]
      /\ jobs' = [jobs EXCEPT ![task.job] = "queued"]
      /\ agents' = IF task.op \in {"install", "uninstall"} THEN Installing ELSE agents
      /\ UNCHANGED <<creds, slot, mishaps>>
      /\ UNCHANGED <<place, clock, sent, crashed, proved, pushes, info, machine, procs>>
  BY DEF At, Go, Dispatch, Busy, working, pushing
<1>2. NextJob \in Nat /\ Ids \subseteq Int /\ task.cred \in Ids /\ task \in Task
      /\ slot = task.op /\ slot \in Ops
  <2>1. NextJob \in Nat /\ Ids \subseteq Int
    BY NumbersAre
  <2>2. task.cred \in Ids /\ task \in Task /\ slot = task.op /\ slot \in Ops
    BY AtWorkIs
  <2> QED
    BY <2>1, <2>2
<1>3. task.job = NextJob /\ task.cred = NextJob /\ task.job \in 1 .. MaxOps
  BY <1>1, AtWorkIs DEF JobsInOrder, Fresh
<1>4. NextJob' = NextJob + 1 /\ \A o \in 1 .. MaxOps : jobs'[o] # "none" <=> o < NextJob'
  BY <1>1, <1>3, JobIsNext
<1>5. /\ task' \in Task /\ task'.at = "queued" /\ task'.op = task.op /\ task'.job = task.job
      /\ task'.cred = task.cred /\ task'.old = task.old /\ task' # None
  <2>1. task' \in Task
    BY <1>1, <1>2 DEF Task, TaskSteps
  <2> QED
    BY <1>1, <1>2, <2>1, LifecycleAssumption DEF Task
<1>6. agents' = Installing \/ agents' = agents
  BY <1>1
<1>7. Installing \in AgentState /\ Installing.status = "installing"
  <2>1. 0 \in Times
    BY CountersAre
  <2> QED
    BY <2>1 DEF Installing, AgentState, Versions
<1>8. LifecycleTypeOK'
  BY <1>1, <1>3, <1>5, <1>6, <1>7 DEF LifecycleTypeOK
<1>9. SlotFits'
  BY <1>1, <1>2, <1>5, <1>6, <1>7 DEF SlotFits
<1>10. JobsInOrder'
  <2>1. NextJob' \in 1 .. MaxOps + 1
    BY <1>3, <1>4, LifecycleAssumption
  <2>2. \A c \in Ids : c >= NextJob' => c > NextJob
    BY <1>2, <1>4
  <2>3. \A c \in Ids : c > NextJob' \/ c = NextJob' => c > NextJob
    BY <1>2, <1>4
  <2>4. \A c \in task'.old : c < NextJob'
    <3>1. \A c \in task.old : c < NextJob /\ c \in Int
      BY <1>2 DEF JobsInOrder, Task
    <3> QED
      BY <1>2, <1>4, <1>5, <3>1
  <2>5. task'.job < NextJob'
    BY <1>2, <1>3, <1>4, <1>5
  <2> QED
    BY <1>1, <1>3, <1>4, <1>5, <2>1, <2>2, <2>3, <2>4, <2>5 DEF JobsInOrder, Fresh
<1>11. ClockFits'
  <2>1. ToRecord' \in {0, 1}
    BY DEF ToRecord
  <2> QED
    BY <1>1, <1>4, <2>1, ClockRests
<1>12. IdsFit'
  BY <1>1, <1>4, IdsRest
<1>13. PushesFit'
  BY <1>1, <1>5 DEF PushesFit, Ingests
<1>14. GoneFits'
  <2>1. (Runs("install") /\ task.at \notin Fresh)' => agents'.status # "not_installed"
    BY <1>1, <1>2, <1>7 DEF Runs
  <2> QED
    BY <1>1, <1>2, <1>5, <1>6, <1>7, <2>1 DEF GoneFits, Runs, Fresh
<1>15. HostFits'
  BY <1>1, <1>5 DEF HostFits, Runs, Loops
<1>16. CredsFit'
  BY <1>1, <1>5 DEF CredsFit, Runs
<1>17. TrialFits'
  <2>1. /\ \A p \in procs : p.id # 3 * (task.job - 1) + 1
        /\ \A q \in pushes : q.by # 3 * (task.job - 1) + 1
        /\ 3 * (task.job - 1) + 1 \notin proved
    <3>1. \A b \in Births : b <= 3 * (NextJob - 1) => b # 3 * (NextJob - 1) + 1
      BY <1>2, NumbersAre
    <3> QED
      BY <1>3, <3>1 DEF IdsFit, LifecycleTypeOK, Process, Push
  <2> QED
    BY <1>1, <1>5, <2>1 DEF TrialFits, Born3
<1>18. LeftBehind'
  BY <1>1, <1>2, <1>5, <1>7 DEF LeftBehind, Runs
<1> QED
  BY <1>8, <1>9, <1>10, <1>11, <1>12, <1>13, <1>14, <1>15, <1>16, <1>17, <1>18

\* The setup of an operation fails: its job has failed and its credential is withdrawn.
LEMMA SetupFailsStep ==
  ASSUME LifeInv, task # None, At("prepared"), SetupFails, UNCHANGED working PROVE LifeInv'
<1> USE DEF LifeInv
<1>1. /\ task.at = "prepared" /\ jobs' = [jobs EXCEPT ![task.job] = "failed"]
      /\ mishaps' = mishaps + 1 /\ mishaps < MaxMishaps /\ creds' = Withdrawn /\ Release
      /\ UNCHANGED working /\ (agents' = agents \/ agents' = NeverThere)
  BY DEF At, SetupFails, Mishap
<1>2. NextJob \in Nat /\ task.cred \in Ids /\ task \in Task
      /\ slot = task.op /\ slot \in Ops
  <2>1. NextJob \in Nat /\ Ids \subseteq Int
    BY NumbersAre
  <2>2. task.cred \in Ids /\ task \in Task /\ slot = task.op /\ slot \in Ops
    BY AtWorkIs
  <2> QED
    BY <2>1, <2>2
<1>3. task.job = NextJob /\ task.cred = NextJob /\ task.job \in 1 .. MaxOps
  BY <1>1, AtWorkIs DEF JobsInOrder, Fresh
<1>4. NextJob' = NextJob + 1 /\ \A o \in 1 .. MaxOps : jobs'[o] # "none" <=> o < NextJob'
  BY <1>1, <1>3, JobIsNext
<1>5. NextJob' \in 1 .. MaxOps + 1
  BY <1>3, <1>4, LifecycleAssumption
<1>6. jobs' \in [1 .. MaxOps -> {"none", "queued", "running", "succeeded", "failed"}]
  BY <1>1, <1>3 DEF LifecycleTypeOK
<1>7. creds' = creds \/ (creds' = [creds EXCEPT ![task.cred] = "revoked"] /\ task.cred < NextJob')
  BY <1>1, <1>2, <1>3, <1>4 DEF Withdrawn
<1>8. \A c \in Ids : creds'[c] = "pending" => crashed
  BY <1>1, <1>2 DEF CredsFit, Withdrawn, LifecycleTypeOK
<1> QED
  BY <1>1, <1>4, <1>5, <1>6, <1>7, <1>8, ReleaseStep

\* A host as operations leave it.
HostMay(m, ps) ==
  /\ m \in Machine /\ ps \subseteq Process
  /\ \A p \in ps : p.id <= 3 * (NextJob - 1) /\ Known(p.cred)
  /\ m.conf # None => Known(m.conf)
  /\ place = "local" => m.bin # 0
\* Credentials as the steps of an operation leave them.
CredsMay(f) ==
  /\ f \in [Ids -> {"unused", "pending", "active", "revoked"}]
  /\ \A c \in Ids : f[c] = creds[c] \/ (f[c] \in {"active", "revoked"} /\ c < NextJob)

\* What there is is what may be, and fewer processes may be too.
LEMMA HostMayBe ==
  ASSUME LifeInv
  PROVE  /\ HostMay(machine, procs) /\ CredsMay(creds)
         /\ \A ps \in SUBSET procs : HostMay(machine, ps)
<1> QED
  BY DEF LifeInv, LifecycleTypeOK, SlotFits, IdsFit, HostMay, CredsMay

\* A job that is at work takes any other status.
LEMMA JobEnds ==
  ASSUME LifeInv, task # None, task.at \notin Fresh,
         NEW x \in {"queued", "running", "succeeded", "failed"}, jobs' = [jobs EXCEPT ![task.job] = x]
  PROVE  /\ NextJob' = NextJob /\ \A o \in 1 .. MaxOps : jobs'[o] # "none" <=> o < NextJob'
         /\ jobs' \in [1 .. MaxOps -> {"none", "queued", "running", "succeeded", "failed"}]
<1>1. task.job \in 1 .. MaxOps /\ task.job < NextJob
  BY AtWorkIs
<1>2. NextJob' = NextJob /\ \A o \in 1 .. MaxOps : jobs'[o] # "none" <=> o < NextJob'
  BY <1>1, JobGoesOn DEF LifeInv
<1> QED
  BY <1>1, <1>2 DEF LifeInv, LifecycleTypeOK

\* A job whose status stays.
LEMMA JobStays ==
  ASSUME LifeInv, jobs' = jobs
  PROVE  /\ NextJob' = NextJob /\ \A o \in 1 .. MaxOps : jobs'[o] # "none" <=> o < NextJob'
         /\ jobs' \in [1 .. MaxOps -> {"none", "queued", "running", "succeeded", "failed"}]
<1>1. NextJob' = NextJob
  BY DEF NextJob
<1> QED
  BY <1>1 DEF LifeInv, LifecycleTypeOK, JobsInOrder

\* An operation at work goes on to another of its steps.
LEMMA TaskGoesOn ==
  ASSUME LifeInv, task # None, task.at \notin Fresh,
         NEW to \in StepsOf[slot] \cup {"audit", "failed"}, Go(to)
  PROVE  /\ task' \in Task /\ task' # None /\ task'.at = to /\ to \notin Fresh /\ to # "queued"
         /\ task'.op = task.op /\ task'.job = task.job /\ task'.cred = task.cred
         /\ task'.old = task.old /\ task'.prior = task.prior
<1>1. task \in Task /\ slot \in Ops
  BY AtWorkIs
<1>2. to \in TaskSteps /\ to \notin Fresh /\ to # "queued"
  <2>1. to \in TaskSteps /\ to \notin Fresh
    BY <1>1, StepsAre
  <2>2. to # "queued"
    BY <1>1, StepsAre, OpsAre
  <2> QED
    BY <2>1, <2>2
<1>3. task' \in Task
  BY <1>1, <1>2 DEF Go, Task
<1> QED
  BY <1>1, <1>2, <1>3, LifecycleAssumption DEF Go, Task

\* What every step of an operation at work keeps.
LEMMA OperationStep ==
  ASSUME LifeInv, task # None, task.at \notin Fresh,
         task' \in Task, task' # None, task'.op = task.op, task'.job = task.job, task'.cred = task.cred,
         task'.old = task.old,
         task'.at \in StepsOf[slot] \cup {"audit", "failed"}, task'.at \notin Fresh,
         UNCHANGED <<place, slot, sent, crashed, pushes, proved>>,
         jobs' \in [1 .. MaxOps -> {"none", "queued", "running", "succeeded", "failed"}],
         NextJob' = NextJob, \A o \in 1 .. MaxOps : jobs'[o] # "none" <=> o < NextJob',
         agents' \in AgentState, place = "local" => agents'.status # "not_installed",
         info' \in BOOLEAN, clock' \in Times, mishaps' \in 0 .. MaxMishaps,
         HostMay(machine', procs'), CredsMay(creds')
  PROVE  /\ LifecycleTypeOK' /\ SlotFits' /\ JobsInOrder' /\ IdsFit' /\ PushesFit'
<1> USE DEF LifeInv
<1>1. NextJob \in Nat /\ Ids \subseteq Int /\ Births \subseteq Int /\ task \in Task
  BY CountersAre, AtWorkIs
<1>2. /\ creds' \in [Ids -> {"unused", "pending", "active", "revoked"}]
      /\ \A c \in Ids : creds'[c] = creds[c] \/ (creds'[c] \in {"active", "revoked"} /\ c < NextJob)
  BY DEF CredsMay
<1>3. LifecycleTypeOK'
  <2>1. machine' \in Machine /\ procs' \subseteq Process
    BY DEF HostMay
  <2> QED
    BY <1>2, <2>1 DEF LifecycleTypeOK
<1>4. SlotFits'
  BY DEF SlotFits, HostMay
<1>5. JobsInOrder'
  <2>1. \A c \in Ids : c >= NextJob => creds'[c] = creds[c]
    BY <1>1, <1>2
  <2>2. \A c \in Int : (c > NextJob => c >= NextJob) /\ (c = NextJob => c >= NextJob)
    <3>1. NextJob \in Nat
      BY <1>1
    <3> QED
      BY <3>1
  <2>3. Ids \subseteq Int
    BY <1>1
  <2>4. \A c \in Ids : c > NextJob \/ c = NextJob => creds'[c] = "unused"
    BY <2>1, <2>2, <2>3 DEF JobsInOrder
  <2> QED
    BY <2>1, <2>4 DEF JobsInOrder
<1>6. \A c \in Ids : Known(c) => Known(c)'
  BY <1>2 DEF Known
<1>7. IdsFit'
  <2>1. \A p \in procs' : p.id <= 3 * (NextJob - 1) /\ Known(p.cred) /\ p.cred \in Ids
    BY DEF HostMay, Process
  <2>2. machine'.conf # None => Known(machine'.conf) /\ machine'.conf \in Ids
    BY DEF HostMay, Machine
  <2>3. \A q \in pushes : Known(q.cred) /\ q.cred \in Ids
    BY DEF IdsFit, LifecycleTypeOK, Push
  <2> QED
    BY <1>6, <2>1, <2>2, <2>3 DEF IdsFit
<1>8. PushesFit'
  <2>1. \A q \in pushes : q.cred \in Ids
    BY DEF LifecycleTypeOK, Push
  <2> QED
    BY <1>2, <2>1 DEF PushesFit, Ingests, Fresh
<1> QED
  BY <1>3, <1>4, <1>5, <1>7, <1>8

\* A step that leaves the host and the pushes alone.
LEMMA RecordStep ==
  ASSUME LifeInv, task # None, task.at \notin Fresh,
         NEW to \in StepsOf[slot] \cup {"audit", "failed"}, Go(to), UNCHANGED <<working, slot>>,
         jobs' \in [1 .. MaxOps -> {"none", "queued", "running", "succeeded", "failed"}],
         NextJob' = NextJob, \A o \in 1 .. MaxOps : jobs'[o] # "none" <=> o < NextJob',
         agents' \in AgentState, place = "local" => agents'.status # "not_installed",
         mishaps' \in 0 .. MaxMishaps, CredsMay(creds'),
         slot = "install" /\ to \in {"upload", "config", "try", "trying", "launch", "online"}
           => ToRecord = 1
  PROVE  /\ LifecycleTypeOK' /\ SlotFits' /\ JobsInOrder' /\ ClockFits' /\ IdsFit' /\ PushesFit'
         /\ task' \in Task /\ task' # None /\ task'.at = to /\ to \notin Fresh /\ to # "queued"
         /\ task'.op = task.op /\ task'.job = task.job /\ task'.cred = task.cred
         /\ task'.old = task.old /\ task'.prior = task.prior
<1>1. UNCHANGED <<place, slot, clock, sent, crashed, proved, pushes, info, machine, procs>>
  BY DEF working, pushing
<1>2. /\ task' \in Task /\ task' # None /\ task'.at = to /\ to \notin Fresh /\ to # "queued"
      /\ task'.op = task.op /\ task'.job = task.job /\ task'.cred = task.cred
      /\ task'.old = task.old /\ task'.prior = task.prior
  BY TaskGoesOn
<1>3. HostMay(machine', procs') /\ info' \in BOOLEAN /\ clock' \in Times
  <2>1. info \in BOOLEAN /\ clock \in Times
    BY DEF LifeInv, LifecycleTypeOK
  <2>2. HostMay(machine, procs)
    BY HostMayBe
  <2> QED
    BY <1>1, <2>1, <2>2
<1>4. LifecycleTypeOK' /\ SlotFits' /\ JobsInOrder' /\ IdsFit' /\ PushesFit'
  BY <1>1, <1>2, <1>3, OperationStep
<1>5. ClockFits'
  <2>1. ToRecord' \in {0, ToRecord}
    BY <1>1, <1>2 DEF ToRecord, Runs
  <2> QED
    BY <1>1, <2>1, ClockRests
<1> QED
  BY <1>2, <1>4, <1>5

\* The runner starts a job, or the store refuses its first update.
LEMMA StartJobStep == ASSUME LifeInv, task # None, StartJob PROVE LifeInv'
<1> USE DEF LifeInv
<1>1. task.at = "queued" /\ UNCHANGED <<working, slot, agents, creds>> /\ task.at \notin Fresh
  BY DEF StartJob, At, Fresh
<1>2. UNCHANGED <<place, slot, clock, sent, crashed, proved, pushes, info,
                  machine, procs, agents, creds>>
  BY <1>1 DEF working, pushing
<1>3. /\ agents' \in AgentState /\ CredsMay(creds') /\ slot \in Ops /\ slot = task.op
      /\ place = "local" => agents'.status # "not_installed"
  BY <1>2, HostMayBe, AtWorkIs DEF LifecycleTypeOK, SlotFits
<1>4. mishaps \in 0 .. MaxMishaps /\ MaxMishaps \in Nat
  BY CountersAre
<1>5. CASE jobs' = [jobs EXCEPT ![task.job] = "running"] /\ Go(First(task.op)) /\ UNCHANGED mishaps
  <2> DEFINE to == First(task.op)
  <2>1. /\ to \in StepsOf[slot] \cup {"audit", "failed"}
        /\ slot = "install" => to = "upload"
        /\ slot = "uninstall" => to = "stop"
        /\ slot = "rotate" => to = "apply"
        /\ slot = "upgrade" \/ slot = "restart" => to = "lock"
    <3>1. First(slot) \in StepsOf[slot]
      <4>1. CASE slot = "install"
        BY <4>1, StepsAre DEF First
      <4>2. CASE slot = "uninstall"
        BY <4>2, StepsAre DEF First
      <4>3. CASE slot = "upgrade"
        BY <4>3, StepsAre DEF First
      <4>4. CASE slot = "restart"
        BY <4>4, StepsAre DEF First
      <4>5. CASE slot = "rotate"
        BY <4>5, StepsAre DEF First
      <4> QED
        BY <1>3, <4>1, <4>2, <4>3, <4>4, <4>5, OpsAre
    <3> QED
      BY <1>3, <3>1 DEF First
  <2> HIDE DEF to
  <2>2. Go(to)
    BY <1>5 DEF to
  <2>3. slot = "install" => ToRecord = 1
    BY <1>1 DEF ToRecord, Runs
  <2>4. /\ LifecycleTypeOK' /\ SlotFits' /\ JobsInOrder' /\ ClockFits' /\ IdsFit' /\ PushesFit'
        /\ task' # None /\ task'.at = to /\ to \notin Fresh /\ to # "queued"
        /\ task'.op = task.op /\ task'.job = task.job /\ task'.cred = task.cred
        /\ task'.old = task.old
    BY <1>1, <1>3, <1>4, <1>5, <2>1, <2>2, <2>3, JobEnds, RecordStep
  <2>5. GoneFits'
    BY <1>1, <1>2, <2>4 DEF GoneFits, Runs
  <2>6. HostFits'
    BY <1>2, <1>3, <2>1, <2>4, OpsAre DEF HostFits, Runs, Loops
  <2>7. CredsFit'
    BY <1>1, <1>2, <2>1, <2>4 DEF CredsFit, Runs
  <2>8. TrialFits'
    BY <1>1, <1>2, <2>1, <2>4 DEF TrialFits, Runs, Born3
  <2>9. LeftBehind'
    BY <1>1, <1>2, <1>5, <2>1, <2>4 DEF LeftBehind, Runs
  <2> QED
    BY <2>4, <2>5, <2>6, <2>7, <2>8, <2>9
<1>6. CASE Mishap /\ task' = None /\ UNCHANGED jobs
  <2>1. mishaps' = mishaps + 1 /\ mishaps' \in 0 .. MaxMishaps /\ mishaps' # 0
    BY <1>4, <1>6 DEF Mishap
  <2>2. NextJob' = NextJob
    BY <1>6 DEF NextJob
  <2>3. LifecycleTypeOK'
    BY <1>2, <1>6, <2>1 DEF LifecycleTypeOK
  <2>4. SlotFits' /\ JobsInOrder'
    BY <1>2, <1>6, <2>2 DEF SlotFits, JobsInOrder
  <2>5. ClockFits'
    <3>1. ToRecord' = 0
      BY <1>6 DEF ToRecord, Runs
    <3> QED
      BY <1>2, <2>2, <3>1, ClockRests
  <2>6. IdsFit'
    BY <1>2, <2>2, IdsRest
  <2>7. PushesFit' /\ GoneFits'
    BY <1>1, <1>2, <1>6 DEF PushesFit, Ingests, GoneFits, Runs
  <2>8. HostFits' /\ TrialFits'
    BY <1>2, <1>6 DEF HostFits, Runs, Loops, TrialFits
  <2>9. CredsFit'
    BY <1>2, <1>6 DEF CredsFit, Runs
  <2>10. LeftBehind'
    BY <2>1 DEF LeftBehind
  <2> QED
    BY <2>3, <2>4, <2>5, <2>6, <2>7, <2>8, <2>9, <2>10
<1> QED
  BY <1>5, <1>6 DEF StartJob

\* An operation has succeeded, or its last record cannot be written.
LEMMA AuditSuccessStep == ASSUME LifeInv, task # None, AuditSuccess PROVE LifeInv'
<1> USE DEF LifeInv
<1>1. task.at = "audit" /\ UNCHANGED <<working, agents, creds>> /\ task.at \notin Fresh
  BY DEF AuditSuccess, At, Fresh
<1>2. UNCHANGED <<place, clock, sent, crashed, proved, pushes, info, machine, procs, agents, creds>>
  BY <1>1 DEF working, pushing
<1>3. /\ agents' \in AgentState /\ CredsMay(creds') /\ slot \in Ops /\ slot = task.op
      /\ place = "local" => agents'.status # "not_installed"
  BY <1>2, HostMayBe, AtWorkIs DEF LifecycleTypeOK, SlotFits
<1>4. mishaps \in 0 .. MaxMishaps /\ MaxMishaps \in Nat
  BY CountersAre
<1>5. CASE Finish("succeeded") /\ UNCHANGED mishaps
  <2>1. jobs' = [jobs EXCEPT ![task.job] = "succeeded"] /\ Release
    BY <1>5 DEF Finish
  <2>2. /\ NextJob' = NextJob /\ \A o \in 1 .. MaxOps : jobs'[o] # "none" <=> o < NextJob'
        /\ jobs' \in [1 .. MaxOps -> {"none", "queued", "running", "succeeded", "failed"}]
        /\ NextJob' \in 1 .. MaxOps + 1
    BY <1>1, <2>1, JobEnds, CountersAre
  <2>3. \A c \in Ids : creds'[c] = "pending" => crashed
    BY <1>1, <1>2, AtWorkIs DEF CredsFit, Runs
  <2>4. UNCHANGED <<working, agents>> /\ creds' = creds /\ mishaps' = mishaps
    BY <1>1, <1>5
  <2> QED
    BY <1>1, <2>1, <2>2, <2>3, <2>4, ReleaseStep
<1>6. CASE Mishap /\ Go(OnFailure) /\ UNCHANGED <<jobs, slot>>
  <2> DEFINE to == OnFailure
  <2>1. /\ to \in StepsOf[slot] \cup {"audit", "failed"} /\ to \in {"revoke", "note", "failed"}
        /\ slot \in {"install", "rotate"} => to = "revoke"
        /\ slot = "uninstall" => to = "note"
        /\ slot = "upgrade" \/ slot = "restart" => to = "failed"
    BY <1>3, StepsAre, OpsAre DEF OnFailure
  <2> HIDE DEF to
  <2>2. Go(to) /\ UNCHANGED <<working, slot>> /\ jobs' = jobs
    BY <1>1, <1>6 DEF to
  <2>3. mishaps' = mishaps + 1 /\ mishaps' \in 0 .. MaxMishaps /\ mishaps' # 0
    BY <1>4, <1>6 DEF Mishap
  <2>4. /\ LifecycleTypeOK' /\ SlotFits' /\ JobsInOrder' /\ ClockFits' /\ IdsFit' /\ PushesFit'
        /\ task' # None /\ task'.at = to /\ to \notin Fresh /\ to # "queued"
        /\ task'.op = task.op /\ task'.job = task.job /\ task'.cred = task.cred
        /\ task'.old = task.old
    BY <1>1, <1>3, <2>1, <2>2, <2>3, JobStays, RecordStep
  <2>5. GoneFits'
    BY <1>1, <1>2, <2>2, <2>4 DEF GoneFits, Runs, Fresh
  <2>6. HostFits'
    BY <1>2, <2>1, <2>2, <2>4, OpsAre DEF HostFits, Runs, Loops
  <2>7. CredsFit'
    BY <1>1, <1>2, <2>1, <2>2, <2>4 DEF CredsFit, Runs
  <2>8. TrialFits'
    BY <2>1, <2>4 DEF TrialFits
  <2>9. LeftBehind'
    BY <2>3 DEF LeftBehind
  <2> QED
    BY <2>4, <2>5, <2>6, <2>7, <2>8, <2>9
<1> QED
  BY <1>5, <1>6 DEF AuditSuccess

\* An operation has failed.
LEMMA FailStep == ASSUME LifeInv, task # None, Fail PROVE LifeInv'
<1> USE DEF LifeInv
<1>1. task.at = "failed" /\ UNCHANGED <<working, agents, creds, mishaps>> /\ task.at \notin Fresh
  BY DEF Fail, At, Fresh
<1>2. jobs' = [jobs EXCEPT ![task.job] = "failed"] /\ Release
  BY DEF Fail, Finish
<1>3. /\ NextJob' = NextJob /\ \A o \in 1 .. MaxOps : jobs'[o] # "none" <=> o < NextJob'
      /\ jobs' \in [1 .. MaxOps -> {"none", "queued", "running", "succeeded", "failed"}]
      /\ NextJob' \in 1 .. MaxOps + 1
  BY <1>1, <1>2, JobEnds, CountersAre
<1>4. UNCHANGED <<working, agents>> /\ creds' = creds /\ mishaps' = mishaps
  BY <1>1
<1>5. \A c \in Ids : creds'[c] = "pending" => crashed
  BY <1>1, <1>4, AtWorkIs DEF CredsFit, Runs
<1> QED
  BY <1>1, <1>2, <1>3, <1>4, <1>5, ReleaseStep

\* The credential of an operation that failed is revoked.
LEMMA RevokeNewStep == ASSUME LifeInv, task # None, RevokeNew PROVE LifeInv'
<1> USE DEF LifeInv
<1> DEFINE to == IF task.op = "install" THEN "note" ELSE "failed"
<1>1. /\ task.at = "revoke" /\ Go(to) /\ UNCHANGED <<working, slot, jobs, agents, mishaps>>
      /\ creds' = [creds EXCEPT ![task.cred] = "revoked"] /\ task.at \notin Fresh
  BY DEF RevokeNew, At, Fresh
<1>2. UNCHANGED <<place, slot, clock, sent, crashed, proved, pushes, info,
                  machine, procs, agents, jobs, mishaps>>
  BY <1>1 DEF working, pushing
<1>3. slot \in Ops /\ slot = task.op /\ task.cred \in Ids /\ task.cred < NextJob
  BY <1>1, AtWorkIs
<1>4. slot \in {"install", "rotate"}
  BY <1>1, <1>3, StepsAre, OpsAre DEF SlotFits
<1>5. /\ to \in StepsOf[slot] \cup {"audit", "failed"}
      /\ slot = "install" => to = "note"
      /\ slot = "rotate" => to = "failed"
  BY <1>3, <1>4, StepsAre
<1> HIDE DEF to
<1>6. CredsMay(creds')
  BY <1>1, <1>3 DEF CredsMay, LifecycleTypeOK
<1>7. /\ agents' \in AgentState /\ mishaps' \in 0 .. MaxMishaps
      /\ place = "local" => agents'.status # "not_installed"
  BY <1>2 DEF LifecycleTypeOK, SlotFits
<1>8. /\ LifecycleTypeOK' /\ SlotFits' /\ JobsInOrder' /\ ClockFits' /\ IdsFit' /\ PushesFit'
      /\ task' # None /\ task'.at = to /\ to \notin Fresh /\ to # "queued"
      /\ task'.op = task.op /\ task'.job = task.job /\ task'.cred = task.cred
      /\ task'.old = task.old
  BY <1>1, <1>2, <1>5, <1>6, <1>7, JobStays, RecordStep
<1>9. \A c \in Ids : creds'[c] = creds[c] \/ (c = task.cred /\ creds'[c] = "revoked")
  BY <1>1 DEF LifecycleTypeOK
<1>10. GoneFits'
  BY <1>1, <1>2, <1>8, <1>9 DEF GoneFits, Runs, LifecycleTypeOK, Push, Process, Fresh
<1>11. HostFits'
  BY <1>2, <1>5, <1>8, <1>4 DEF HostFits, Runs, Loops
<1>12. CredsFit'
  BY <1>1, <1>2, <1>3, <1>4, <1>5, <1>8, <1>9 DEF CredsFit, Runs, LifecycleTypeOK
<1>13. TrialFits'
  BY <1>5, <1>8, <1>2, <1>4 DEF TrialFits, Runs
<1>14. LeftBehind'
  BY <1>1, <1>2, <1>4, <1>5, <1>8 DEF LeftBehind, Runs
<1> QED
  BY <1>8, <1>10, <1>11, <1>12, <1>13, <1>14

\* A failure is noted in the agent's state.
LEMMA NoteFailureStep == ASSUME LifeInv, task # None, NoteFailure PROVE LifeInv'
<1> USE DEF LifeInv
<1>1. /\ task.at = "note" /\ Go("failed") /\ UNCHANGED <<working, slot, jobs, creds, mishaps>>
      /\ agents' = [status |-> "failed", version |-> 0, seen |-> task.prior.seen] /\ task.at \notin Fresh
  BY DEF NoteFailure, At, Fresh
<1>2. UNCHANGED <<place, slot, clock, sent, crashed, proved, pushes, info,
                  machine, procs, creds, jobs, mishaps>>
  BY <1>1 DEF working, pushing
<1>3. slot \in Ops /\ slot = task.op /\ task \in Task
  BY AtWorkIs
<1>4. agents' \in AgentState /\ agents'.status = "failed"
  BY <1>1, <1>3 DEF Task, AgentState, Versions
<1>5. CredsMay(creds') /\ mishaps' \in 0 .. MaxMishaps
  BY <1>2, HostMayBe DEF LifecycleTypeOK
<1>6. /\ LifecycleTypeOK' /\ SlotFits' /\ JobsInOrder' /\ ClockFits' /\ IdsFit' /\ PushesFit'
      /\ task' # None /\ task'.at = "failed"
      /\ task'.op = task.op /\ task'.job = task.job /\ task'.cred = task.cred
      /\ task'.old = task.old
  BY <1>1, <1>2, <1>4, <1>5, JobStays, RecordStep
<1>7. GoneFits'
  BY <1>4 DEF GoneFits, Runs
<1>8. HostFits'
  BY <1>2, <1>6 DEF HostFits, Runs, Loops
<1>9. slot \in {"install", "uninstall"}
  BY <1>1, <1>3, StepsAre, OpsAre DEF SlotFits
<1>10. CredsFit'
  BY <1>1, <1>2, <1>6, <1>9 DEF CredsFit, Runs
<1>11. TrialFits'
  BY <1>6 DEF TrialFits
<1>12. LeftBehind'
  BY <1>1, <1>2, <1>4, <1>9 DEF LeftBehind, Runs
<1> QED
  BY <1>6, <1>7, <1>8, <1>10, <1>11, <1>12

\* An installation records that the agent is online.
LEMMA RecordInstalledStep == ASSUME LifeInv, task # None, RecordInstalled PROVE LifeInv'
<1> USE DEF LifeInv
<1>1. /\ task.at = "online" /\ Go("audit") /\ clock' = clock + 1
      /\ agents' = [status |-> "online", version |-> 0, seen |-> clock + 1]
      /\ UNCHANGED << place, slot, jobs, info, creds, machine, procs, pushes, sent, mishaps,
                      crashed, proved >>
      /\ task.at \notin Fresh
  BY DEF RecordInstalled, At, Fresh
<1>2. slot \in Ops /\ slot = task.op /\ task \in Task
  BY AtWorkIs
<1>3. slot = "install"
  BY <1>1, <1>2, StepsAre, OpsAre DEF SlotFits
<1>4. /\ task' \in Task /\ task' # None /\ task'.at = "audit" /\ task'.at \notin Fresh
      /\ task'.op = task.op /\ task'.job = task.job /\ task'.cred = task.cred
      /\ task'.old = task.old
  BY <1>1, TaskGoesOn
<1>5. ToRecord = 1 /\ ToRecord' = 0
  BY <1>1, <1>3, <1>4 DEF ToRecord, Runs
<1>6. NextJob' = NextJob /\ Unstamped' = Unstamped
  BY <1>1 DEF NextJob, Unstamped
<1>7. /\ clock \in Nat /\ sent \in 0 .. MaxPushes /\ NextJob \in 1 .. MaxOps + 1
      /\ MaxPushes \in Nat /\ MaxOps \in Nat
      /\ IsFiniteSet(Unstamped) /\ Cardinality(Unstamped) \in Nat
      /\ clock + Cardinality(Unstamped) + ToRecord <= sent + NextJob - 1
      /\ Times = 0 .. MaxPushes + MaxOps
  BY CountersAre
<1>8. clock + 1 \in Times
  BY <1>5, <1>7
<1>9. ClockFits'
  BY <1>1, <1>5, <1>6, <1>7 DEF ClockFits
<1>10. agents' \in AgentState /\ agents'.status = "online" /\ clock' \in Times
  BY <1>1, <1>8 DEF AgentState, Versions
<1>11. /\ HostMay(machine', procs') /\ CredsMay(creds') /\ info' \in BOOLEAN
       /\ mishaps' \in 0 .. MaxMishaps
  <2>1. info \in BOOLEAN /\ mishaps \in 0 .. MaxMishaps
    BY DEF LifecycleTypeOK
  <2>2. HostMay(machine, procs) /\ CredsMay(creds)
    BY HostMayBe
  <2> QED
    BY <1>1, <2>1, <2>2
<1>12. LifecycleTypeOK' /\ SlotFits' /\ JobsInOrder' /\ IdsFit' /\ PushesFit'
  <2>1. place = "local" => agents'.status # "not_installed"
    BY <1>10
  <2>2. jobs' = jobs
    BY <1>1
  <2>3. UNCHANGED <<place, slot, sent, crashed, pushes, proved>>
    BY <1>1
  <2> QED
    BY <1>1, <1>4, <1>10, <1>11, <2>1, <2>2, <2>3, JobStays, OperationStep
<1>13. GoneFits'
  BY <1>10 DEF GoneFits
<1>14. HostFits'
  BY <1>1, <1>3, <1>4 DEF HostFits, Runs, Loops
<1>15. CredsFit' /\ TrialFits'
  BY <1>1, <1>3, <1>4 DEF CredsFit, Runs, TrialFits
<1>16. LeftBehind'
  BY <1>1, <1>3, <1>10 DEF LeftBehind, Runs
<1> QED
  BY <1>9, <1>12, <1>13, <1>14, <1>15, <1>16

\* An uninstallation revokes every credential.
LEMMA RevokeAllStep == ASSUME LifeInv, task # None, RevokeAll PROVE LifeInv'
<1> USE DEF LifeInv
<1>1. /\ task.at = "retire" /\ Go("gone") /\ UNCHANGED <<working, slot, jobs, agents, mishaps>>
      /\ creds' = [c \in Ids |-> IF creds[c] \in Usable THEN "revoked" ELSE creds[c]]
      /\ task.at \notin Fresh /\ slot = "uninstall"
  BY DEF RevokeAll, At, Fresh
<1>2. UNCHANGED <<place, slot, clock, sent, crashed, proved, pushes, info,
                  machine, procs, agents, jobs, mishaps>>
  BY <1>1 DEF working, pushing
<1>3. NextJob \in Nat /\ Ids \subseteq Int
  BY CountersAre
<1>4. \A c \in Ids : creds[c] \in Usable => c < NextJob
  <2>1. \A c \in Ids : c > NextJob \/ c = NextJob => creds[c] = "unused"
    BY <1>1 DEF JobsInOrder
  <2>2. \A c \in Ids : c > NextJob \/ c = NextJob \/ c < NextJob
    BY <1>3
  <2> QED
    BY <2>1, <2>2 DEF Usable
<1>5. CredsMay(creds')
  BY <1>1, <1>4 DEF CredsMay, LifecycleTypeOK
<1>6. /\ agents' \in AgentState /\ mishaps' \in 0 .. MaxMishaps
      /\ place = "local" => agents'.status # "not_installed"
  BY <1>2 DEF LifecycleTypeOK, SlotFits
<1>7. "gone" \in StepsOf[slot]
  BY <1>1, StepsAre
<1>8. /\ LifecycleTypeOK' /\ SlotFits' /\ JobsInOrder' /\ ClockFits' /\ IdsFit' /\ PushesFit'
      /\ task' # None /\ task'.at = "gone"
      /\ task'.op = task.op /\ task'.job = task.job /\ task'.cred = task.cred
      /\ task'.old = task.old
  BY <1>1, <1>2, <1>5, <1>6, <1>7, JobStays, RecordStep
<1>9. \A c \in Ids : creds'[c] \notin Usable /\ (creds[c] = "revoked" => creds'[c] = "revoked")
  BY <1>1 DEF Usable
<1>10. GoneFits'
  BY <1>1, <1>2, <1>8, <1>9 DEF GoneFits, Runs, LifecycleTypeOK, Push, Process, Usable
<1>11. HostFits'
  BY <1>1, <1>2, <1>8 DEF HostFits, Runs, Loops
<1>12. CredsFit'
  BY <1>1, <1>2, <1>8, <1>9 DEF CredsFit, Runs, Usable
<1>13. TrialFits'
  BY <1>8 DEF TrialFits
<1>14. LeftBehind'
  BY <1>1, <1>2, <1>8 DEF LeftBehind, Runs
<1> QED
  BY <1>8, <1>10, <1>11, <1>12, <1>13, <1>14

\* An uninstallation records that the agent is gone.
LEMMA RecordGoneStep == ASSUME LifeInv, task # None, RecordGone PROVE LifeInv'
<1> USE DEF LifeInv
<1>1. /\ task.at = "gone" /\ Go("audit") /\ info' = FALSE /\ agents' = Absent
      /\ UNCHANGED << place, slot, jobs, creds, machine, procs, pushes, clock, sent, mishaps,
                      crashed, proved >>
      /\ task.at \notin Fresh
  BY DEF RecordGone, At, Fresh
<1>2. slot \in Ops /\ slot = task.op /\ task \in Task
  BY AtWorkIs
<1>3. slot = "uninstall"
  BY <1>1, <1>2, StepsAre, OpsAre DEF SlotFits
<1>4. /\ task' \in Task /\ task' # None /\ task'.at = "audit" /\ task'.at \notin Fresh
      /\ task'.op = task.op /\ task'.job = task.job /\ task'.cred = task.cred
      /\ task'.old = task.old
  BY <1>1, TaskGoesOn
<1>5. ToRecord' = 0 /\ NextJob' = NextJob
  BY <1>1, <1>4 DEF ToRecord, NextJob, Runs
<1>6. agents' \in AgentState /\ agents'.status = "not_installed"
  <2>1. 0 \in Times
    BY CountersAre
  <2> QED
    BY <1>1, <2>1 DEF Absent, AgentState, Versions
<1>7. place # "local"
  BY <1>3, AtWorkIs DEF SlotFits, OpsHere
<1>8. info' \in BOOLEAN /\ ~ info'
  BY <1>1
<1>9. /\ HostMay(machine', procs') /\ CredsMay(creds') /\ clock' \in Times
      /\ mishaps' \in 0 .. MaxMishaps
  <2>1. clock \in Times /\ mishaps \in 0 .. MaxMishaps
    BY DEF LifecycleTypeOK
  <2>2. HostMay(machine, procs) /\ CredsMay(creds)
    BY HostMayBe
  <2> QED
    BY <1>1, <2>1, <2>2
<1>10. LifecycleTypeOK' /\ SlotFits' /\ JobsInOrder' /\ IdsFit' /\ PushesFit'
  <2>1. jobs' = jobs
    BY <1>1
  <2>2. UNCHANGED <<place, slot, sent, crashed, pushes, proved>>
    BY <1>1
  <2> QED
    BY <1>1, <1>4, <1>6, <1>7, <1>8, <1>9, <2>1, <2>2, JobStays, OperationStep
<1>11. ClockFits'
  BY <1>1, <1>5, ClockRests
<1>12. GoneFits'
  <2>1. /\ creds \in [Ids -> {"unused", "pending", "active", "revoked"}]
        /\ \A c \in Ids : creds[c] \notin Usable
    BY <1>1, <1>3 DEF CredsFit, Runs, LifecycleTypeOK
  <2>2. \A c \in Ids : Known(c) => creds[c] = "revoked"
    BY <2>1 DEF Known, Usable
  <2>3. \A p \in procs : creds[p.cred] = "revoked"
    BY <2>2 DEF IdsFit, LifecycleTypeOK, Process
  <2>4. \A q \in pushes : creds[q.cred] = "revoked"
    BY <2>2 DEF IdsFit, LifecycleTypeOK, Push
  <2>5. \A q \in pushes : q.at \notin {"stamped", "used", "landed"}
    BY <1>1, <1>3 DEF PushesFit, Ingests
  <2>6. \A c \in Ids : creds[c] # "active"
    BY <2>1 DEF Usable
  <2> QED
    BY <1>1, <1>3, <1>8, <2>3, <2>4, <2>5, <2>6 DEF GoneFits, Runs
<1>13. HostFits'
  BY <1>1, <1>3, <1>4 DEF HostFits, Runs, Loops
<1>14. CredsFit' /\ TrialFits'
  BY <1>1, <1>3, <1>4 DEF CredsFit, Runs, TrialFits
<1>15. LeftBehind'
  BY <1>1, <1>3, <1>6 DEF LeftBehind, Runs
<1> QED
  BY <1>10, <1>11, <1>12, <1>13, <1>14, <1>15

\* The new credential of a rotation becomes active.
LEMMA ActivateNewStep == ASSUME LifeInv, task # None, ActivateNew PROVE LifeInv'
<1> USE DEF LifeInv
<1>1. /\ task.at = "activate" /\ Go("turn") /\ UNCHANGED <<working, slot, jobs, agents, mishaps>>
      /\ creds' = [creds EXCEPT ![task.cred] = "active"]
      /\ task.at \notin Fresh
  BY DEF ActivateNew, At, Fresh
<1>2. UNCHANGED <<place, slot, clock, sent, crashed, proved, pushes, info,
                  machine, procs, agents, jobs, mishaps>>
  BY <1>1 DEF working, pushing
<1>3. slot \in Ops /\ slot = task.op /\ task \in Task /\ task.cred \in Ids /\ task.cred < NextJob
  BY <1>1, AtWorkIs
<1>4. slot = "rotate"
  BY <1>1, <1>3, StepsAre, OpsAre DEF SlotFits
<1>5. place = "local" /\ agents.status # "not_installed"
  <2>1. place \in {"local", "remote"}
    BY LifecycleAssumption DEF LifecycleTypeOK
  <2> QED
    BY <1>4, <2>1 DEF SlotFits, OpsHere
<1>6. CredsMay(creds')
  BY <1>1, <1>3 DEF CredsMay, LifecycleTypeOK
<1>7. /\ agents' \in AgentState /\ mishaps' \in 0 .. MaxMishaps
      /\ agents'.status # "not_installed"
  BY <1>2, <1>5 DEF LifecycleTypeOK
<1>8. "turn" \in StepsOf[slot]
  BY <1>4, StepsAre
<1>9. /\ LifecycleTypeOK' /\ SlotFits' /\ JobsInOrder' /\ ClockFits' /\ IdsFit' /\ PushesFit'
      /\ task' # None /\ task'.at = "turn"
      /\ task'.op = task.op /\ task'.job = task.job /\ task'.cred = task.cred
      /\ task'.old = task.old
  BY <1>1, <1>2, <1>6, <1>7, <1>8, JobStays, RecordStep
<1>10. \A c \in Ids : creds'[c] = creds[c] \/ c = task.cred
  BY <1>1 DEF LifecycleTypeOK
<1>11. creds'[task.cred] = "active"
  BY <1>1, <1>3 DEF LifecycleTypeOK
<1>12. GoneFits'
  BY <1>1, <1>2, <1>4, <1>7 DEF GoneFits, Runs
<1>13. HostFits'
  BY <1>1, <1>2, <1>4, <1>9 DEF HostFits, Runs, Loops
<1>14. CredsFit'
  BY <1>1, <1>2, <1>4, <1>9, <1>10, <1>11 DEF CredsFit, Runs
<1>15. TrialFits'
  BY <1>9 DEF TrialFits
<1>16. LeftBehind'
  BY <1>1, <1>2, <1>4, <1>9 DEF LeftBehind, Runs
<1> QED
  BY <1>9, <1>12, <1>13, <1>14, <1>15, <1>16

\* The credentials before a rotation are revoked.
LEMMA RevokeOldStep == ASSUME LifeInv, task # None, RevokeOld PROVE LifeInv'
<1> USE DEF LifeInv
<1>1. /\ task.at = "turn" /\ Go("audit") /\ UNCHANGED <<working, slot, jobs, agents, mishaps>>
      /\ creds' = [c \in Ids |-> IF c \in task.old THEN "revoked" ELSE creds[c]]
      /\ task.at \notin Fresh
  BY DEF RevokeOld, At, Fresh
<1>2. UNCHANGED <<place, slot, clock, sent, crashed, proved, pushes, info,
                  machine, procs, agents, jobs, mishaps>>
  BY <1>1 DEF working, pushing
<1>3. slot \in Ops /\ slot = task.op /\ task \in Task /\ task.cred \in Ids
  BY <1>1, AtWorkIs
<1>4. slot = "rotate"
  BY <1>1, <1>3, StepsAre, OpsAre DEF SlotFits
<1>5. task.cred \notin task.old /\ creds[task.cred] = "active" /\ \A c \in task.old : c < NextJob
  BY <1>1, <1>4 DEF CredsFit, Runs, JobsInOrder
<1>6. \A c \in Ids : creds'[c] = creds[c] \/ (creds'[c] = "revoked" /\ c \in task.old)
  BY <1>1
<1>7. CredsMay(creds')
  BY <1>1, <1>5, <1>6 DEF CredsMay, LifecycleTypeOK
<1>8. /\ agents' \in AgentState /\ mishaps' \in 0 .. MaxMishaps
      /\ place = "local" => agents'.status # "not_installed"
  BY <1>2 DEF LifecycleTypeOK, SlotFits
<1>9. /\ LifecycleTypeOK' /\ SlotFits' /\ JobsInOrder' /\ ClockFits' /\ IdsFit' /\ PushesFit'
      /\ task' # None /\ task'.at = "audit"
      /\ task'.op = task.op /\ task'.job = task.job /\ task'.cred = task.cred
      /\ task'.old = task.old
  BY <1>1, <1>2, <1>7, <1>8, JobStays, RecordStep
<1>10. creds'[task.cred] = "active"
  BY <1>1, <1>3, <1>5
<1>11. GoneFits'
  BY <1>1, <1>2, <1>4, <1>6 DEF GoneFits, Runs, LifecycleTypeOK, Push, Process
<1>12. HostFits'
  BY <1>1, <1>2, <1>4, <1>9 DEF HostFits, Runs, Loops
<1>13. CredsFit'
  BY <1>1, <1>2, <1>4, <1>5, <1>6, <1>9, <1>10 DEF CredsFit, Runs
<1>14. TrialFits'
  BY <1>9 DEF TrialFits
<1>15. LeftBehind'
  BY <1>1, <1>2, <1>4 DEF LeftBehind, Runs
<1> QED
  BY <1>9, <1>11, <1>12, <1>13, <1>14, <1>15

\* The time of the last observation is read.
LEMMA TakeBaselineStep == ASSUME LifeInv, task # None, TakeBaseline PROVE LifeInv'
<1> USE DEF LifeInv
<1>1. PICK from \in {"baseline", "base"} :
        /\ task.at = from
        /\ task' = [ task EXCEPT
            !.base = IF agents.seen = 0 /\ from = "baseline" /\ slot = "upgrade"
                     THEN task.prior.seen ELSE agents.seen,
            !.ver = IF from = "base" THEN task.prior.version ELSE task.ver,
            !.at = IF from = "base" THEN "again"
                   ELSE IF slot = "upgrade" THEN "swap" ELSE "start" ]
  BY DEF TakeBaseline, At
<1>2. UNCHANGED <<place, slot, clock, sent, crashed, proved, pushes, info,
                  machine, procs, creds, agents, jobs, mishaps>>
  BY DEF TakeBaseline, working, pushing
<1>3. slot \in Ops /\ slot = task.op /\ task \in Task /\ task.at \notin Fresh
  BY <1>1, AtWorkIs DEF Fresh
<1>4. slot \in {"upgrade", "restart"} /\ (from = "base" => slot = "upgrade")
  BY <1>1, <1>3, StepsAre, OpsAre DEF SlotFits
<1>5. PICK b \in Times, v \in Versions :
        task' = [ task EXCEPT !.base = b, !.ver = v,
                    !.at = IF from = "base" THEN "again"
                           ELSE IF slot = "upgrade" THEN "swap" ELSE "start" ]
  <2>1. agents.seen \in Times /\ task.prior.seen \in Times /\ task.prior.version \in Versions
        /\ task.ver \in Versions
    BY <1>3 DEF LifecycleTypeOK, AgentState, Task
  <2>2. (IF agents.seen = 0 /\ from = "baseline" /\ slot = "upgrade"
         THEN task.prior.seen ELSE agents.seen) \in Times
    BY <2>1
  <2>3. (IF from = "base" THEN task.prior.version ELSE task.ver) \in Versions
    BY <2>1
  <2> QED
    BY <1>1, <2>2, <2>3
<1>6. PICK to \in {"again", "swap", "start"} :
        /\ from = "base" => to = "again"
        /\ from = "baseline" /\ slot = "upgrade" => to = "swap"
        /\ from = "baseline" /\ slot = "restart" => to = "start"
        /\ task' = [task EXCEPT !.base = b, !.ver = v, !.at = to]
  BY <1>1, <1>4, <1>5
<1>7. to \in StepsOf[slot] /\ to \in TaskSteps /\ to \notin Fresh
  BY <1>1, <1>4, <1>6, StepsAre DEF TaskSteps, Fresh
<1>8. /\ task' \in Task /\ task'.at = to /\ task'.op = task.op /\ task'.job = task.job
      /\ task'.cred = task.cred /\ task'.old = task.old
  BY <1>3, <1>6, <1>7 DEF Task
<1>9. task' # None
  BY <1>8, LifecycleAssumption
<1>10. ToRecord' = 0 /\ NextJob' = NextJob
  BY <1>2, <1>4, <1>8 DEF ToRecord, Runs, NextJob
<1>11. LifecycleTypeOK' /\ SlotFits' /\ JobsInOrder' /\ IdsFit' /\ PushesFit'
  <2>1. /\ clock \in Times /\ mishaps \in 0 .. MaxMishaps /\ info \in BOOLEAN /\ agents \in AgentState
        /\ place = "local" => agents.status # "not_installed"
    BY DEF LifecycleTypeOK, SlotFits
  <2>2. HostMay(machine, procs) /\ CredsMay(creds)
    BY HostMayBe
  <2>3. /\ HostMay(machine', procs') /\ CredsMay(creds') /\ clock' \in Times /\ info' \in BOOLEAN
        /\ mishaps' \in 0 .. MaxMishaps /\ agents' \in AgentState
        /\ place = "local" => agents'.status # "not_installed"
    BY <1>2, <2>1, <2>2
  <2>4. UNCHANGED <<place, slot, sent, crashed, pushes, proved>> /\ jobs' = jobs
    BY <1>2
  <2> QED
    BY <1>3, <1>7, <1>8, <1>9, <2>3, <2>4, JobStays, OperationStep
<1>12. ClockFits'
  BY <1>2, <1>10, ClockRests
<1>13. GoneFits'
  BY <1>1, <1>2, <1>3, <1>8, <1>4, <1>7 DEF GoneFits, Runs, Fresh
<1>14. HostFits'
  BY <1>1, <1>2, <1>4, <1>6, <1>8 DEF HostFits, Runs, Loops
<1>15. CredsFit' /\ TrialFits'
  BY <1>1, <1>2, <1>4, <1>8, <1>9 DEF CredsFit, Runs, TrialFits
<1>16. LeftBehind'
  BY <1>1, <1>2, <1>4, <1>8, <1>9 DEF LeftBehind, Runs
<1> QED
  BY <1>11, <1>12, <1>13, <1>14, <1>15, <1>16

\* The loops among processes.
LoopsOf(ps) == { p \in ps : p.placed /\ ~ p.once }
\* What a host is when the operation at work stands at a step.
HostAt(to, m, ps) ==
  /\ LoopsOf(ps) = {} \/ \E p \in ps : LoopsOf(ps) = {p}
  /\ m.conf # None => m.bin # 0 \/ m.backup # 0
  /\ slot = "install" =>
       /\ to \in {"config", "try", "trying", "launch"} => LoopsOf(ps) = {} /\ m.bin = Shipped
       /\ to \in {"try", "trying", "launch", "online", "audit"} => m.conf = task.cred
  /\ slot = "uninstall" /\ to \in {"retire", "gone", "audit"} => m.conf = None
  /\ to \in {"baseline", "swap", "start", "restore", "base", "again"} => LoopsOf(ps) = {}
  /\ slot = "upgrade" =>
       /\ to \in {"try", "trying", "inspect", "stop", "baseline", "swap"} => m.staged = Shipped
       /\ to \in {"start", "verify", "clean", "unlock", "audit"} => m.bin = Shipped
       /\ to \in {"unlock", "audit"} => m.backup = 0
  /\ slot = "restart" /\ to \in {"verify", "unlock", "audit"} => m.pid = Born3(2)
  /\ slot = "rotate" /\ to \in {"activate", "turn", "audit"} => m.conf = task.cred

\* The host is what the invariant says.
LEMMA HostNow == ASSUME LifeInv, task # None PROVE HostAt(task.at, machine, procs)
  BY DEF LifeInv, HostFits, HostAt, Runs, Loops, LoopsOf

\* A step of an operation on its host: what it keeps whatever the operation is.
LEMMA HostGoesOn ==
  ASSUME LifeInv, task # None, task.at \notin Fresh,
         NEW to \in StepsOf[slot] \cup {"audit", "failed"}, Go(to),
         UNCHANGED <<pushing, slot, jobs, agents, creds>>, mishaps' \in 0 .. MaxMishaps,
         HostMay(machine', procs'), HostAt(to, machine', procs'),
         agents.status = "not_installed" => \A p \in procs' : creds[p.cred] = "revoked",
         slot = "install" /\ to \in {"upload", "config", "try", "trying", "launch", "online"}
           => ToRecord = 1
  PROVE  /\ LifecycleTypeOK' /\ SlotFits' /\ JobsInOrder' /\ ClockFits' /\ IdsFit' /\ PushesFit'
         /\ GoneFits' /\ HostFits'
         /\ task' \in Task /\ task' # None /\ task'.at = to /\ to \notin Fresh /\ to # "queued"
         /\ task'.op = task.op /\ task'.job = task.job /\ task'.cred = task.cred
         /\ task'.old = task.old /\ task'.prior = task.prior
         /\ UNCHANGED <<place, clock, sent, crashed, proved, pushes, info>>
<1> USE DEF LifeInv
<1>1. UNCHANGED <<place, clock, sent, crashed, proved, pushes, info>>
  BY DEF pushing
<1>2. /\ task' \in Task /\ task' # None /\ task'.at = to /\ to \notin Fresh /\ to # "queued"
      /\ task'.op = task.op /\ task'.job = task.job /\ task'.cred = task.cred
      /\ task'.old = task.old /\ task'.prior = task.prior
  BY TaskGoesOn
<1>3. /\ agents' \in AgentState /\ CredsMay(creds') /\ info' \in BOOLEAN /\ clock' \in Times
      /\ place = "local" => agents'.status # "not_installed"
  <2>1. /\ agents \in AgentState /\ info \in BOOLEAN /\ clock \in Times
        /\ place = "local" => agents.status # "not_installed"
    BY DEF LifecycleTypeOK, SlotFits
  <2>2. CredsMay(creds)
    BY HostMayBe
  <2> QED
    BY <1>1, <2>1, <2>2
<1>4. LifecycleTypeOK' /\ SlotFits' /\ JobsInOrder' /\ IdsFit' /\ PushesFit'
  BY <1>1, <1>2, <1>3, JobStays, OperationStep
<1>5. ClockFits'
  <2>1. ToRecord' \in {0, ToRecord} /\ NextJob' = NextJob
    BY <1>1, <1>2 DEF ToRecord, Runs, NextJob
  <2> QED
    BY <1>1, <2>1, ClockRests
<1>6. GoneFits'
  BY <1>1, <1>2 DEF GoneFits, Runs, Fresh
<1>7. HostFits'
  BY <1>2 DEF HostFits, HostAt, Runs, Loops, LoopsOf, Born3
<1> QED
  BY <1>1, <1>2, <1>4, <1>5, <1>6, <1>7

\* A step of an upgrade or a restart.
LEMMA UpgradeMoves ==
  ASSUME LifeInv, task # None, slot \in {"upgrade", "restart"}, task.at \notin Fresh,
         NEW to \in StepsOf[slot] \cup {"audit", "failed"}, Go(to),
         UNCHANGED <<pushing, slot, jobs, agents, creds>>, mishaps' \in 0 .. MaxMishaps,
         mishaps' = 0 => mishaps = 0, HostMay(machine', procs'), HostAt(to, machine', procs'),
         mishaps' = 0 /\ machine'.lock => to \notin {"lock", "audit", "failed"}
  PROVE  LifeInv'
<1> USE DEF LifeInv
<1>1. agents.status # "not_installed"
  BY DEF GoneFits, Runs, Fresh
<1>2. /\ LifecycleTypeOK' /\ SlotFits' /\ JobsInOrder' /\ ClockFits' /\ IdsFit' /\ PushesFit'
      /\ GoneFits' /\ HostFits'
      /\ task' # None /\ task'.at = to /\ to \notin Fresh /\ to # "queued"
      /\ task'.op = task.op /\ task'.cred = task.cred /\ task'.old = task.old
      /\ UNCHANGED <<place, clock, sent, crashed, proved, pushes, info>>
  BY <1>1, HostGoesOn
<1>3. CredsFit' /\ TrialFits'
  BY <1>2 DEF CredsFit, TrialFits, Runs
<1>4. LeftBehind'
  BY <1>2 DEF LeftBehind, Runs, Fresh
<1> QED
  BY <1>2, <1>3, <1>4

\* What a command does, or may have done when it fails.
LEMMA CommandIs ==
  ASSUME LifeInv, NEW from, NEW good, NEW bad, NEW files, NEW running,
         Command(from, good, bad, files, running)
  PROVE  /\ task.at = from /\ UNCHANGED <<pushing, slot, jobs, agents, creds>>
         /\ mishaps' \in 0 .. MaxMishaps /\ (mishaps' = 0 => mishaps = 0)
         /\ \/ Go(good) /\ machine' = files /\ procs' = running
            \/ Go(bad) /\ mishaps' # 0 /\ machine' = files /\ procs' = running
            \/ Go(bad) /\ mishaps' # 0 /\ machine' = machine /\ procs' = procs
<1>1. mishaps \in 0 .. MaxMishaps /\ MaxMishaps \in Nat
  BY CountersAre
<1>2. Mishap => mishaps' \in 0 .. MaxMishaps /\ mishaps' # 0
  BY <1>1 DEF Mishap
<1> QED
  BY <1>1, <1>2 DEF Command, At

\* A command of an upgrade or a restart.
LEMMA UpgradeCommand ==
  ASSUME LifeInv, task # None, slot \in {"upgrade", "restart"}, NEW from, from \notin Fresh,
         NEW good \in StepsOf[slot] \cup {"audit", "failed"},
         NEW bad \in StepsOf[slot] \cup {"audit", "failed"}, NEW files, NEW running,
         Command(from, good, bad, files, running), HostMay(files, running),
         HostAt(good, files, running), HostAt(bad, files, running), HostAt(bad, machine, procs),
         mishaps = 0 /\ files.lock => good \notin {"lock", "audit", "failed"}
  PROVE  LifeInv'
<1>1. /\ task.at = from /\ UNCHANGED <<pushing, slot, jobs, agents, creds>>
      /\ mishaps' \in 0 .. MaxMishaps /\ (mishaps' = 0 => mishaps = 0)
      /\ \/ Go(good) /\ machine' = files /\ procs' = running
         \/ Go(bad) /\ mishaps' # 0 /\ machine' = files /\ procs' = running
         \/ Go(bad) /\ mishaps' # 0 /\ machine' = machine /\ procs' = procs
  BY CommandIs
<1>2. CASE Go(good) /\ machine' = files /\ procs' = running
  BY <1>1, <1>2, UpgradeMoves
<1>3. CASE Go(bad) /\ mishaps' # 0 /\ machine' = files /\ procs' = running
  BY <1>1, <1>3, UpgradeMoves
<1>4. CASE Go(bad) /\ mishaps' # 0 /\ machine' = machine /\ procs' = procs
  <2>1. HostMay(machine', procs') /\ HostAt(bad, machine', procs')
    BY <1>4, HostMayBe
  <2> QED
    BY <1>1, <1>4, <2>1, UpgradeMoves
<1> QED
  BY <1>1, <1>2, <1>3, <1>4

\* A step of an upgrade or a restart that does nothing on the host.
LEMMA UpgradePass ==
  ASSUME LifeInv, task # None, slot \in {"upgrade", "restart"}, NEW from, from \notin Fresh,
         NEW to \in StepsOf[slot] \cup {"audit", "failed"}, Pass(from, to),
         HostAt(to, machine, procs), mishaps = 0 /\ machine.lock => to \notin {"lock", "audit", "failed"}
  PROVE  LifeInv'
<1>1. /\ task.at = from /\ Go(to) /\ UNCHANGED <<pushing, slot, jobs, agents, creds>>
      /\ UNCHANGED <<machine, procs, mishaps>>
  BY DEF Pass, At, working
<1>2. HostMay(machine', procs') /\ HostAt(to, machine', procs') /\ mishaps' \in 0 .. MaxMishaps
  BY <1>1, HostMayBe, CountersAre
<1> QED
  BY <1>1, <1>2, UpgradeMoves

\* At most one loop, and what the inspection says of it.
LEMMA LoopsAre ==
  ASSUME LifeInv
  PROVE  /\ Cardinality(Loops) <= 1
         /\ Inspection = "owned" => \E p \in procs : p.id = machine.pid /\ p.placed /\ Loops = {p}
         /\ Inspection = "none" => Loops = {}
<1>1. Loops = {} \/ \E p \in procs : Loops = {p}
  BY DEF LifeInv, HostFits
<1>2. Cardinality(Loops) \in {0, 1}
  <2>1. CASE Loops = {}
    BY <2>1, FS_EmptySet
  <2>2. ASSUME NEW p \in procs, Loops = {p} PROVE Cardinality(Loops) \in {0, 1}
    BY <2>2, FS_Singleton
  <2> QED
    BY <1>1, <2>1, <2>2
<1>3. ~ (Cardinality(Loops) > 1)
  BY <1>2
<1>4. Inspection = "owned" => \E p \in Loops : p.id = machine.pid
  <2>1. SUFFICES ASSUME Inspection = "owned" PROVE \E p \in Loops : p.id = machine.pid
    OBVIOUS
  <2>2. CASE machine.pid = None
    <3>1. Inspection = IF Loops = {} THEN "none" ELSE "ambiguous"
      BY <1>3, <2>2 DEF Inspection
    <3> QED
      BY <2>1, <3>1
  <2>3. CASE machine.pid # None
    <3>1. Inspection = IF Loops = {} THEN "none"
                       ELSE IF \E p \in Loops : p.id = machine.pid THEN "owned" ELSE "mismatch"
      BY <1>3, <2>3 DEF Inspection
    <3> QED
      BY <2>1, <3>1
  <2> QED
    BY <2>2, <2>3
<1>5. Inspection = "none" => Loops = {}
  <2>1. SUFFICES ASSUME Inspection = "none" PROVE Loops = {}
    OBVIOUS
  <2>2. CASE machine.pid = None
    <3>1. Inspection = IF Loops = {} THEN "none" ELSE "ambiguous"
      BY <1>3, <2>2 DEF Inspection
    <3> QED
      BY <2>1, <3>1
  <2>3. CASE machine.pid # None
    <3>1. Inspection = IF Loops = {} THEN "none"
                       ELSE IF \E p \in Loops : p.id = machine.pid THEN "owned" ELSE "mismatch"
      BY <1>3, <2>3 DEF Inspection
    <3> QED
      BY <2>1, <3>1
  <2> QED
    BY <2>2, <2>3
<1>6. \A p \in Loops : p \in procs /\ p.placed
  BY DEF Loops
<1>7. Inspection = "owned" => \E p \in procs : p.id = machine.pid /\ p.placed /\ Loops = {p}
  <2> SUFFICES ASSUME Inspection = "owned"
               PROVE  \E p \in procs : p.id = machine.pid /\ p.placed /\ Loops = {p}
    OBVIOUS
  <2>1. PICK p \in Loops : p.id = machine.pid
    BY <1>4
  <2>2. Loops = {p}
    BY <1>1, <2>1
  <2>3. p \in procs /\ p.placed
    BY <1>6
  <2> QED
    BY <2>1, <2>2, <2>3
<1> QED
  BY <1>2, <1>5, <1>7

\* What kills the managed process, or takes the binary from under it, leaves no loop.
LEMMA LoopsEnd ==
  ASSUME LifeInv
  PROVE  /\ Inspection = "owned" => LoopsOf(Kill(procs)) = {}
         /\ LoopsOf(Displaced(procs)) = {} /\ LoopsOf(Unlinked(procs)) = {}
         /\ LoopsOf(procs) = Loops /\ Kill(procs) \subseteq procs
         /\ \A ps \in SUBSET procs : LoopsOf(ps) = {} \/ \E p \in ps : LoopsOf(ps) = {p}
         /\ \A ps \in SUBSET procs : Loops = {} => LoopsOf(ps) = {}
<1>1. LoopsOf(procs) = Loops /\ Kill(procs) \subseteq procs
  BY DEF LoopsOf, Loops, Kill
<1>2. Inspection = "owned" => LoopsOf(Kill(procs)) = {}
  <2> SUFFICES ASSUME Inspection = "owned" PROVE LoopsOf(Kill(procs)) = {}
    OBVIOUS
  <2>1. PICK p \in procs : p.id = machine.pid /\ p.placed /\ Loops = {p}
    BY LoopsAre
  <2>2. p \notin Kill(procs)
    BY <2>1 DEF Kill
  <2>3. LoopsOf(Kill(procs)) \subseteq Loops
    BY DEF Kill, LoopsOf, Loops
  <2>4. p \notin LoopsOf(Kill(procs))
    BY <2>2 DEF LoopsOf
  <2> QED
    BY <2>1, <2>3, <2>4
<1>3. ASSUME NEW q \in Process
      PROVE  /\ [q EXCEPT !.placed = @ /\ q.once].placed = (q.placed /\ q.once)
             /\ [q EXCEPT !.placed = @ /\ q.once].once = q.once
             /\ [q EXCEPT !.placed = FALSE].placed = FALSE
  BY DEF Process
<1>4. ASSUME NEW r \in Displaced(procs) PROVE ~ (r.placed /\ ~ r.once)
  <2>1. PICK q \in procs : r = [q EXCEPT !.placed = @ /\ q.once]
    BY DEF Displaced
  <2>2. q \in Process
    BY DEF LifeInv, LifecycleTypeOK
  <2>3. r.placed = (q.placed /\ q.once) /\ r.once = q.once
    BY <1>3, <2>1, <2>2
  <2> QED
    BY <2>3
<1>5. ASSUME NEW r \in Unlinked(procs) PROVE ~ r.placed
  <2>1. PICK q \in procs : r = [q EXCEPT !.placed = FALSE]
    BY DEF Unlinked
  <2>2. q \in Process
    BY DEF LifeInv, LifecycleTypeOK
  <2>3. r.placed = FALSE
    BY <1>3, <2>1, <2>2
  <2> QED
    BY <2>3
<1>6. LoopsOf(Displaced(procs)) = {} /\ LoopsOf(Unlinked(procs)) = {}
  BY <1>4, <1>5 DEF LoopsOf
<1>7. ASSUME NEW ps \in SUBSET procs
      PROVE  (LoopsOf(ps) = {} \/ \E p \in ps : LoopsOf(ps) = {p}) /\ (Loops = {} => LoopsOf(ps) = {})
  <2>1. LoopsOf(ps) \subseteq Loops /\ LoopsOf(ps) \subseteq ps
    BY DEF LoopsOf, Loops
  <2>2. Loops = {} \/ \E p \in procs : Loops = {p}
    BY DEF LifeInv, HostFits
  <2> QED
    BY <2>1, <2>2
<1> QED
  BY <1>1, <1>2, <1>6, <1>7

\* A process an operation starts.
LEMMA SpawnedIs ==
  ASSUME LifeInv, task # None, task.at \notin Fresh,
         NEW n \in 1 .. 3, NEW ver \in Versions, NEW cred \in Ids, NEW once \in BOOLEAN
  PROVE  /\ Spawned(n, ver, cred, once) \in Process
         /\ Spawned(n, ver, cred, once).id = Born3(n) /\ Spawned(n, ver, cred, once).cred = cred
         /\ Born3(n) \in Births /\ Born3(n) <= 3 * (NextJob - 1)
<1>1. task.job \in 1 .. MaxOps /\ task.job < NextJob /\ MaxOps \in Nat /\ NextJob \in Nat
      /\ Births = 0 .. 3 * MaxOps
  BY AtWorkIs, CountersAre
<1>2. Born3(n) \in Births /\ Born3(n) <= 3 * (NextJob - 1)
  BY <1>1 DEF Born3
<1>3. TRUE \in BOOLEAN
  OBVIOUS
<1>4. Spawned(n, ver, cred, once) \in Process
  BY <1>2, <1>3 DEF Spawned, Process
<1> QED
  BY <1>2, <1>4 DEF Spawned

\* A host with a new process.
LEMMA SpawnMay ==
  ASSUME LifeInv, task # None, task.at \notin Fresh, NEW n \in 1 .. 3, NEW ver \in Versions,
         NEW cred \in Ids, Known(cred), NEW once \in BOOLEAN, NEW m, NEW ps, HostMay(m, ps)
  PROVE  HostMay(m, ps \cup {Spawned(n, ver, cred, once)})
<1> DEFINE p == Spawned(n, ver, cred, once)
<1>1. p \in Process /\ p.id <= 3 * (NextJob - 1) /\ p.cred = cred
  BY SpawnedIs
<1> HIDE DEF p
<1>2. HostMay(m, ps \cup {p})
  BY <1>1 DEF HostMay
<1> QED
  BY <1>2 DEF p

\* The loops with a process that pushes once, or with one that loops where none did.
LEMMA SpawnLoops ==
  ASSUME NEW ps, NEW p, p.placed = TRUE
  PROVE  /\ p.once = TRUE => LoopsOf(ps \cup {p}) = LoopsOf(ps)
         /\ p.once = FALSE /\ LoopsOf(ps) = {} => LoopsOf(ps \cup {p}) = {p}
  BY DEF LoopsOf

\* The host of an upgrade or a restart is remote, its files may change and its processes go.
LEMMA UpgradeHost ==
  ASSUME LifeInv, slot \in {"upgrade", "restart"}, task # None
  PROVE  /\ place # "local" /\ task.op = slot
         /\ \A m \in Machine : m.conf = machine.conf =>
              /\ \A ps \in SUBSET procs : HostMay(m, ps)
              /\ HostMay(m, Displaced(procs))
<1>1. place # "local" /\ task.op = slot
  <2>1. OpsHere("local") = {"rotate"}
    BY DEF OpsHere
  <2> QED
    BY <2>1 DEF LifeInv, SlotFits
<1>2. ASSUME NEW r \in Displaced(procs) PROVE r \in Process /\ r.id <= 3 * (NextJob - 1) /\ Known(r.cred)
  <2>1. PICK q \in procs : r = [q EXCEPT !.placed = @ /\ q.once]
    BY DEF Displaced
  <2>2. q \in Process /\ q.id <= 3 * (NextJob - 1) /\ Known(q.cred)
    BY DEF LifeInv, LifecycleTypeOK, IdsFit
  <2>3. (q.placed /\ q.once) \in BOOLEAN
    BY <2>2 DEF Process
  <2>4. r \in Process /\ r.id = q.id /\ r.cred = q.cred
    BY <2>1, <2>2, <2>3 DEF Process
  <2> QED
    BY <2>2, <2>4
<1>3. machine.conf # None => Known(machine.conf)
  BY DEF LifeInv, IdsFit
<1>4. \A p \in procs : p \in Process /\ p.id <= 3 * (NextJob - 1) /\ Known(p.cred)
  BY DEF LifeInv, LifecycleTypeOK, IdsFit
<1> QED
  BY <1>1, <1>2, <1>3, <1>4 DEF HostMay

\* What the commands of an upgrade or a restart make of the files.
LEMMA FilesAre ==
  ASSUME LifeInv, task # None
  PROVE  /\ machine \in Machine
         /\ \A b \in BOOLEAN :
              LET m == [machine EXCEPT !.lock = b]
              IN m \in Machine /\ m.lock = b /\ m.bin = machine.bin /\ m.backup = machine.backup
                 /\ m.staged = machine.staged /\ m.conf = machine.conf /\ m.pid = machine.pid
         /\ \A v \in Versions :
              LET m == [machine EXCEPT !.staged = v]
              IN m \in Machine /\ m.staged = v /\ m.bin = machine.bin
                 /\ m.backup = machine.backup /\ m.lock = machine.lock
                 /\ m.conf = machine.conf /\ m.pid = machine.pid
         /\ LET m == [machine EXCEPT !.backup = 0]
            IN m \in Machine /\ m.backup = 0 /\ m.bin = machine.bin /\ m.staged = machine.staged
               /\ m.lock = machine.lock /\ m.conf = machine.conf /\ m.pid = machine.pid
         /\ \A b \in Births :
              LET m == [machine EXCEPT !.pid = b]
              IN m \in Machine /\ m.pid = b /\ m.bin = machine.bin /\ m.backup = machine.backup
                 /\ m.staged = machine.staged /\ m.conf = machine.conf /\ m.lock = machine.lock
         /\ Swapped \in Machine /\ Swapped.bin = machine.staged /\ Swapped.backup = machine.bin
         /\ Swapped.lock = machine.lock /\ Swapped.conf = machine.conf
         /\ Halfway \in Machine /\ Halfway.bin = 0 /\ Halfway.backup = machine.bin
         /\ Halfway.lock = machine.lock /\ Halfway.conf = machine.conf
         /\ LET m == [machine EXCEPT !.bin = machine.backup, !.backup = 0]
            IN m \in Machine /\ m.bin = machine.backup /\ m.backup = 0 /\ m.lock = machine.lock
               /\ m.conf = machine.conf
<1>1. machine \in Machine /\ 0 \in Versions /\ machine.bin \in Versions /\ machine.backup \in Versions
      /\ machine.staged \in Versions
  BY DEF LifeInv, LifecycleTypeOK, Machine, Versions
<1>2. ASSUME NEW b \in BOOLEAN
      PROVE  LET m == [machine EXCEPT !.lock = b]
             IN m \in Machine /\ m.lock = b /\ m.bin = machine.bin /\ m.backup = machine.backup
                /\ m.staged = machine.staged /\ m.conf = machine.conf /\ m.pid = machine.pid
  BY <1>1 DEF Machine
<1>3. ASSUME NEW v \in Versions
      PROVE  LET m == [machine EXCEPT !.staged = v]
             IN m \in Machine /\ m.staged = v /\ m.bin = machine.bin /\ m.backup = machine.backup
                /\ m.lock = machine.lock /\ m.conf = machine.conf /\ m.pid = machine.pid
  BY <1>1 DEF Machine
<1>4. LET m == [machine EXCEPT !.backup = 0]
      IN m \in Machine /\ m.backup = 0 /\ m.bin = machine.bin /\ m.staged = machine.staged
         /\ m.lock = machine.lock /\ m.conf = machine.conf /\ m.pid = machine.pid
  BY <1>1 DEF Machine
<1>5. ASSUME NEW b \in Births
      PROVE  LET m == [machine EXCEPT !.pid = b]
             IN m \in Machine /\ m.pid = b /\ m.bin = machine.bin /\ m.backup = machine.backup
                /\ m.staged = machine.staged /\ m.conf = machine.conf /\ m.lock = machine.lock
  BY <1>1 DEF Machine
<1>6. /\ Swapped \in Machine /\ Swapped.bin = machine.staged /\ Swapped.backup = machine.bin
      /\ Swapped.lock = machine.lock /\ Swapped.conf = machine.conf
  BY <1>1 DEF Machine, Swapped
<1>7. /\ Halfway \in Machine /\ Halfway.bin = 0 /\ Halfway.backup = machine.bin
      /\ Halfway.lock = machine.lock /\ Halfway.conf = machine.conf
  BY <1>1 DEF Machine, Halfway
<1>8. LET m == [machine EXCEPT !.bin = machine.backup, !.backup = 0]
      IN m \in Machine /\ m.bin = machine.backup /\ m.backup = 0 /\ m.lock = machine.lock
         /\ m.conf = machine.conf
  BY <1>1 DEF Machine
<1> QED
  BY <1>1, <1>2, <1>3, <1>4, <1>5, <1>6, <1>7, <1>8

\* The lock of the host is taken.
LEMMA AcquireLockStep == ASSUME LifeInv, task # None, AcquireLock PROVE LifeInv'
<1>1. slot \in {"upgrade", "restart"}
  BY DEF AcquireLock
<1> DEFINE m == [machine EXCEPT !.lock = TRUE]
           good == IF slot = "upgrade" THEN "stage" ELSE "inspect"
<1>2. /\ m \in Machine /\ m.conf = machine.conf /\ m.bin = machine.bin /\ m.backup = machine.backup
      /\ good \in StepsOf[slot] /\ good \in {"stage", "inspect"}
      /\ slot = "upgrade" => good = "stage"
  BY <1>1, FilesAre, StepsAre
<1>3. CASE Command("lock", good, "failed", m, procs)
  <2> HIDE DEF m, good
  <2>1. HostMay(m, procs)
    BY <1>1, <1>2, UpgradeHost
  <2>2. task.at = "lock" /\ "lock" \notin Fresh
    BY <1>3 DEF Command, At, Fresh
  <2>3. HostAt("lock", machine, procs)
    BY <2>2, HostNow
  <2>4. HostAt(good, m, procs) /\ HostAt("failed", m, procs) /\ HostAt("failed", machine, procs)
    BY <1>1, <1>2, <2>3 DEF HostAt
  <2>5. good \notin {"lock", "audit", "failed"}
    BY <1>2
  <2> QED
    BY <1>1, <1>2, <1>3, <2>1, <2>2, <2>4, <2>5, UpgradeCommand
<1>4. CASE Pass("lock", "failed")
  <2>1. task.at = "lock" /\ "lock" \notin Fresh
    BY <1>4 DEF Pass, At, Fresh
  <2>2. HostAt("failed", machine, procs)
    BY <1>1, <2>1, HostNow DEF HostAt
  <2>3. ~ (mishaps = 0 /\ machine.lock)
    BY <2>1 DEF LifeInv, LeftBehind
  <2> QED
    BY <1>1, <1>4, <2>1, <2>2, <2>3, UpgradePass
<1> QED
  BY <1>3, <1>4 DEF AcquireLock

\* The lock of the host is released, or stays.
LEMMA ReleaseLockStep ==
  ASSUME LifeInv, task # None, slot \in {"upgrade", "restart"}, ReleaseLock PROVE LifeInv'
<1> DEFINE m == [machine EXCEPT !.lock = FALSE]
<1>1. /\ m \in Machine /\ m.conf = machine.conf /\ m.bin = machine.bin /\ m.backup = machine.backup
      /\ m.pid = machine.pid /\ ~ m.lock
  <2>1. FALSE \in BOOLEAN /\ m.lock = FALSE
    BY FilesAre DEF Machine
  <2> QED
    BY <2>1, FilesAre
<1>2. CASE Command("unlock", "audit", "audit", m, procs)
  <2> HIDE DEF m
  <2>1. HostMay(m, procs)
    BY <1>1, UpgradeHost
  <2>2. task.at = "unlock" /\ "unlock" \notin Fresh
    BY <1>2 DEF Command, At, Fresh
  <2>3. HostAt("unlock", machine, procs)
    BY <2>2, HostNow
  <2>4. HostAt("audit", m, procs) /\ HostAt("audit", machine, procs)
    BY <1>1, <2>3 DEF HostAt
  <2> QED
    BY <1>1, <1>2, <2>1, <2>2, <2>4, UpgradeCommand
<1>3. CASE Command("loosen", "failed", "failed", m, procs)
  <2> HIDE DEF m
  <2>1. HostMay(m, procs)
    BY <1>1, UpgradeHost
  <2>2. task.at = "loosen" /\ "loosen" \notin Fresh
    BY <1>3 DEF Command, At, Fresh
  <2>3. HostAt("loosen", machine, procs)
    BY <2>2, HostNow
  <2>4. HostAt("failed", m, procs) /\ HostAt("failed", machine, procs)
    BY <1>1, <2>3 DEF HostAt
  <2> QED
    BY <1>1, <1>3, <2>1, <2>2, <2>4, UpgradeCommand
<1> QED
  BY <1>2, <1>3 DEF ReleaseLock

\* The managed process is inspected and stopped.
LEMMA StopManagedStep ==
  ASSUME LifeInv, task # None, slot \in {"upgrade", "restart"}, StopManaged PROVE LifeInv'
<1>1. /\ Abort \in {"unstage", "loosen"} /\ Abort \in StepsOf[slot]
      /\ {"inspect", "stop", "baseline"} \subseteq StepsOf[slot] \ Fresh
  BY StepsAre DEF Abort, Fresh
<1>2. machine \in Machine /\ HostMay(machine, procs) /\ HostMay(machine, Kill(procs))
  BY FilesAre, HostMayBe, LoopsEnd
<1>3. ASSUME task.at \in {"inspect", "stop"}
      PROVE  /\ HostAt("stop", machine, procs) /\ HostAt("inspect", machine, procs)
             /\ HostAt(Abort, machine, procs)
  BY <1>1, <1>3, HostNow DEF HostAt
<1>4. ASSUME task.at \in {"inspect", "stop"}, NEW ps \in SUBSET procs, LoopsOf(ps) = {}
      PROVE  HostAt("baseline", machine, ps) /\ HostAt(Abort, machine, ps)
  BY <1>1, <1>3, <1>4 DEF HostAt
<1>5. CASE Inspection = "owned" /\ Command("inspect", "stop", Abort, machine, procs)
  <2>1. task.at = "inspect"
    BY <1>5 DEF Command, At
  <2> QED
    BY <1>1, <1>2, <1>3, <1>5, <2>1, UpgradeCommand
<1>6. CASE /\ slot = "restart" /\ Inspection = "none"
           /\ Command("inspect", "baseline", Abort, machine, procs)
  <2>1. task.at = "inspect"
    BY <1>6 DEF Command, At
  <2>2. LoopsOf(procs) = {}
    BY <1>6, LoopsAre, LoopsEnd
  <2> QED
    BY <1>1, <1>2, <1>3, <1>4, <1>6, <2>1, <2>2, UpgradeCommand
<1>7. CASE Pass("inspect", Abort)
  <2>1. task.at = "inspect"
    BY <1>7 DEF Pass, At
  <2> QED
    BY <1>1, <1>3, <1>7, <2>1, UpgradePass
<1>8. CASE Inspection = "owned" /\ Command("stop", "baseline", Abort, machine, Kill(procs))
  <2>1. task.at = "stop"
    BY <1>8 DEF Command, At
  <2>2. Kill(procs) \in SUBSET procs /\ LoopsOf(Kill(procs)) = {}
    BY <1>8, LoopsEnd
  <2> QED
    BY <1>1, <1>2, <1>3, <1>4, <1>8, <2>1, <2>2, UpgradeCommand
<1>9. CASE Pass("stop", Abort)
  <2>1. task.at = "stop"
    BY <1>9 DEF Pass, At
  <2> QED
    BY <1>1, <1>3, <1>9, <2>1, UpgradePass
<1> QED
  BY <1>5, <1>6, <1>7, <1>8, <1>9 DEF StopManaged

\* The binaries are swapped, at once or half.
LEMMA SwapBinariesStep ==
  ASSUME LifeInv, task # None, slot = "upgrade", SwapBinaries PROVE LifeInv'
<1>1. "swap" \notin Fresh /\ "start" \in StepsOf[slot] /\ "unstage" \in StepsOf[slot] /\ Shipped # 0
  BY StepsAre DEF Fresh, Shipped
<1>2. task.at = "swap"
  BY DEF SwapBinaries, Command, Pass, At
<1>3. HostAt("swap", machine, procs)
  BY <1>2, HostNow
<1>4. LoopsOf(Displaced(procs)) = {}
  BY LoopsEnd
<1>5. CASE machine.bin # 0 /\ Command("swap", "start", "unstage", Swapped, Displaced(procs))
  <2>1. HostMay(Swapped, Displaced(procs))
    BY FilesAre, UpgradeHost
  <2>2. /\ HostAt("start", Swapped, Displaced(procs)) /\ HostAt("unstage", Swapped, Displaced(procs))
        /\ HostAt("unstage", machine, procs)
    BY <1>3, <1>4, <1>5, FilesAre DEF HostAt
  <2> QED
    BY <1>1, <1>5, <2>1, <2>2, UpgradeCommand
<1>6. CASE Pass("swap", "unstage")
  <2>1. HostAt("unstage", machine, procs)
    BY <1>3 DEF HostAt
  <2> QED
    BY <1>1, <1>6, <2>1, UpgradePass
<1>7. CASE /\ machine.bin # 0 /\ Mishap /\ Go("unstage")
           /\ machine' = Halfway /\ procs' = Displaced(procs)
           /\ UNCHANGED <<pushing, slot, jobs, agents, creds>>
  <2>1. HostMay(machine', procs')
    BY <1>7, FilesAre, UpgradeHost
  <2>2. HostAt("unstage", Halfway, Displaced(procs))
    BY <1>3, <1>4, <1>7, FilesAre DEF HostAt
  <2>3. HostAt("unstage", machine', procs')
    BY <1>7, <2>2
  <2>4. mishaps \in 0 .. MaxMishaps /\ MaxMishaps \in Nat
    BY CountersAre
  <2>5. mishaps' \in 0 .. MaxMishaps /\ mishaps' # 0
    BY <1>7, <2>4 DEF Mishap
  <2> QED
    BY <1>1, <1>2, <1>7, <2>1, <2>3, <2>5, UpgradeMoves
<1> QED
  BY <1>5, <1>6, <1>7 DEF SwapBinaries

\* A process is started and published in the pid file.
LEMMA StartFromStep ==
  ASSUME LifeInv, task # None, slot \in {"upgrade", "restart"}, NEW from, NEW n, NEW good, NEW bad,
         \/ slot = "upgrade" /\ from = "start" /\ n = 2 /\ good = "verify" /\ bad = "back"
         \/ slot = "restart" /\ from = "start" /\ n = 2 /\ good = "verify" /\ bad = "loosen"
         \/ slot = "upgrade" /\ from = "again" /\ n = 3 /\ good = "check" /\ bad = "loosen",
         StartFrom(from, n, good, bad)
  PROVE  LifeInv'
<1>1. from \notin Fresh /\ good \in StepsOf[slot] /\ bad \in StepsOf[slot] /\ n \in 1 .. 3
  BY StepsAre DEF Fresh
<1>2. task.at = from
  BY DEF StartFrom, Command, Pass, At
<1>3. HostAt(from, machine, procs) /\ LoopsOf(procs) = {}
  BY <1>2, HostNow DEF HostAt
<1>4. HostAt(bad, machine, procs)
  BY <1>3 DEF HostAt
<1>5. CASE Pass(from, bad)
  BY <1>1, <1>4, <1>5, UpgradePass
<1>6. CASE /\ machine.bin # 0 /\ machine.conf # None
           /\ LET p == Spawned(n, machine.bin, machine.conf, FALSE)
              IN Command(from, good, bad, [machine EXCEPT !.pid = p.id], procs \cup {p})
  <2> DEFINE p == Spawned(n, machine.bin, machine.conf, FALSE)
             m == [machine EXCEPT !.pid = p.id]
  <2>1. Command(from, good, bad, m, procs \cup {p})
    BY <1>6
  <2>2. machine.bin \in Versions /\ machine.conf \in Ids /\ Known(machine.conf) /\ FALSE \in BOOLEAN
    BY <1>6 DEF LifeInv, LifecycleTypeOK, Machine, IdsFit
  <2>3. /\ p \in Process /\ p.id = Born3(n) /\ Born3(n) \in Births /\ p.once = FALSE /\ p.placed = TRUE
    <3>1. task.at \notin Fresh
      BY <1>1, <1>2
    <3>2. PICK once \in BOOLEAN : once = FALSE
      BY <2>2
    <3>3. \A k \in 1 .. 3, ver \in Versions, cred \in Ids :
            /\ Spawned(k, ver, cred, once) \in Process
            /\ Spawned(k, ver, cred, once).id = Born3(k) /\ Born3(k) \in Births
      BY <3>1, SpawnedIs
    <3>4. p = Spawned(n, machine.bin, machine.conf, once)
      BY <3>2
    <3>5. p.once = FALSE /\ p.placed = TRUE
      BY DEF Spawned
    <3> HIDE DEF p
    <3> QED
      BY <1>1, <2>2, <3>3, <3>4, <3>5
  <2> HIDE DEF p
  <2>4. m \in Machine /\ m.pid = Born3(n) /\ m.bin = machine.bin /\ m.backup = machine.backup
        /\ m.conf = machine.conf /\ m.lock = machine.lock
    BY <2>3, FilesAre
  <2>5. HostMay(m, procs)
    BY <2>4, UpgradeHost
  <2>6. HostMay(m, procs \cup {p})
    BY <1>1, <1>2, <2>2, <2>5, SpawnMay DEF p
  <2> HIDE DEF p, m
  <2>7. LoopsOf(procs \cup {p}) = {p}
    BY <1>3, <2>3, SpawnLoops
  <2>8. HostAt(good, m, procs \cup {p}) /\ HostAt(bad, m, procs \cup {p})
    BY <1>3, <2>4, <2>7 DEF HostAt
  <2>9. good \notin {"lock", "audit", "failed"}
    OBVIOUS
  <2> QED
    BY <1>1, <1>4, <2>1, <2>6, <2>8, <2>9, UpgradeCommand
<1> QED
  BY <1>5, <1>6 DEF StartFrom

\* The state is polled until it shows the version, or patience ends.
LEMMA AwaitStep ==
  ASSUME LifeInv, task # None, slot \in {"upgrade", "restart"}, NEW from, NEW good, NEW bad,
         \/ slot = "upgrade" /\ from = "verify" /\ good = "clean" /\ bad = "back"
         \/ slot = "restart" /\ from = "verify" /\ good = "unlock" /\ bad = "loosen"
         \/ slot = "upgrade" /\ from = "check" /\ good = "tidy" /\ bad = "loosen",
         Await(from, good, bad)
  PROVE  LifeInv'
<1>1. from \notin Fresh /\ good \in StepsOf[slot] /\ bad \in StepsOf[slot]
  BY StepsAre DEF Fresh
<1>2. task.at = from
  BY DEF Await, Pass, At
<1>3. HostAt(from, machine, procs)
  BY <1>2, HostNow
<1>4. HostAt(good, machine, procs) /\ HostAt(bad, machine, procs)
  BY <1>3 DEF HostAt
<1>5. CASE Pass(from, good)
  BY <1>1, <1>4, <1>5, UpgradePass
<1>6. CASE Pass(from, bad)
  BY <1>1, <1>4, <1>6, UpgradePass
<1> QED
  BY <1>5, <1>6 DEF Await

\* The old binary is brought back.
LEMMA RollBackStep == ASSUME LifeInv, task # None, slot = "upgrade", RollBack PROVE LifeInv'
<1>1. /\ {"back", "restore", "base", "again", "check", "tidy", "loosen"} \subseteq StepsOf[slot] \ Fresh
  BY StepsAre DEF Fresh
<1>2. CASE Inspection = "owned" /\ Command("back", "restore", "loosen", machine, Kill(procs))
  <2>1. task.at = "back"
    BY <1>2 DEF Command, At
  <2>2. HostAt("back", machine, procs)
    BY <2>1, HostNow
  <2>3. HostMay(machine, Kill(procs)) /\ LoopsOf(Kill(procs)) = {}
    BY <1>2, HostMayBe, LoopsEnd
  <2>4. /\ HostAt("restore", machine, Kill(procs)) /\ HostAt("loosen", machine, Kill(procs))
        /\ HostAt("loosen", machine, procs)
    BY <2>2, <2>3 DEF HostAt
  <2> QED
    BY <1>1, <1>2, <2>3, <2>4, UpgradeCommand
<1>3. CASE Pass("back", "loosen")
  <2>1. task.at = "back"
    BY <1>3 DEF Pass, At
  <2>2. HostAt("loosen", machine, procs)
    BY <2>1, HostNow DEF HostAt
  <2> QED
    BY <1>1, <1>3, <2>2, UpgradePass
<1>4. CASE machine.backup # 0 /\ Command("restore", "base", "loosen",
                [machine EXCEPT !.bin = machine.backup, !.backup = 0], Displaced(procs))
  <2> DEFINE m == [machine EXCEPT !.bin = machine.backup, !.backup = 0]
  <2>1. m \in Machine /\ m.bin = machine.backup /\ m.conf = machine.conf /\ m.lock = machine.lock
    BY FilesAre
  <2> HIDE DEF m
  <2>2. Command("restore", "base", "loosen", m, Displaced(procs))
    BY <1>4 DEF m
  <2>3. task.at = "restore"
    BY <1>4 DEF Command, At
  <2>4. HostAt("restore", machine, procs)
    BY <2>3, HostNow
  <2>5. HostMay(m, Displaced(procs)) /\ LoopsOf(Displaced(procs)) = {}
    BY <2>1, UpgradeHost, LoopsEnd
  <2>6. /\ HostAt("base", m, Displaced(procs)) /\ HostAt("loosen", m, Displaced(procs))
        /\ HostAt("loosen", machine, procs)
    BY <1>4, <2>1, <2>4, <2>5 DEF HostAt
  <2> QED
    BY <1>1, <2>2, <2>5, <2>6, UpgradeCommand
<1>5. CASE Pass("restore", "loosen")
  <2>1. task.at = "restore"
    BY <1>5 DEF Pass, At
  <2>2. HostAt("loosen", machine, procs)
    BY <2>1, HostNow DEF HostAt
  <2> QED
    BY <1>1, <1>5, <2>2, UpgradePass
<1>6. CASE StartFrom("again", 3, "check", "loosen")
  BY <1>6, StartFromStep
<1>7. CASE Await("check", "tidy", "loosen")
  BY <1>7, AwaitStep
<1>8. CASE Command("tidy", "loosen", "loosen", [machine EXCEPT !.staged = 0], procs)
  <2> DEFINE m == [machine EXCEPT !.staged = 0]
  <2>1. m \in Machine /\ m.conf = machine.conf /\ m.bin = machine.bin /\ m.backup = machine.backup
    BY FilesAre DEF Versions
  <2> HIDE DEF m
  <2>2. Command("tidy", "loosen", "loosen", m, procs)
    BY <1>8 DEF m
  <2>3. task.at = "tidy"
    BY <1>8 DEF Command, At
  <2>4. HostAt("tidy", machine, procs) /\ HostMay(m, procs)
    BY <2>1, <2>3, HostNow, UpgradeHost
  <2>5. HostAt("loosen", m, procs) /\ HostAt("loosen", machine, procs)
    BY <2>1, <2>4 DEF HostAt
  <2> QED
    BY <1>1, <2>2, <2>4, <2>5, UpgradeCommand
<1> QED
  BY <1>2, <1>3, <1>4, <1>5, <1>6, <1>7, <1>8 DEF RollBack

\* A process that pushes once leaves the loops as they are.
LEMMA TrialIs ==
  ASSUME LifeInv, task # None, task.at \notin Fresh, NEW cred \in Ids, Known(cred),
         NEW m, HostMay(m, procs)
  PROVE  /\ HostMay(m, procs \cup {Spawned(1, Shipped, cred, TRUE)})
         /\ LoopsOf(procs \cup {Spawned(1, Shipped, cred, TRUE)}) = Loops
         /\ Spawned(1, Shipped, cred, TRUE).cred = cred
<1> DEFINE p == Spawned(1, Shipped, cred, TRUE)
<1>1. TRUE \in BOOLEAN /\ Shipped \in Versions
  BY DEF Versions
<1>2. HostMay(m, procs \cup {p})
  <2>1. \A ver \in Versions, once \in BOOLEAN : HostMay(m, procs \cup {Spawned(1, ver, cred, once)})
    BY SpawnMay
  <2> QED
    BY <1>1, <2>1
<1>3. p.once = TRUE /\ p.placed = TRUE /\ p.cred = cred
  BY DEF Spawned
<1> HIDE DEF p
<1>4. LoopsOf(procs \cup {p}) = LoopsOf(procs)
  BY <1>3, SpawnLoops
<1>5. LoopsOf(procs \cup {p}) = Loops
  BY <1>4, LoopsEnd
<1> QED
  BY <1>2, <1>3, <1>5 DEF p

\* The trial push of a candidate.
LEMMA UpgradeTryStep ==
  ASSUME LifeInv, task # None, slot = "upgrade", Try("inspect", "unstage") PROVE LifeInv'
<1>1. {"try", "trying", "inspect", "unstage"} \subseteq StepsOf[slot] \ Fresh
  BY StepsAre DEF Fresh
<1>2. /\ machine \in Machine /\ \A ps \in SUBSET procs : HostMay(machine, ps)
      /\ \A ps \in SUBSET procs : LoopsOf(ps) = {} \/ \E p \in ps : LoopsOf(ps) = {p}
  BY FilesAre, HostMayBe, LoopsEnd
<1>3. ASSUME NEW ps \in SUBSET procs, task.at \in {"try", "trying"}
      PROVE  HostAt("inspect", machine, ps) /\ HostAt("unstage", machine, ps)
  BY <1>2, <1>3, HostNow DEF HostAt
<1>4. CASE machine.conf # None
           /\ Command("try", "trying", "unstage", machine,
                      procs \cup {Spawned(1, Shipped, machine.conf, TRUE)})
  <2> DEFINE running == procs \cup {Spawned(1, Shipped, machine.conf, TRUE)}
  <2>1. task.at = "try"
    BY <1>4 DEF Command, At
  <2>2. machine.conf \in Ids /\ Known(machine.conf) /\ HostMay(machine, procs)
    BY <1>2, <1>4 DEF LifeInv, IdsFit, Machine
  <2>3. HostMay(machine, running) /\ LoopsOf(running) = Loops /\ procs \subseteq running
    BY <1>1, <2>1, <2>2, TrialIs
  <2> HIDE DEF running
  <2>4. HostAt("try", machine, procs) /\ Loops = LoopsOf(procs)
    BY <2>1, HostNow, LoopsEnd
  <2>5. HostAt("trying", machine, running) /\ HostAt("unstage", machine, running)
        /\ HostAt("unstage", machine, procs)
    BY <2>3, <2>4 DEF HostAt
  <2>6. Command("try", "trying", "unstage", machine, running)
    BY <1>4 DEF running
  <2> QED
    BY <1>1, <2>3, <2>5, <2>6, UpgradeCommand
<1>5. CASE Pass("try", "unstage")
  <2>1. task.at = "try"
    BY <1>5 DEF Pass, At
  <2> QED
    BY <1>1, <1>3, <1>5, <2>1, UpgradePass
<1>6. CASE /\ At("trying")
           /\ LET rest == { p \in procs : p.id # Born3(1) }
              IN \/ Born3(1) \in proved /\ procs # rest /\ procs' = rest /\ Go("inspect")
                 \/ procs' \in {procs, rest} /\ Go("unstage")
           /\ UNCHANGED <<pushing, machine, slot, jobs, agents, creds, mishaps>>
  <2>1. procs' \in SUBSET procs /\ task.at = "trying" /\ (Go("inspect") \/ Go("unstage"))
    BY <1>6 DEF At
  <2>2. HostMay(machine', procs') /\ mishaps' \in 0 .. MaxMishaps
    BY <1>2, <1>6, <2>1, CountersAre
  <2>3. HostAt("inspect", machine', procs') /\ HostAt("unstage", machine', procs')
    BY <1>3, <1>6, <2>1
  <2>4. UNCHANGED <<pushing, slot, jobs, agents, creds>> /\ mishaps' = mishaps
    BY <1>6
  <2>5. CASE Go("inspect")
    BY <1>1, <2>1, <2>2, <2>3, <2>4, <2>5, UpgradeMoves
  <2>6. CASE Go("unstage")
    BY <1>1, <2>1, <2>2, <2>3, <2>4, <2>6, UpgradeMoves
  <2> QED
    BY <2>1, <2>5, <2>6
<1> QED
  BY <1>4, <1>5, <1>6 DEF Try

\* An upgrade.
LEMMA UpgradeTaskStep == ASSUME LifeInv, task # None, UpgradeTask PROVE LifeInv'
<1>1. slot = "upgrade" /\ slot \in {"upgrade", "restart"}
  BY DEF UpgradeTask
<1>2. /\ {"stage", "try", "unstage", "clean", "unlock", "back", "loosen"} \subseteq StepsOf[slot] \ Fresh
  BY <1>1, StepsAre DEF Fresh
<1>3. CASE Command("stage", "try", "unstage", [machine EXCEPT !.staged = Shipped], procs)
  <2> DEFINE m == [machine EXCEPT !.staged = Shipped]
  <2>1. m \in Machine /\ m.conf = machine.conf /\ m.bin = machine.bin /\ m.backup = machine.backup
        /\ m.staged = Shipped
    BY FilesAre DEF Versions
  <2> HIDE DEF m
  <2>2. Command("stage", "try", "unstage", m, procs)
    BY <1>3 DEF m
  <2>3. task.at = "stage"
    BY <1>3 DEF Command, At
  <2>4. HostAt("stage", machine, procs) /\ HostMay(m, procs)
    BY <1>1, <2>1, <2>3, HostNow, UpgradeHost
  <2>5. HostAt("try", m, procs) /\ HostAt("unstage", m, procs) /\ HostAt("unstage", machine, procs)
    BY <1>1, <2>1, <2>4 DEF HostAt
  <2> QED
    BY <1>1, <1>2, <2>2, <2>4, <2>5, UpgradeCommand
<1>4. CASE Command("clean", "unlock", "back", [machine EXCEPT !.backup = 0], procs)
  <2> DEFINE m == [machine EXCEPT !.backup = 0]
  <2>1. m \in Machine /\ m.conf = machine.conf /\ m.bin = machine.bin /\ m.backup = 0
    BY FilesAre
  <2> HIDE DEF m
  <2>2. Command("clean", "unlock", "back", m, procs)
    BY <1>4 DEF m
  <2>3. task.at = "clean"
    BY <1>4 DEF Command, At
  <2>4. HostAt("clean", machine, procs) /\ HostMay(m, procs) /\ Shipped # 0
    BY <1>1, <2>1, <2>3, HostNow, UpgradeHost DEF Shipped
  <2>5. HostAt("unlock", m, procs) /\ HostAt("back", m, procs) /\ HostAt("back", machine, procs)
    BY <1>1, <2>1, <2>4 DEF HostAt
  <2> QED
    BY <1>1, <1>2, <2>2, <2>4, <2>5, UpgradeCommand
<1>5. CASE Command("unstage", "loosen", "loosen", [machine EXCEPT !.staged = 0], procs)
  <2> DEFINE m == [machine EXCEPT !.staged = 0]
  <2>1. m \in Machine /\ m.conf = machine.conf /\ m.bin = machine.bin /\ m.backup = machine.backup
    BY FilesAre DEF Versions
  <2> HIDE DEF m
  <2>2. Command("unstage", "loosen", "loosen", m, procs)
    BY <1>5 DEF m
  <2>3. task.at = "unstage"
    BY <1>5 DEF Command, At
  <2>4. HostAt("unstage", machine, procs) /\ HostMay(m, procs)
    BY <1>1, <2>1, <2>3, HostNow, UpgradeHost
  <2>5. HostAt("loosen", m, procs) /\ HostAt("loosen", machine, procs)
    BY <1>1, <2>1, <2>4 DEF HostAt
  <2> QED
    BY <1>1, <1>2, <2>2, <2>4, <2>5, UpgradeCommand
<1>6. CASE Try("inspect", "unstage")
  BY <1>1, <1>6, UpgradeTryStep
<1>7. CASE StopManaged \/ SwapBinaries \/ RollBack \/ ReleaseLock
  BY <1>1, <1>7, StopManagedStep, SwapBinariesStep, RollBackStep, ReleaseLockStep
<1>8. CASE StartFrom("start", 2, "verify", "back")
  BY <1>1, <1>8, StartFromStep
<1>9. CASE Await("verify", "clean", "back")
  BY <1>1, <1>9, AwaitStep
<1> QED
  BY <1>3, <1>4, <1>5, <1>6, <1>7, <1>8, <1>9 DEF UpgradeTask

\* A restart.
LEMMA RestartTaskStep == ASSUME LifeInv, task # None, RestartTask PROVE LifeInv'
<1>1. slot = "restart" /\ slot \in {"upgrade", "restart"}
  BY DEF RestartTask
<1>2. CASE StopManaged \/ ReleaseLock
  BY <1>1, <1>2, StopManagedStep, ReleaseLockStep
<1>3. CASE StartFrom("start", 2, "verify", "loosen")
  BY <1>1, <1>3, StartFromStep
<1>4. CASE Await("verify", "unlock", "loosen")
  BY <1>1, <1>4, AwaitStep
<1> QED
  BY <1>2, <1>3, <1>4 DEF RestartTask

\* The steps of an installation before it waits to be recorded.
Installs == {"upload", "config", "try", "trying", "launch", "online"}

\* A step of an installation on its host.
LEMMA InstallMoves ==
  ASSUME LifeInv, task # None, slot = "install", task.at \in Installs,
         NEW to \in Installs \cup {"revoke"}, Go(to),
         UNCHANGED <<pushing, slot, jobs, agents, creds>>, mishaps' \in 0 .. MaxMishaps,
         mishaps' = 0 => mishaps = 0, HostMay(machine', procs'), HostAt(to, machine', procs'),
         machine'.lock = machine.lock,
         to \in {"launch", "online"} => creds[task.cred] # "pending",
         to \in {"config", "try", "trying"} => task.at \in {"upload", "config", "try"}
            /\ \A p \in procs' : p.id = Born3(1) => p.cred = task.cred,
         to # "upload"
  PROVE  LifeInv'
<1> USE DEF LifeInv
<1>1. task.at \notin Fresh /\ to \in StepsOf[slot]
  BY StepsAre DEF Fresh, Installs
<1>2. agents.status # "not_installed" /\ ToRecord = 1
  BY <1>1 DEF GoneFits, ToRecord, Runs, Installs
<1>3. /\ LifecycleTypeOK' /\ SlotFits' /\ JobsInOrder' /\ ClockFits' /\ IdsFit' /\ PushesFit'
      /\ GoneFits' /\ HostFits'
      /\ task' # None /\ task'.at = to /\ to \notin Fresh /\ to # "queued"
      /\ task'.op = task.op /\ task'.job = task.job /\ task'.cred = task.cred /\ task'.old = task.old
      /\ UNCHANGED <<place, clock, sent, crashed, proved, pushes, info>>
  BY <1>1, <1>2, HostGoesOn
<1>4. CredsFit'
  BY <1>1, <1>3 DEF CredsFit, Runs, Installs, Fresh
<1>5. TrialFits'
  BY <1>3 DEF TrialFits, Runs, Born3, Installs
<1>6. LeftBehind'
  BY <1>3 DEF LeftBehind, Runs, Installs
<1> QED
  BY <1>3, <1>4, <1>5, <1>6

\* A command of an installation.
LEMMA InstallCommand ==
  ASSUME LifeInv, task # None, slot = "install", NEW from \in Installs,
         NEW good \in Installs, NEW files, NEW running,
         Command(from, good, "revoke", files, running), HostMay(files, running),
         HostAt(good, files, running), HostAt("revoke", files, running),
         HostAt("revoke", machine, procs), files.lock = machine.lock,
         good \in {"launch", "online"} => creds[task.cred] # "pending",
         good \in {"config", "try", "trying"} => from \in {"upload", "config", "try"}
            /\ \A p \in running : p.id = Born3(1) => p.cred = task.cred,
         good # "upload"
  PROVE  LifeInv'
<1>1. /\ task.at = from /\ UNCHANGED <<pushing, slot, jobs, agents, creds>>
      /\ mishaps' \in 0 .. MaxMishaps /\ (mishaps' = 0 => mishaps = 0)
      /\ \/ Go(good) /\ machine' = files /\ procs' = running
         \/ Go("revoke") /\ mishaps' # 0 /\ machine' = files /\ procs' = running
         \/ Go("revoke") /\ mishaps' # 0 /\ machine' = machine /\ procs' = procs
  BY CommandIs
<1>2. CASE Go(good) /\ machine' = files /\ procs' = running
  BY <1>1, <1>2, InstallMoves
<1>3. CASE Go("revoke") /\ machine' = files /\ procs' = running
  BY <1>1, <1>3, InstallMoves
<1>4. CASE Go("revoke") /\ machine' = machine /\ procs' = procs
  <2>1. HostMay(machine', procs') /\ HostAt("revoke", machine', procs') /\ machine'.lock = machine.lock
    BY <1>4, HostMayBe
  <2> QED
    BY <1>1, <1>4, <2>1, InstallMoves
<1> QED
  BY <1>1, <1>2, <1>3, <1>4

\* A step of an installation that gives up.
LEMMA InstallPass ==
  ASSUME LifeInv, task # None, slot = "install", NEW from \in Installs, Pass(from, "revoke")
  PROVE  LifeInv'
<1>1. /\ task.at = from /\ Go("revoke") /\ UNCHANGED <<pushing, slot, jobs, agents, creds>>
      /\ UNCHANGED <<machine, procs, mishaps>>
  BY DEF Pass, At, working
<1>2. HostAt("revoke", machine, procs)
  BY <1>1, HostNow DEF HostAt
<1>3. /\ HostMay(machine', procs') /\ HostAt("revoke", machine', procs') /\ mishaps' \in 0 .. MaxMishaps
      /\ machine'.lock = machine.lock
  BY <1>1, <1>2, HostMayBe, CountersAre
<1> QED
  BY <1>1, <1>3, InstallMoves

\* What an installation stands on: a remote host, and a credential that is good.
LEMMA InstallIs ==
  ASSUME LifeInv, task # None, slot = "install", task.at \in Installs
  PROVE  /\ place # "local" /\ task.at \notin Fresh /\ task.cred \in Ids /\ Known(task.cred)
         /\ machine \in Machine /\ HostMay(machine, procs)
         /\ \A m \in Machine : m.conf \in {machine.conf, task.cred} =>
              \A ps \in SUBSET procs : HostMay(m, ps)
<1>1. place # "local"
  <2>1. OpsHere("local") = {"rotate"}
    BY DEF OpsHere
  <2> QED
    BY <2>1 DEF LifeInv, SlotFits
<1>2. task.at \notin Fresh /\ task.cred \in Ids /\ task.cred < NextJob
  BY AtWorkIs DEF Fresh, Installs
<1>3. Known(task.cred)
  BY <1>2 DEF LifeInv, CredsFit, Runs, Usable, Known, Installs
<1>4. machine.conf # None => Known(machine.conf)
  BY DEF LifeInv, IdsFit
<1>5. \A p \in procs : p \in Process /\ p.id <= 3 * (NextJob - 1) /\ Known(p.cred)
  BY DEF LifeInv, LifecycleTypeOK, IdsFit
<1> QED
  BY <1>1, <1>2, <1>3, <1>4, <1>5, FilesAre, HostMayBe DEF HostMay

\* The trial push of an installation.
LEMMA InstallTryStep ==
  ASSUME LifeInv, task # None, slot = "install", Try("launch", "revoke") PROVE LifeInv'
<1>1. {"try", "trying", "launch"} \subseteq Installs
  BY DEF Installs
<1>2. CASE machine.conf # None
           /\ Command("try", "trying", "revoke", machine,
                      procs \cup {Spawned(1, Shipped, machine.conf, TRUE)})
  <2> DEFINE p == Spawned(1, Shipped, machine.conf, TRUE)
             running == procs \cup {p}
  <2>1. task.at = "try"
    BY <1>2 DEF Command, At
  <2>2. HostAt("try", machine, procs) /\ Loops = LoopsOf(procs)
    BY <2>1, HostNow, LoopsEnd
  <2>3. machine.conf = task.cred
    BY <2>2 DEF HostAt
  <2>4. /\ HostMay(machine, running) /\ LoopsOf(running) = Loops /\ p.cred = task.cred
    BY <1>1, <2>1, <2>3, InstallIs, TrialIs
  <2> HIDE DEF p
  <2>5. \A r \in running : r.id = Born3(1) => r.cred = task.cred
    BY <2>1, <2>4 DEF LifeInv, TrialFits, Runs
  <2> HIDE DEF running
  <2>6. HostAt("trying", machine, running) /\ HostAt("revoke", machine, running)
        /\ HostAt("revoke", machine, procs)
    BY <2>2, <2>4 DEF HostAt
  <2>7. Command("try", "trying", "revoke", machine, running)
    BY <1>2 DEF running, p
  <2> QED
    BY <1>1, <2>4, <2>5, <2>6, <2>7, InstallCommand
<1>3. CASE Pass("try", "revoke")
  BY <1>1, <1>3, InstallPass
<1>4. CASE /\ At("trying")
           /\ LET rest == { p \in procs : p.id # Born3(1) }
              IN \/ Born3(1) \in proved /\ procs # rest /\ procs' = rest /\ Go("launch")
                 \/ procs' \in {procs, rest} /\ Go("revoke")
           /\ UNCHANGED <<pushing, machine, slot, jobs, agents, creds, mishaps>>
  <2>1. procs' \in SUBSET procs /\ task.at = "trying" /\ task.at \in Installs
        /\ (Go("revoke") \/ (Go("launch") /\ Born3(1) \in proved))
    BY <1>1, <1>4 DEF At
  <2>2. HostMay(machine', procs') /\ mishaps' \in 0 .. MaxMishaps /\ machine'.lock = machine.lock
        /\ mishaps' = mishaps
    BY <1>4, <2>1, HostMayBe, CountersAre
  <2>3. HostAt("trying", machine, procs)
    BY <2>1, HostNow
  <2>4. LoopsOf(procs') = {} \/ \E p \in procs' : LoopsOf(procs') = {p}
    BY <2>1, LoopsEnd
  <2>5. Loops = {} /\ Loops = LoopsOf(procs)
    BY <2>3, LoopsEnd DEF HostAt
  <2>6. LoopsOf(procs') = {}
    BY <2>1, <2>5, LoopsEnd
  <2>7. HostAt("launch", machine', procs') /\ HostAt("revoke", machine', procs')
    BY <1>4, <2>3, <2>6 DEF HostAt
  <2>8. UNCHANGED <<pushing, slot, jobs, agents, creds>>
    BY <1>4
  <2>9. CASE Go("launch") /\ Born3(1) \in proved
    <3>1. creds[task.cred] # "pending"
      BY <2>1, <2>9 DEF LifeInv, TrialFits, Runs
    <3> QED
      BY <1>1, <2>1, <2>2, <2>7, <2>8, <2>9, <3>1, InstallMoves
  <2>10. CASE Go("revoke")
    BY <1>1, <2>1, <2>2, <2>7, <2>8, <2>10, InstallMoves
  <2> QED
    BY <2>1, <2>9, <2>10
<1> QED
  BY <1>2, <1>3, <1>4 DEF Try

\* An installation.
LEMMA InstallTaskStep == ASSUME LifeInv, task # None, InstallTask PROVE LifeInv'
<1>1. slot = "install" /\ Installs = {"upload", "config", "try", "trying", "launch", "online"}
  BY DEF InstallTask, Installs
<1>2. CASE Pass("upload", "revoke")
  BY <1>1, <1>2, InstallPass
<1>3. CASE ~ TextBusy /\ Command("upload", "config", "revoke", [machine EXCEPT !.bin = Shipped], procs)
  <2> DEFINE m == [machine EXCEPT !.bin = Shipped]
  <2>1. task.at = "upload" /\ "upload" \in Installs
    BY <1>1, <1>3 DEF Command, At
  <2>2. m \in Machine /\ m.conf = machine.conf /\ m.bin = Shipped /\ m.lock = machine.lock /\ Shipped # 0
    BY <1>1, <2>1, InstallIs DEF Machine, Versions, Shipped
  <2> HIDE DEF m
  <2>3. Command("upload", "config", "revoke", m, procs)
    BY <1>3 DEF m
  <2>4. HostAt("upload", machine, procs) /\ HostMay(m, procs) /\ LoopsOf(procs) = {}
    BY <1>1, <1>3, <2>1, <2>2, HostNow, InstallIs, LoopsEnd DEF TextBusy
  <2>5. HostAt("config", m, procs) /\ HostAt("revoke", m, procs) /\ HostAt("revoke", machine, procs)
    BY <1>1, <2>2, <2>4 DEF HostAt
  <2>6. \A p \in procs : p.id = Born3(1) => p.cred = task.cred
    BY <1>1, <2>1 DEF LifeInv, TrialFits, Runs
  <2> QED
    BY <1>1, <2>2, <2>3, <2>4, <2>5, <2>6, InstallCommand
<1>4. CASE Command("config", "try", "revoke", [machine EXCEPT !.conf = task.cred], procs)
  <2> DEFINE m == [machine EXCEPT !.conf = task.cred]
  <2>1. task.at = "config" /\ "config" \in Installs
    BY <1>1, <1>4 DEF Command, At
  <2>2. m \in Machine /\ m.conf = task.cred /\ m.bin = machine.bin /\ m.lock = machine.lock
        /\ Shipped # 0
    BY <1>1, <2>1, InstallIs DEF Machine, Shipped
  <2> HIDE DEF m
  <2>3. Command("config", "try", "revoke", m, procs)
    BY <1>4 DEF m
  <2>4. HostAt("config", machine, procs) /\ HostMay(m, procs)
    BY <1>1, <2>1, <2>2, HostNow, InstallIs
  <2>5. HostAt("try", m, procs) /\ HostAt("revoke", m, procs) /\ HostAt("revoke", machine, procs)
    BY <1>1, <2>2, <2>4 DEF HostAt
  <2>6. \A p \in procs : p.id = Born3(1) => p.cred = task.cred
    BY <1>1, <2>1 DEF LifeInv, TrialFits, Runs
  <2> QED
    BY <1>1, <2>2, <2>3, <2>4, <2>5, <2>6, InstallCommand
<1>5. CASE Try("launch", "revoke")
  BY <1>1, <1>5, InstallTryStep
<1>6. CASE Command("launch", "online", "revoke", [machine EXCEPT !.pid = Born3(2)],
                   procs \cup {Spawned(2, machine.bin, machine.conf, FALSE)})
  <2> DEFINE m == [machine EXCEPT !.pid = Born3(2)]
             p == Spawned(2, machine.bin, machine.conf, FALSE)
             running == procs \cup {p}
  <2>1. task.at = "launch" /\ "launch" \in Installs
    BY <1>1, <1>6 DEF Command, At
  <2>2. HostAt("launch", machine, procs)
    BY <2>1, HostNow
  <2>3. machine.conf = task.cred /\ machine.bin \in Versions /\ FALSE \in BOOLEAN
    BY <1>1, <2>1, <2>2, InstallIs DEF HostAt, Machine
  <2>4. task.at \notin Fresh /\ Known(task.cred) /\ task.cred \in Ids /\ machine \in Machine
        /\ HostMay(machine, procs)
    BY <1>1, <2>1, InstallIs
  <2>5. Born3(2) \in Births
    <3>1. task.job \in 1 .. MaxOps /\ MaxOps \in Nat
      BY <1>1, AtWorkIs
    <3> QED
      BY <3>1 DEF Born3, Births
  <2>6. m \in Machine /\ m.pid = Born3(2) /\ m.bin = machine.bin /\ m.conf = machine.conf
        /\ m.backup = machine.backup /\ m.lock = machine.lock
    BY <2>4, <2>5 DEF Machine
  <2> HIDE DEF m
  <2>7. HostMay(m, procs)
    BY <1>1, <2>1, <2>6, InstallIs
  <2>8. HostMay(m, running)
    <3>1. \A ver \in Versions, once \in BOOLEAN :
            HostMay(m, procs \cup {Spawned(2, ver, task.cred, once)})
      BY <2>4, <2>7, SpawnMay
    <3> QED
      BY <2>3, <3>1
  <2>9. LoopsOf(running) = {p} /\ p \in running
    <3>1. p.once = FALSE /\ p.placed = TRUE
      BY DEF Spawned
    <3>2. LoopsOf(procs) = {}
      BY <1>1, <2>2 DEF HostAt
    <3> HIDE DEF p
    <3> QED
      BY <3>1, <3>2, SpawnLoops
  <2> HIDE DEF p, running
  <2>10. HostAt("online", m, running) /\ HostAt("revoke", m, running) /\ HostAt("revoke", machine, procs)
    BY <1>1, <2>2, <2>3, <2>6, <2>9 DEF HostAt
  <2>11. Command("launch", "online", "revoke", m, running)
    BY <1>6 DEF m, running, p
  <2>12. creds[task.cred] # "pending"
    BY <1>1, <2>1 DEF LifeInv, CredsFit, Runs
  <2> QED
    BY <1>1, <2>6, <2>8, <2>10, <2>11, <2>12, InstallCommand
<1> QED
  BY <1>2, <1>3, <1>4, <1>5, <1>6 DEF InstallTask

\* A step of an uninstallation on its host.
LEMMA UninstallMoves ==
  ASSUME LifeInv, task # None, slot = "uninstall", task.at \in {"stop", "remove"},
         NEW to \in {"remove", "retire", "note"}, Go(to),
         UNCHANGED <<pushing, slot, jobs, agents, creds>>, mishaps' \in 0 .. MaxMishaps,
         mishaps' = 0 => mishaps = 0, HostMay(machine', procs'), HostAt(to, machine', procs'),
         machine'.lock => machine.lock,
         \A p \in procs' : \E q \in procs : p.cred = q.cred
  PROVE  LifeInv'
<1> USE DEF LifeInv
<1>1. task.at \notin Fresh /\ to \in StepsOf[slot] \cup {"audit", "failed"}
  BY StepsAre DEF Fresh
<1>2. agents.status = "not_installed" => \A p \in procs' : creds[p.cred] = "revoked"
  BY DEF GoneFits
<1>3. /\ LifecycleTypeOK' /\ SlotFits' /\ JobsInOrder' /\ ClockFits' /\ IdsFit' /\ PushesFit'
      /\ GoneFits' /\ HostFits'
      /\ task' # None /\ task'.at = to /\ to \notin Fresh /\ to # "queued"
      /\ UNCHANGED <<place, clock, sent, crashed, proved, pushes, info>>
  BY <1>1, <1>2, HostGoesOn
<1>4. CredsFit' /\ TrialFits'
  BY <1>1, <1>3 DEF CredsFit, TrialFits, Runs
<1>5. LeftBehind'
  BY <1>3 DEF LeftBehind, Runs
<1> QED
  BY <1>3, <1>4, <1>5

\* A command of an uninstallation.
LEMMA UninstallCommand ==
  ASSUME LifeInv, task # None, slot = "uninstall", NEW from \in {"stop", "remove"},
         NEW good \in {"remove", "retire"}, NEW files, NEW running,
         Command(from, good, "note", files, running), HostMay(files, running),
         HostAt(good, files, running), HostAt("note", files, running), files.lock => machine.lock,
         \A p \in running : \E q \in procs : p.cred = q.cred
  PROVE  LifeInv'
<1>1. /\ task.at = from /\ UNCHANGED <<pushing, slot, jobs, agents, creds>>
      /\ mishaps' \in 0 .. MaxMishaps /\ (mishaps' = 0 => mishaps = 0)
      /\ \/ Go(good) /\ machine' = files /\ procs' = running
         \/ Go("note") /\ mishaps' # 0 /\ machine' = files /\ procs' = running
         \/ Go("note") /\ mishaps' # 0 /\ machine' = machine /\ procs' = procs
  BY CommandIs
<1>2. CASE Go(good) /\ machine' = files /\ procs' = running
  BY <1>1, <1>2, UninstallMoves
<1>3. CASE Go("note") /\ machine' = files /\ procs' = running
  BY <1>1, <1>3, UninstallMoves
<1>4. CASE Go("note") /\ machine' = machine /\ procs' = procs
  <2>1. HostAt("note", machine, procs)
    BY HostNow DEF HostAt
  <2>2. HostMay(machine', procs') /\ HostAt("note", machine', procs')
        /\ (machine'.lock => machine.lock) /\ \A p \in procs' : \E q \in procs : p.cred = q.cred
    BY <1>4, <2>1, HostMayBe
  <2> QED
    BY <1>1, <1>4, <2>2, UninstallMoves
<1> QED
  BY <1>1, <1>2, <1>3, <1>4

\* The process of the pid file is stopped, then the directory removed.
LEMMA UninstallTaskStep == ASSUME LifeInv, task # None, UninstallTask PROVE LifeInv'
<1>1. slot = "uninstall"
  BY DEF UninstallTask
<1>2. place # "local"
  <2>1. OpsHere("local") = {"rotate"}
    BY DEF OpsHere
  <2> QED
    BY <1>1, <2>1 DEF LifeInv, SlotFits
<1>3. HostAt(task.at, machine, procs) /\ HostMay(machine, procs)
  BY HostNow, HostMayBe
<1>4. CASE Command("stop", "remove", "note", machine, Kill(procs))
  <2>1. Kill(procs) \subseteq procs /\ HostMay(machine, Kill(procs))
    BY LoopsEnd, HostMayBe
  <2>2. LoopsOf(Kill(procs)) = {} \/ \E p \in Kill(procs) : LoopsOf(Kill(procs)) = {p}
    BY <2>1, LoopsEnd
  <2>3. HostAt("remove", machine, Kill(procs)) /\ HostAt("note", machine, Kill(procs))
    BY <1>1, <1>3, <2>2 DEF HostAt
  <2> QED
    BY <1>1, <1>4, <2>1, <2>3, UninstallCommand
<1>5. CASE Command("remove", "retire", "note", Bare, Unlinked(procs))
  <2>1. Bare \in Machine /\ Bare.conf = None /\ Bare.lock = FALSE
    <3>1. FALSE \in BOOLEAN
      OBVIOUS
    <3> QED
      BY <3>1 DEF Bare, Machine, Versions
  <2>2. ASSUME NEW r \in Unlinked(procs)
        PROVE  r \in Process /\ r.id <= 3 * (NextJob - 1) /\ Known(r.cred)
               /\ \E q \in procs : r.cred = q.cred
    <3>1. PICK q \in procs : r = [q EXCEPT !.placed = FALSE]
      BY DEF Unlinked
    <3>2. q \in Process
      BY DEF LifeInv, LifecycleTypeOK
    <3>3. FALSE \in BOOLEAN
      OBVIOUS
    <3>4. r \in Process /\ r.id = q.id /\ r.cred = q.cred
      BY <3>1, <3>2, <3>3 DEF Process
    <3> QED
      BY <3>1, <3>4 DEF LifeInv, IdsFit
  <2>3. HostMay(Bare, Unlinked(procs))
    BY <1>2, <2>1, <2>2 DEF HostMay
  <2>4. HostAt("retire", Bare, Unlinked(procs)) /\ HostAt("note", Bare, Unlinked(procs))
    <3>1. LoopsOf(Unlinked(procs)) = {}
      BY LoopsEnd
    <3> QED
      BY <1>1, <2>1, <3>1 DEF HostAt
  <2> QED
    BY <1>1, <1>5, <2>1, <2>2, <2>3, <2>4, UninstallCommand
<1> QED
  BY <1>4, <1>5 DEF UninstallTask

\* A step of the rotation on its host.
LEMMA RotateMoves ==
  ASSUME LifeInv, task # None, slot = "rotate", task.at = "apply", agents.status # "not_installed",
         NEW to \in {"activate", "revoke"}, Go(to),
         UNCHANGED <<pushing, slot, jobs, agents, creds>>, mishaps' \in 0 .. MaxMishaps,
         mishaps' = 0 => mishaps = 0, HostMay(machine', procs'), HostAt(to, machine', procs'),
         machine'.lock = machine.lock
  PROVE  LifeInv'
<1> USE DEF LifeInv
<1>1. task.at \notin Fresh /\ to \in StepsOf[slot] \cup {"audit", "failed"}
  BY StepsAre DEF Fresh
<1>2. /\ LifecycleTypeOK' /\ SlotFits' /\ JobsInOrder' /\ ClockFits' /\ IdsFit' /\ PushesFit'
      /\ GoneFits' /\ HostFits'
      /\ task' # None /\ task'.at = to /\ to \notin Fresh /\ to # "queued"
      /\ task'.cred = task.cred /\ task'.old = task.old
      /\ UNCHANGED <<place, clock, sent, crashed, proved, pushes, info>>
  BY <1>1, HostGoesOn
<1>3. CredsFit' /\ TrialFits'
  BY <1>1, <1>2 DEF CredsFit, TrialFits, Runs, Fresh
<1>4. LeftBehind'
  BY <1>2 DEF LeftBehind, Runs
<1> QED
  BY <1>2, <1>3, <1>4

\* The helper puts the new credential on the host and starts the agent again.
LEMMA ApplyCredentialStep == ASSUME LifeInv, task # None, ApplyCredential PROVE LifeInv'
<1> DEFINE m == [machine EXCEPT !.conf = task.cred]
           p == Spawned(1, machine.bin, task.cred, FALSE)
<1>1. /\ task.at = "apply" /\ UNCHANGED <<pushing, slot, jobs, agents, creds>>
      /\ mishaps' \in 0 .. MaxMishaps /\ (mishaps' = 0 => mishaps = 0)
      /\ \/ Go("activate") /\ machine' = m /\ procs' = {p}
         \/ Go("revoke") /\ mishaps' # 0 /\ machine' = m /\ procs' = {p}
         \/ Go("revoke") /\ mishaps' # 0 /\ machine' = machine /\ procs' = procs
  BY CommandIs DEF ApplyCredential
<1>2. slot = "rotate"
  <2>1. task.at \in StepsOf[slot] \cup {"ready", "prepared", "queued", "audit", "failed"} /\ slot \in Ops
    BY AtWorkIs
  <2> QED
    BY <1>1, <2>1, StepsAre, OpsAre
<1>3. place = "local"
  <2>1. slot \in OpsHere(place)
    BY DEF LifeInv, SlotFits
  <2> QED
    BY <1>2, <2>1 DEF OpsHere
<1>4. agents.status # "not_installed" /\ machine.bin # 0 /\ machine \in Machine
      /\ machine.bin \in Versions
  BY <1>3 DEF LifeInv, SlotFits, LifecycleTypeOK, Machine
<1>5. task.at \notin Fresh /\ task.cred \in Ids /\ Known(task.cred) /\ HostAt("apply", machine, procs)
  <2>1. task.at \notin Fresh
    BY <1>1 DEF Fresh
  <2>2. task.cred \in Ids /\ task.cred < NextJob
    BY <2>1, AtWorkIs
  <2>3. Known(task.cred)
    BY <1>1, <1>2, <2>2 DEF LifeInv, CredsFit, Runs, Usable, Known
  <2> QED
    BY <1>1, <2>1, <2>2, <2>3, HostNow
<1>6. m \in Machine /\ m.conf = task.cred /\ m.bin = machine.bin /\ m.lock = machine.lock
  BY <1>4, <1>5 DEF Machine
<1>7. /\ p \in Process /\ p.id <= 3 * (NextJob - 1) /\ p.cred = task.cred
      /\ p.placed = TRUE /\ p.once = FALSE
  <2>1. \A once \in BOOLEAN :
          LET q == Spawned(1, machine.bin, task.cred, once)
          IN q \in Process /\ q.id <= 3 * (NextJob - 1) /\ q.cred = task.cred
    BY <1>4, <1>5, SpawnedIs
  <2>2. FALSE \in BOOLEAN
    OBVIOUS
  <2>3. p.placed = TRUE /\ p.once = FALSE
    BY DEF Spawned
  <2> QED
    BY <2>1, <2>2, <2>3
<1> HIDE DEF m, p
<1>8. HostMay(m, {p})
  BY <1>4, <1>5, <1>6, <1>7 DEF HostMay
<1>9. LoopsOf({p}) = {p}
  BY <1>7 DEF LoopsOf
<1>10. HostAt("activate", m, {p}) /\ HostAt("revoke", m, {p}) /\ HostAt("revoke", machine, procs)
  BY <1>2, <1>4, <1>5, <1>6, <1>9 DEF HostAt
<1>11. CASE Go("activate") /\ machine' = m /\ procs' = {p}
  BY <1>1, <1>2, <1>4, <1>6, <1>8, <1>10, <1>11, RotateMoves
<1>12. CASE Go("revoke") /\ machine' = m /\ procs' = {p}
  BY <1>1, <1>2, <1>4, <1>6, <1>8, <1>10, <1>12, RotateMoves
<1>13. CASE Go("revoke") /\ machine' = machine /\ procs' = procs
  <2>1. HostMay(machine', procs') /\ HostAt("revoke", machine', procs')
    BY <1>10, <1>13, HostMayBe
  <2> QED
    BY <1>1, <1>2, <1>4, <1>13, <2>1, RotateMoves
<1> QED
  BY <1>1, <1>11, <1>12, <1>13

\* What was prepared is handed on, or its setup fails.
LEMMA EnqueueStep == ASSUME LifeInv, task # None, Enqueue PROVE LifeInv'
  BY DispatchStep, SetupFailsStep DEF Enqueue

\* At first nothing is at work, and the host has no agent or the one its rows describe.
LEMMA LifecycleBegins == ASSUME LInit PROVE LifeInv
<1>1. /\ place \in Places /\ slot = None /\ task = None
      /\ jobs = [o \in 1 .. MaxOps |-> "none"]
      /\ pushes = {} /\ clock = 0 /\ sent = 0 /\ mishaps = 0 /\ crashed = FALSE /\ proved = {}
  BY DEF LInit
<1>2. PICK v \in Versions :
       /\ v = 0 => place = "remote"
       /\ agents = IF v = 0 THEN Absent ELSE [status |-> "online", version |-> v, seen |-> 0]
       /\ info = (v # 0)
       /\ creds = [c \in Ids |-> IF c = 0 /\ v # 0 THEN "active" ELSE "unused"]
       /\ machine = IF v = 0 THEN Bare ELSE [Bare EXCEPT !.bin = v, !.conf = 0, !.pid = 0]
       /\ procs = IF v = 0 THEN {}
                  ELSE {[id |-> 0, ver |-> v, cred |-> 0, placed |-> TRUE, once |-> FALSE]}
  BY DEF LInit
<1>3. /\ MaxOps \in Nat /\ MaxPushes \in Nat /\ MaxMishaps \in Nat /\ None \notin Nat
      /\ 0 \in Ids /\ 0 \in Births /\ 0 \in Times /\ 0 \in Versions /\ Ids \subseteq Int
  BY LifecycleAssumption DEF Ids, Births, Times, Versions
<1>4. NextJob = 1
  <2>1. { o \in 1 .. MaxOps : jobs[o] # "none" } = {}
    BY <1>1
  <2> QED
    BY <2>1, FS_EmptySet DEF NextJob
<1>5. /\ agents \in AgentState /\ info \in BOOLEAN /\ machine \in Machine /\ machine.lock = FALSE
      /\ creds \in [Ids -> {"unused", "pending", "active", "revoked"}]
      /\ \A c \in Ids : creds[c] # "pending" /\ (c # 0 => creds[c] = "unused")
      /\ agents.status \in {"not_installed", "online"}
  <2>1. agents \in AgentState /\ agents.status \in {"not_installed", "online"}
    BY <1>2, <1>3 DEF AgentState, Absent
  <2>2. machine \in Machine /\ machine.lock = FALSE
    <3>1. FALSE \in BOOLEAN
      OBVIOUS
    <3>2. Bare \in Machine /\ Bare.lock = FALSE
      BY <1>3, <3>1 DEF Machine, Bare
    <3> QED
      BY <1>2, <1>3, <3>2 DEF Machine
  <2>3. info \in BOOLEAN
    BY <1>2
  <2>4. creds \in [Ids -> {"unused", "pending", "active", "revoked"}]
        /\ \A c \in Ids : creds[c] # "pending" /\ (c # 0 => creds[c] = "unused")
    BY <1>2
  <2> QED
    BY <2>1, <2>2, <2>3, <2>4
<1>6. NextJob \in 1 .. MaxOps + 1 /\ \A o \in 1 .. MaxOps : jobs[o] # "none" <=> o < NextJob
  BY <1>1, <1>3, <1>4
<1>7. CASE v = 0
  <2>1. /\ place = "remote" /\ procs = {} /\ machine = Bare /\ ~ info
        /\ \A c \in Ids : creds[c] = "unused"
    BY <1>2, <1>7
  <2>2. LifecycleTypeOK
    <3>1. sent \in 0 .. MaxPushes /\ mishaps \in 0 .. MaxMishaps /\ clock \in Times
      BY <1>1, <1>3
    <3> QED
      BY <1>1, <1>5, <2>1, <3>1 DEF LifecycleTypeOK
  <2>3. SlotFits /\ PushesFit /\ CredsFit /\ TrialFits
    BY <1>1, <1>5, <2>1 DEF SlotFits, PushesFit, Ingests, CredsFit, TrialFits, Runs
  <2>4. JobsInOrder
    BY <1>1, <1>5, <1>6, <2>1 DEF JobsInOrder
  <2>5. ClockFits
    <3>1. Unstamped = {} /\ ToRecord = 0
      BY <1>1 DEF Unstamped, ToRecord, Runs
    <3> QED
      BY <1>1, <1>4, <3>1, FS_EmptySet DEF ClockFits
  <2>6. IdsFit
    BY <1>1, <2>1 DEF IdsFit, Bare
  <2>7. GoneFits
    BY <1>1, <2>1 DEF GoneFits, Runs
  <2>8. HostFits
    BY <1>1, <2>1 DEF HostFits, Runs, Loops, Bare
  <2>9. LeftBehind
    BY <1>5 DEF LeftBehind
  <2> QED
    BY <2>2, <2>3, <2>4, <2>5, <2>6, <2>7, <2>8, <2>9 DEF LifeInv
<1>8. CASE v # 0
  <2> DEFINE p == [id |-> 0, ver |-> v, cred |-> 0, placed |-> TRUE, once |-> FALSE]
  <2>1. procs = {p} /\ agents.status = "online" /\ machine.conf = 0 /\ machine.bin = v
        /\ creds[0] = "active"
    BY <1>2, <1>3, <1>8 DEF Bare
  <2>2. p \in Process /\ p.id = 0 /\ p.cred = 0 /\ p.placed /\ ~ p.once
    BY <1>3 DEF Process
  <2> HIDE DEF p
  <2>3. LifecycleTypeOK
    <3>1. sent \in 0 .. MaxPushes /\ mishaps \in 0 .. MaxMishaps /\ clock \in Times
      BY <1>1, <1>3
    <3> QED
      BY <1>1, <1>5, <2>1, <2>2, <3>1 DEF LifecycleTypeOK
  <2>4. SlotFits /\ PushesFit /\ CredsFit /\ TrialFits
    BY <1>1, <1>5, <1>8, <2>1 DEF SlotFits, PushesFit, Ingests, CredsFit, TrialFits, Runs
  <2>5. JobsInOrder
    <3>1. \A c \in Ids : c >= 1 => creds[c] = "unused"
      BY <1>3, <1>5
    <3>2. \A c \in Ids : c > 1 => creds[c] = "unused"
      BY <1>3, <1>5
    <3> QED
      BY <1>1, <1>4, <1>6, <3>1, <3>2 DEF JobsInOrder
  <2>6. ClockFits
    <3>1. Unstamped = {} /\ ToRecord = 0
      BY <1>1 DEF Unstamped, ToRecord, Runs
    <3> QED
      BY <1>1, <1>4, <3>1, FS_EmptySet DEF ClockFits
  <2>7. IdsFit
    BY <1>1, <1>4, <2>1, <2>2 DEF IdsFit, Known
  <2>8. GoneFits
    BY <1>1, <2>1 DEF GoneFits, Runs
  <2>9. HostFits
    <3>1. Loops = {p}
      BY <2>1, <2>2 DEF Loops
    <3> QED
      BY <1>1, <1>8, <2>1, <3>1 DEF HostFits, Runs
  <2>10. LeftBehind
    BY <1>5, <2>1 DEF LeftBehind
  <2> QED
    BY <2>3, <2>4, <2>5, <2>6, <2>7, <2>8, <2>9, <2>10 DEF LifeInv
<1> QED
  BY <1>7, <1>8

\* A step that changes nothing.
LEMMA LifecycleStutters == ASSUME LifeInv, UNCHANGED lvars PROVE LifeInv'
<1>1. UNCHANGED << place, slot, task, jobs, agents, info, creds, machine, procs, pushes,
                   clock, sent, mishaps, crashed, proved >>
  BY DEF lvars
<1>2. LifecycleTypeOK' /\ SlotFits' /\ JobsInOrder'
  BY <1>1 DEF LifeInv, LifecycleTypeOK, SlotFits, JobsInOrder, NextJob
<1>3. ClockFits' /\ IdsFit' /\ PushesFit' /\ GoneFits'
  BY <1>1 DEF LifeInv, ClockFits, Unstamped, ToRecord, Runs, NextJob, IdsFit, Known,
              PushesFit, Ingests, GoneFits
<1>4. HostFits' /\ CredsFit' /\ TrialFits' /\ LeftBehind'
  BY <1>1 DEF LifeInv, HostFits, Loops, CredsFit, TrialFits, LeftBehind, Runs, Born3
<1> QED
  BY <1>2, <1>3, <1>4 DEF LifeInv

\* Every step of an operation.
LEMMA OperationKeeps == ASSUME LifeInv, Operation PROVE LifeInv'
<1>1. task # None
  BY DEF Operation
<1>2. CASE Prepare \/ Enqueue \/ StartJob
  BY <1>1, <1>2, PrepareStep, EnqueueStep, StartJobStep
<1>3. CASE InstallTask \/ RecordInstalled
  BY <1>1, <1>3, InstallTaskStep, RecordInstalledStep
<1>4. CASE UninstallTask \/ RevokeAll \/ RecordGone
  BY <1>1, <1>4, UninstallTaskStep, RevokeAllStep, RecordGoneStep
<1>5. CASE AcquireLock \/ TakeBaseline \/ UpgradeTask \/ RestartTask
  BY <1>1, <1>5, AcquireLockStep, TakeBaselineStep, UpgradeTaskStep, RestartTaskStep
<1>6. CASE ApplyCredential \/ ActivateNew \/ RevokeOld
  BY <1>1, <1>6, ApplyCredentialStep, ActivateNewStep, RevokeOldStep
<1>7. CASE AuditSuccess \/ RevokeNew \/ NoteFailure \/ Fail
  BY <1>1, <1>7, AuditSuccessStep, RevokeNewStep, NoteFailureStep, FailStep
<1> QED
  BY <1>2, <1>3, <1>4, <1>5, <1>6, <1>7 DEF Operation

\* Every step of the system.
LEMMA LifecycleKeeps == ASSUME LifeInv, [LNext]_lvars PROVE LifeInv'
<1>1. CASE SendPush
  BY <1>1, SendPushStep
<1>2. CASE Handler
  BY <1>2, VerifyTokenStep, BeginIngestStep, StampPushStep, UseCredentialStep, LandPushStep,
     EndIngestStep DEF Handler
<1>3. CASE TryAcquire
  BY <1>3, TryAcquireStep
<1>4. CASE Operation
  BY <1>4, OperationKeeps
<1>5. CASE Die \/ Crash
  BY <1>5, DieStep, CrashStep
<1>6. CASE UNCHANGED lvars
  BY <1>6, LifecycleStutters
<1> QED
  BY <1>1, <1>2, <1>3, <1>4, <1>5, <1>6 DEF LNext

\* What the invariant says of the host, the rows and the slot.
LEMMA LifecycleMeans == ASSUME LifeInv PROVE LifecycleIsSound
<1>1. OneAgent
  BY LoopsAre DEF OneAgent
<1>2. GoneStaysGone
  BY DEF LifeInv, GoneFits, GoneStaysGone
<1>3. BinaryIsNeverLost
  BY DEF LifeInv, HostFits, BinaryIsNeverLost
<1>4. NothingIsLeftBehind
  BY DEF LifeInv, LeftBehind, NothingIsLeftBehind, Runs
<1>5. PendingHasOwner
  BY DEF LifeInv, CredsFit, PendingHasOwner, LifecycleTypeOK
<1> QED
  BY <1>1, <1>2, <1>3, <1>4, <1>5 DEF LifecycleIsSound, LifeInv

\* Only the audit record of a success makes a job succeed.
LEMMA OnlyAuditSucceeds ==
  ASSUME LifeInv, [LNext]_lvars, NEW j \in 1 .. MaxOps, jobs[j] # "succeeded", jobs'[j] = "succeeded"
  PROVE  task # None /\ task.at = "audit"
<1>1. ASSUME NEW x \in {"queued", "running", "failed"}, jobs' = [jobs EXCEPT ![task.job] = x]
      PROVE  FALSE
  <2>1. jobs'[j] \in {jobs[j], x}
    BY <1>1 DEF LifeInv, LifecycleTypeOK
  <2> QED
    BY <1>1, <2>1
<1>2. jobs' # jobs
  OBVIOUS
<1>3. CASE SendPush
  BY <1>2, <1>3 DEF SendPush
<1>4. CASE Handler
  BY <1>2, <1>4 DEF Handler, VerifyToken, BeginIngest, StampPush, UseCredential, LandPush, EndIngest
<1>5. CASE TryAcquire
  BY <1>2, <1>5 DEF TryAcquire
<1>6. CASE Operation
  <2>1. task # None
    BY <1>6 DEF Operation
  <2>2. CASE Prepare
    BY <1>2, <2>2 DEF Prepare
  <2>3. CASE Enqueue
    BY <1>1, <2>3 DEF Enqueue, Dispatch, SetupFails
  <2>4. CASE StartJob
    BY <1>1, <1>2, <2>4 DEF StartJob
  <2>5. CASE InstallTask
    BY <1>2, <2>5 DEF InstallTask, Pass, Command, Try
  <2>6. CASE RecordInstalled
    BY <1>2, <2>6 DEF RecordInstalled
  <2>7. CASE UninstallTask \/ RevokeAll \/ RecordGone
    BY <1>2, <2>7 DEF UninstallTask, Command, RevokeAll, RecordGone
  <2>8. CASE AcquireLock
    BY <1>2, <2>8 DEF AcquireLock, Command, Pass
  <2>9. CASE TakeBaseline
    BY <1>2, <2>9 DEF TakeBaseline
  <2>10. CASE UpgradeTask
    BY <1>2, <2>10 DEF UpgradeTask, Command, Pass, Try, StopManaged, SwapBinaries, StartFrom, Await,
                      RollBack, ReleaseLock
  <2>11. CASE RestartTask
    BY <1>2, <2>11 DEF RestartTask, Command, Pass, StopManaged, StartFrom, Await, ReleaseLock
  <2>12. CASE ApplyCredential \/ ActivateNew \/ RevokeOld
    BY <1>2, <2>12 DEF ApplyCredential, Command, ActivateNew, RevokeOld
  <2>13. CASE AuditSuccess
    BY <2>1, <2>13 DEF AuditSuccess, At
  <2>14. CASE RevokeNew \/ NoteFailure
    BY <1>2, <2>14 DEF RevokeNew, NoteFailure
  <2>15. CASE Fail
    BY <1>1, <2>15 DEF Fail, Finish
  <2> QED
    BY <1>6, <2>2, <2>3, <2>4, <2>5, <2>6, <2>7, <2>8, <2>9, <2>10, <2>11, <2>12, <2>13, <2>14, <2>15
       DEF Operation
<1>7. CASE Die \/ Crash
  BY <1>2, <1>7 DEF Die, Crash
<1>8. CASE UNCHANGED lvars
  BY <1>2, <1>8 DEF lvars
<1> QED
  BY <1>3, <1>4, <1>5, <1>6, <1>7, <1>8 DEF LNext

\* What an operation has done when its success is to be recorded.
LEMMA SuccessStands ==
  ASSUME LifeInv, task # None, task.at = "audit"
  PROVE  CASE slot = "install" -> machine.conf = task.cred /\ creds[task.cred] \in Usable
           [] slot = "uninstall" -> machine.conf = None /\ \A c \in Ids : creds[c] \notin Usable
           [] slot = "upgrade" -> machine.bin = Shipped /\ machine.backup = 0
           [] slot = "restart" -> machine.pid = Born3(2)
           [] slot = "rotate" -> machine.conf = task.cred /\ creds[task.cred] = "active"
<1>1. slot \in {"install", "uninstall", "upgrade", "restart", "rotate"}
  BY AtWorkIs, OpsAre
<1> QED
  BY <1>1 DEF LifeInv, HostFits, CredsFit, Runs

\* In every step of every operation, among pushes, deaths of processes and crashes of the
\* API, the host, the rows and the slot agree: at most one loop, no binary lost, nothing
\* left behind, no pending credential without an owner, and what is gone stays gone.
THEOREM LifecycleStaysSound == LSpec => []LifecycleIsSound
<1>1. LInit => LifeInv
  BY LifecycleBegins
<1>2. LifeInv /\ [LNext]_lvars => LifeInv'
  BY LifecycleKeeps
<1>3. LifeInv => LifecycleIsSound
  BY LifecycleMeans
<1> QED
  BY <1>1, <1>2, <1>3, PTL DEF LSpec

\* A job that succeeds has done what it is for: nothing between its last step on the host
\* and the record of its success, a push that lands or a process that dies, undoes it.
THEOREM SuccessIsAlwaysEarned == LSpec => SuccessIsEarned
<1>1. LInit => LifeInv
  BY LifecycleBegins
<1>2. LifeInv /\ [LNext]_lvars => LifeInv'
  BY LifecycleKeeps
<1> DEFINE Earned ==
      \A j \in 1 .. MaxOps :
        jobs[j] # "succeeded" /\ jobs'[j] = "succeeded" =>
          CASE slot = "install" -> machine.conf = task.cred /\ creds[task.cred] \in Usable
            [] slot = "uninstall" -> machine.conf = None /\ \A c \in Ids : creds[c] \notin Usable
            [] slot = "upgrade" -> machine.bin = Shipped /\ machine.backup = 0
            [] slot = "restart" -> machine.pid = Born3(2)
            [] slot = "rotate" -> machine.conf = task.cred /\ creds[task.cred] = "active"
<1>3. LifeInv /\ [LNext]_lvars => [Earned]_lvars
  BY OnlyAuditSucceeds, SuccessStands
<1>4. SuccessIsEarned <=> [][Earned]_lvars
  BY DEF SuccessIsEarned
<1> QED
  BY <1>1, <1>2, <1>3, <1>4, PTL DEF LSpec

-----------------------------------------------------------------------------
(* SshTrust *)

TrustPin   == [of : Hosts, at : Endpoints, key : HostKeys, before : SUBSET Hosts]
TrustWord  == [of : Hosts, at : Endpoints, key : HostKeys]
TrustSteps == {"done", "begun", "pin", "changed", "open", "write", "endpoint", "type",
                "typeless", "dial"}

\* What a request may hold.
TrustAsk == [ op : {"none", "trust", "update", "revoke", "delete", "connect"},
              of : Hosts \cup {Gone}, at : Endpoints \cup {Gone}, to : Endpoints \cup {Gone},
              key : HostKeys \cup {Gone}, step : TrustSteps, seen : SUBSET TrustPin,
              pinned : SUBSET HostKeys, types : SUBSET {KeyType[k] : k \in HostKeys},
              strict : BOOLEAN, calm : BOOLEAN,
              result : {"none", "ok", "failed", "refused", "accepted"} ]

Once(s)       == \A p, q \in s : p.of = q.of => p = q
OncePlaced(s) == \A p, q \in s : p.at = q.at => p = q

TrustIsTyped ==
  /\ store \in {"postgres", "json"}
  /\ inventory \in [Hosts -> Endpoints \cup {Gone}] /\ offered \in [Endpoints -> Offers]
  /\ pins \subseteq TrustPin /\ torn \in BOOLEAN
  /\ request \in [Requests -> TrustAsk]
  /\ started \in 0 .. MaxRequests /\ rebuilt \in 0 .. MaxReinstalls
  /\ vouched \subseteq TrustWord /\ trustRaced \subseteq Hosts

\* What a step says of its request; only the file is written in two steps.
FitsStep(r, kept) ==
  /\ r.step # "done" =>
       /\ r.of \in Hosts /\ r.at \in Endpoints /\ r.op # "none" /\ r.result = "none"
       /\ r.op = "trust" => r.key \in HostKeys
       /\ r.op = "update" => r.to \in Endpoints
  /\ r.step = "pin" => r.op = "trust"
  /\ r.step = "changed" => r.op = "update"
  /\ r.step \in {"open", "write"} => kept = "json" /\ r.op \in {"trust", "update", "revoke"}
  /\ r.step \in {"endpoint", "type", "typeless", "dial"} => r.op = "connect"

\* Whatever a request has read of the pins a user has said, and so what a
\* connection takes for trusted, for its VPS or for its endpoint.
VouchedFor(r, said) ==
  /\ Once(r.seen) /\ Saying(r.seen) \subseteq said
  /\ r.op = "connect" =>
       /\ \A k \in r.pinned : \E p \in said : p.key = k /\ (p.of = r.of \/ p.at = r.at)
       /\ r.result = "accepted" /\ (r.strict \/ r.pinned # {}) => r.key \in r.pinned

\* What a connection that nothing has disturbed has read is still so.
Current(r, s, gap, keys) ==
  r.op = "connect" /\ r.calm =>
    /\ r.step # "done" => ~ gap
    /\ r.step \in {"endpoint", "typeless"} => PinsOf(s, r.of) = {}
    /\ r.step \in {"type", "dial"} /\ PinsOf(s, r.of) # {} => r.pinned = KeysPinned(PinsOf(s, r.of))
    /\ r.step = "dial" /\ PinsOf(s, r.of) # {} => r.types = {KeyType[k] : k \in r.pinned}
    /\ r.step = "done" /\ ~ gap =>
         \A p \in PinsOf(s, r.of) : p.key \in keys[r.at] => r.result = "accepted"

\* A request that writes, and an update that has changed the endpoint and still
\* has to take the pin away.
Writing(r)  == r.op # "connect" /\ r.step # "done"
Changing(r) == r.op = "update" /\ r.step \in {"changed", "open", "write"}

PinsAreSaid ==
  /\ Once(pins) /\ Saying(pins) \subseteq vouched
  /\ store = "postgres" => OncePlaced(pins)

RequestsAreFit ==
  \A t \in Requests : /\ FitsStep(request[t], store) /\ VouchedFor(request[t], vouched)
                      /\ Current(request[t], pins, torn, offered)

TornIsWritten == torn => \E t \in Requests : request[t].step = "write"

\* Requests that write beside each other are known; in the file they are a
\* danger to the pins of every VPS.
RacesAreKnown ==
  /\ store = "json" => trustRaced = {} \/ Hosts \subseteq trustRaced
  /\ \A t, u \in Requests : t # u /\ Writing(request[t]) /\ Writing(request[u]) =>
       /\ store = "json" => Hosts \subseteq trustRaced
       /\ request[t].of = request[u].of => request[t].of \in trustRaced

\* A lone request has read the file as it is, and knows the endpoint as it is
\* until it changes it itself; pins match it, or are about to go.
LoneOnesAreCurrent ==
  /\ \A t \in Requests : request[t].step \in {"open", "write"} =>
       Hosts \subseteq trustRaced \/ request[t].seen = pins
  /\ \A t \in Requests : LET r == request[t] IN
       Writing(r) /\ ~ Changing(r) => r.of \in trustRaced \/ inventory[r.of] = r.at
  /\ \A p \in pins :
       \/ p.of \in trustRaced
       \/ inventory[p.of] \in {p.at, Gone}
       \/ \E t \in Requests : Changing(request[t]) /\ request[t].of = p.of

TrustInv ==
  /\ TrustIsTyped /\ PinsAreSaid /\ RequestsAreFit /\ TornIsWritten
  /\ RacesAreKnown /\ LoneOnesAreCurrent

-----------------------------------------------------------------------------
(* What the helpers return *)

\* A pin written takes the place of the one of its VPS, and leaves the others.
LEMMA UpsertedPins ==
  ASSUME NEW s \in SUBSET TrustPin, NEW w \in TrustWord
  PROVE  /\ Upserted(s, w) \subseteq TrustPin
         /\ Once(s) => Once(Upserted(s, w))
         /\ \A p \in Upserted(s, w) : Said(p) = w \/ (p \in s /\ p.of # w.of)
         /\ \A p \in s : p.of # w.of => p \in Upserted(s, w)
<1> DEFINE old == PinsOf(s, w.of)
           before == IF old = {} THEN { q.of : q \in s } ELSE UNION { q.before : q \in old }
           p0 == [of |-> w.of, at |-> w.at, key |-> w.key, before |-> before]
<1>1. Upserted(s, w) = (s \ old) \cup {p0}
  BY DEF Upserted
<1>2. before \subseteq Hosts
  BY DEF PinsOf, TrustPin
<1>3. p0 \in TrustPin /\ Said(p0) = w /\ p0.of = w.of
  BY <1>2 DEF TrustPin, TrustWord, Said
<1>4. old = { p \in s : p.of = w.of }
  BY DEF PinsOf
<1> HIDE DEF old, p0
<1> QED
  BY <1>1, <1>3, <1>4 DEF Once

\* A pin taken away leaves what the others say as it is.
LEMMA UnpinnedPins ==
  ASSUME NEW s \in SUBSET TrustPin, NEW v
  PROVE  /\ Unpinned(s, v) \subseteq TrustPin
         /\ Once(s) => Once(Unpinned(s, v))
         /\ OncePlaced(s) => OncePlaced(Unpinned(s, v))
         /\ \A p \in Unpinned(s, v) :
              p.of # v /\ \E q \in s : Said(p) = Said(q) /\ p.of = q.of /\ p.at = q.at /\ p.key = q.key
         /\ \A q \in s : q.of # v => \E p \in Unpinned(s, v) : Said(p) = Said(q)
<1> DEFINE Less(p) == [p EXCEPT !.before = @ \ {v}]
<1>1. \A p \in s : /\ Less(p) \in TrustPin /\ Said(Less(p)) = Said(p)
                   /\ Less(p).of = p.of /\ Less(p).at = p.at /\ Less(p).key = p.key
  BY DEF TrustPin, Said
<1>2. Unpinned(s, v) = { Less(p) : p \in { q \in s : q.of # v } }
  BY DEF Unpinned, PinsOf
<1> HIDE DEF Less
<1>3. \A p \in Unpinned(s, v) : \E q \in s : q.of # v /\ p = Less(q)
  BY <1>2
<1>4. \A q \in s : q.of # v => Less(q) \in Unpinned(s, v)
  BY <1>2
<1>5. Unpinned(s, v) \subseteq TrustPin
  BY <1>1, <1>3
<1>6. (Once(s) => Once(Unpinned(s, v))) /\ (OncePlaced(s) => OncePlaced(Unpinned(s, v)))
  BY <1>1, <1>3 DEF Once, OncePlaced
<1>7. \A p \in Unpinned(s, v) :
        p.of # v /\ \E q \in s : Said(p) = Said(q) /\ p.of = q.of /\ p.at = q.at /\ p.key = q.key
  BY <1>1, <1>3
<1>8. \A q \in s : q.of # v => \E p \in Unpinned(s, v) : Said(p) = Said(q)
  BY <1>1, <1>4
<1> QED
  BY <1>5, <1>6, <1>7, <1>8

\* What is said of the pins kept was said of them before.
LEMMA SayingStays ==
  ASSUME NEW s, NEW w, NEW said, Saying(s) \subseteq said,
         NEW s2, \A p \in s2 : Said(p) = w \/ \E q \in s : Said(p) = Said(q)
  PROVE  /\ Saying(s2) \subseteq said \cup {w}
         /\ w \in said => Saying(s2) \subseteq said
  BY DEF Saying

\* What a pin says has the fields of the pin.
LEMMA WordsOfPins == \A p : Said(p).of = p.of /\ Said(p).at = p.at /\ Said(p).key = p.key
  BY DEF Said

\* Another request keeps all it holds but its calm.
Still(t) == \A u \in Requests \ {t} : request'[u] \in {request[u], [request[u] EXCEPT !.calm = FALSE]}
Shaken(t) == \A u \in Requests \ {t} : ~ request'[u].calm

Alike(q, r) ==
  /\ q.calm => r.calm
  /\ q.op = r.op /\ q.of = r.of /\ q.at = r.at /\ q.to = r.to /\ q.key = r.key
  /\ q.step = r.step /\ q.seen = r.seen /\ q.pinned = r.pinned /\ q.types = r.types
  /\ q.strict = r.strict /\ q.result = r.result

LEMMA StillHolds ==
  ASSUME NEW r \in TrustAsk, NEW q \in {r, [r EXCEPT !.calm = FALSE]}
  PROVE  q \in TrustAsk /\ Alike(q, r)
  BY DEF TrustAsk, Alike

\* Only the request of a step is written in full.
LEMMA OneIsWritten ==
  ASSUME NEW t \in Requests, NEW x \in TrustAsk, request \in [Requests -> TrustAsk],
         request' \in { [request EXCEPT ![t] = x], Disturb([request EXCEPT ![t] = x], t) }
  PROVE  /\ request' \in [Requests -> TrustAsk] /\ request'[t] = x /\ Still(t)
         /\ request' = Disturb([request EXCEPT ![t] = x], t) => Shaken(t)
<1>1. CASE request' = [request EXCEPT ![t] = x] /\ request' # Disturb([request EXCEPT ![t] = x], t)
  BY <1>1 DEF Still
<1>2. CASE request' = Disturb([request EXCEPT ![t] = x], t)
  <2> DEFINE r == [request EXCEPT ![t] = x]
  <2>1. r \in [Requests -> TrustAsk] /\ r[t] = x /\ \A u \in Requests \ {t} : r[u] = request[u]
    OBVIOUS
  <2>2. request' = [u \in Requests |-> IF u = t THEN r[u] ELSE [r[u] EXCEPT !.calm = FALSE]]
    BY <1>2 DEF Disturb
  <2> HIDE DEF r
  <2>3. request'[t] = x /\ \A u \in Requests \ {t} : request'[u] = [request[u] EXCEPT !.calm = FALSE]
    BY <2>1, <2>2
  <2>4. \A u \in Requests : [request[u] EXCEPT !.calm = FALSE] \in TrustAsk
                            /\ ~ [request[u] EXCEPT !.calm = FALSE].calm
    BY DEF TrustAsk
  <2>5. request' \in [Requests -> TrustAsk]
    BY <2>2, <2>3, <2>4
  <2> QED
    BY <2>3, <2>4, <2>5 DEF Still, Shaken
<1> QED
  BY <1>1, <1>2

\* Nothing is in the hands of a request that has ended and was no connection.
LEMMA EndedFits ==
  ASSUME NEW r \in TrustAsk, r.op # "connect", NEW kept, NEW said, NEW s, NEW gap, NEW keys,
         NEW result \in {"ok", "failed", "refused"}
  PROVE  /\ Ended(r, result) \in TrustAsk /\ Ended(r, result).step = "done"
         /\ FitsStep(Ended(r, result), kept) /\ VouchedFor(Ended(r, result), said)
         /\ Current(Ended(r, result), s, gap, keys)
         /\ ~ Writing(Ended(r, result)) /\ ~ Changing(Ended(r, result))
<1> DEFINE x == Ended(r, result)
<1>1. x = [Requested EXCEPT !.op = r.op, !.of = r.of, !.result = result]
  BY DEF Ended
<1>2. /\ x.op = r.op /\ x.of = r.of /\ x.result = result /\ x.step = "done" /\ x.seen = {}
      /\ x.pinned = {} /\ x.types = {} /\ x \in TrustAsk
  BY <1>1 DEF Requested, TrustAsk, TrustSteps
<1> HIDE DEF x
<1>3. Once({}) /\ Saying({}) = {}
  BY DEF Once, Saying
<1> QED
  BY <1>2, <1>3 DEF x, FitsStep, VouchedFor, Current, Writing, Changing

-----------------------------------------------------------------------------
(* What a step leaves alone *)

\* The other requests stay as fit as they were.
LEMMA OthersStayFit ==
  ASSUME TrustInv, NEW t \in Requests, request' \in [Requests -> TrustAsk], Still(t),
         UNCHANGED store, vouched \subseteq vouched',
         UNCHANGED <<pins, torn, offered>> \/ Shaken(t),
         FitsStep(request'[t], store), VouchedFor(request'[t], vouched'),
         Current(request'[t], pins', torn', offered')
  PROVE  RequestsAreFit'
<1> SUFFICES ASSUME NEW u \in Requests
             PROVE  /\ FitsStep(request'[u], store) /\ VouchedFor(request'[u], vouched')
                    /\ Current(request'[u], pins', torn', offered')
  BY DEF RequestsAreFit
<1>1. CASE u = t
  BY <1>1
<1>2. CASE u # t
  <2>1. request[u] \in TrustAsk /\ request'[u] \in {request[u], [request[u] EXCEPT !.calm = FALSE]}
    BY <1>2 DEF Still, TrustInv, TrustIsTyped
  <2>2. /\ FitsStep(request[u], store) /\ VouchedFor(request[u], vouched)
        /\ Current(request[u], pins, torn, offered)
    BY DEF TrustInv, RequestsAreFit
  <2> DEFINE r == request[u]
             q == request'[u]
  <2>4. Shaken(t) => ~ q.calm
    BY <1>2 DEF Shaken
  <2>8. r \in TrustAsk /\ q \in {r, [r EXCEPT !.calm = FALSE]}
    BY <2>1
  <2> HIDE DEF r, q
  <2>3. Alike(q, r)
    BY <2>8, StillHolds
  <2>5. FitsStep(q, store)
    BY <2>2, <2>3 DEF FitsStep, Alike, r
  <2>6. VouchedFor(q, vouched')
    BY <2>2, <2>3 DEF VouchedFor, Alike, r
  <2>7. Current(q, pins', torn', offered')
    <3>1. CASE Shaken(t)
      BY <2>4, <3>1 DEF Current
    <3>2. CASE UNCHANGED <<pins, torn, offered>>
      <4>1. Current(q, pins, torn, offered)
        BY <2>2, <2>3 DEF Current, Alike, r
      <4> QED
        BY <3>2, <4>1
    <3> QED
      BY <3>1, <3>2
  <2> QED
    BY <2>5, <2>6, <2>7 DEF q
<1> QED
  BY <1>1, <1>2

\* What the others write, and what they have read, is what it was.
LEMMA OthersWrite ==
  ASSUME TrustInv, NEW t \in Requests, Still(t), NEW u \in Requests, u # t
  PROVE  /\ request[u] \in TrustAsk
         /\ request'[u].op = request[u].op /\ request'[u].of = request[u].of /\ request'[u].at = request[u].at
         /\ request'[u].step = request[u].step /\ request'[u].seen = request[u].seen
         /\ Writing(request'[u]) = Writing(request[u]) /\ Changing(request'[u]) = Changing(request[u])
<1>1. request[u] \in TrustAsk /\ request'[u] \in {request[u], [request[u] EXCEPT !.calm = FALSE]}
  BY DEF Still, TrustInv, TrustIsTyped
<1>2. Alike(request'[u], request[u])
  BY <1>1, StillHolds
<1> QED
  BY <1>1, <1>2 DEF Writing, Changing, Alike

\* Races stay known when a request only goes on, or ends.
LEMMA RacesStayKnown ==
  ASSUME TrustInv, NEW t \in Requests, Still(t), UNCHANGED <<store, trustRaced>>,
         Writing(request'[t]) => Writing(request[t]) /\ request'[t].of = request[t].of
  PROVE  RacesAreKnown'
<1> SUFFICES ASSUME NEW a \in Requests, NEW u \in Requests, a # u, Writing(request'[a]), Writing(request'[u])
             PROVE  /\ store = "json" => Hosts \subseteq trustRaced
                    /\ request'[a].of = request'[u].of => request'[a].of \in trustRaced
  BY DEF TrustInv, RacesAreKnown
<1>1. Writing(request[a]) /\ request'[a].of = request[a].of
  BY OthersWrite
<1>2. Writing(request[u]) /\ request'[u].of = request[u].of
  BY OthersWrite
<1> QED
  BY <1>1, <1>2 DEF TrustInv, RacesAreKnown

\* A file that is torn is being written by a request.
LEMMA TearStays ==
  ASSUME TrustInv, NEW t \in Requests, Still(t),
         torn' => request'[t].step = "write" \/ (torn /\ request[t].step # "write")
  PROVE  TornIsWritten'
<1> SUFFICES ASSUME torn', request'[t].step # "write" PROVE \E u \in Requests : request'[u].step = "write"
  BY DEF TornIsWritten
<1>1. PICK u \in Requests : request[u].step = "write"
  BY DEF TrustInv, TornIsWritten
<1>2. u # t
  BY <1>1
<1> QED
  BY <1>1, <1>2, OthersWrite

\* A request writes the file alone, or the pins of every VPS are raced for.
LEMMA LoneWriter ==
  ASSUME TrustInv, NEW t \in Requests, Writing(request[t]), store = "json", ~ Hosts \subseteq trustRaced
  PROVE  /\ \A u \in Requests \ {t} : ~ Writing(request[u])
         /\ request[t].step # "write" => ~ torn
<1>1. \A u \in Requests \ {t} : ~ Writing(request[u])
  BY DEF TrustInv, RacesAreKnown
<1>2. \A u \in Requests : request[u].step = "write" => Writing(request[u])
  BY DEF TrustInv, RequestsAreFit, FitsStep, Writing
<1> QED
  BY <1>1, <1>2 DEF TrustInv, TornIsWritten

\* A step that touches nothing but its request.
LEMMA QuietStep ==
  ASSUME TrustInv, NEW t \in Requests, NEW x \in TrustAsk,
         request' = [request EXCEPT ![t] = x],
         UNCHANGED <<store, inventory, offered, pins, torn, started, rebuilt, vouched, trustRaced>>,
         FitsStep(x, store), VouchedFor(x, vouched), Current(x, pins, torn, offered),
         request[t].step # "write",
         x.step \in {"open", "write"} => Hosts \subseteq trustRaced \/ x.seen = pins,
         Writing(x) => Writing(request[t]) /\ x.of = request[t].of /\ x.at = request[t].at,
         Writing(x) /\ ~ Changing(x) => ~ Changing(request[t]),
         Changing(request[t]) => Changing(x) \/ \A p \in pins : p.of = request[t].of => p.of \in trustRaced
  PROVE  TrustInv'
<1>1. request' \in [Requests -> TrustAsk] /\ request'[t] = x /\ Still(t)
  BY OneIsWritten DEF TrustInv, TrustIsTyped
<1>2. TrustIsTyped'
  BY <1>1 DEF TrustInv, TrustIsTyped
<1>3. PinsAreSaid'
  BY DEF TrustInv, PinsAreSaid
<1>4. RequestsAreFit'
  BY <1>1, OthersStayFit
<1>5. TornIsWritten'
  BY <1>1, TearStays
<1>6. RacesAreKnown'
  BY <1>1, RacesStayKnown
<1>7. LoneOnesAreCurrent'
  <2>1. \A u \in Requests : request'[u].step \in {"open", "write"} =>
          Hosts \subseteq trustRaced \/ request'[u].seen = pins
    <3> SUFFICES ASSUME NEW u \in Requests, u # t, request'[u].step \in {"open", "write"}
                 PROVE  Hosts \subseteq trustRaced \/ request'[u].seen = pins
      BY <1>1
    <3> QED
      BY <1>1, OthersWrite DEF TrustInv, LoneOnesAreCurrent
  <2>2. \A u \in Requests : Writing(request'[u]) /\ ~ Changing(request'[u]) =>
          request'[u].of \in trustRaced \/ inventory[request'[u].of] = request'[u].at
    <3> SUFFICES ASSUME NEW u \in Requests, Writing(request'[u]), ~ Changing(request'[u])
                 PROVE  request'[u].of \in trustRaced \/ inventory[request'[u].of] = request'[u].at
      OBVIOUS
    <3>1. Writing(request[u]) /\ ~ Changing(request[u]) /\ request'[u].of = request[u].of /\ request'[u].at = request[u].at
      BY <1>1, OthersWrite
    <3> QED
      BY <3>1 DEF TrustInv, LoneOnesAreCurrent
  <2>3. ASSUME NEW p \in pins
        PROVE  \/ p.of \in trustRaced
               \/ inventory[p.of] \in {p.at, Gone}
               \/ \E u \in Requests : Changing(request'[u]) /\ request'[u].of = p.of
    <3> SUFFICES ASSUME NEW u \in Requests, Changing(request[u]), request[u].of = p.of, p.of \notin trustRaced
                 PROVE  Changing(request'[u]) /\ request'[u].of = p.of
      BY DEF TrustInv, LoneOnesAreCurrent
    <3>1. CASE u = t
      <4>1. Changing(x) => Writing(x)
        BY DEF Changing, Writing
      <4> QED
        BY <1>1, <3>1, <4>1
    <3>2. CASE u # t
      BY <1>1, <3>2, OthersWrite
    <3> QED
      BY <3>1, <3>2
  <2> QED
    BY <2>1, <2>2, <2>3 DEF LoneOnesAreCurrent
<1> QED
  BY <1>2, <1>3, <1>4, <1>5, <1>6, <1>7 DEF TrustInv

-----------------------------------------------------------------------------
(* The steps *)

\* What a step in progress is of.
LEMMA StepsAreFit ==
  ASSUME TrustInv, NEW t \in Requests
  PROVE  /\ request[t] \in TrustAsk /\ FitsStep(request[t], store) /\ VouchedFor(request[t], vouched)
         /\ Current(request[t], pins, torn, offered)
  BY DEF TrustInv, TrustIsTyped, RequestsAreFit

\* A request ends with nothing written: an update that changed the endpoint only
\* if no pin is left.
LEMMA AnswerKeeps ==
  ASSUME TrustInv, NEW t \in Requests, NEW result \in {"ok", "failed", "refused"},
         Answer(t, result), request[t].op # "connect", request[t].step # "write",
         UNCHANGED <<store, inventory, offered, pins, torn, started, rebuilt, vouched, trustRaced>>,
         Changing(request[t]) => \A p \in pins : p.of = request[t].of => p.of \in trustRaced
  PROVE  TrustInv'
<1> DEFINE x == Ended(request[t], result)
<1>1. request' = [request EXCEPT ![t] = x]
  BY DEF Answer
<1>2. /\ x \in TrustAsk /\ x.step = "done" /\ FitsStep(x, store) /\ VouchedFor(x, vouched)
      /\ Current(x, pins, torn, offered) /\ ~ Writing(x) /\ ~ Changing(x)
  BY StepsAreFit, EndedFits
<1> HIDE DEF x
<1> QED
  BY <1>1, <1>2, QuietStep

\* The scan finds the key or not.
LEMMA ScanKeeps == ASSUME TrustInv, NEW t \in Requests, Scan(t) PROVE TrustInv'
<1>0. /\ request[t].op = "trust" /\ request[t].step = "begun" /\ ~ Changing(request[t])
      /\ UNCHANGED <<store, inventory, offered, pins, torn, started, rebuilt, vouched, trustRaced>>
  BY DEF Scan, Changing
<1>1. CASE Answer(t, "refused")
  BY <1>0, <1>1, AnswerKeeps
<1>2. CASE GoOn(t, "pin")
  <2> DEFINE r == request[t]
             x == [r EXCEPT !.step = "pin"]
  <2>1. request' = [request EXCEPT ![t] = x]
    BY <1>2 DEF GoOn
  <2>2. r \in TrustAsk /\ FitsStep(r, store) /\ VouchedFor(r, vouched) /\ r.op = "trust" /\ r.step = "begun"
    BY <1>0, StepsAreFit
  <2>3. /\ x \in TrustAsk /\ x.step = "pin" /\ x.op = "trust" /\ x.of = r.of /\ x.at = r.at /\ x.key = r.key
        /\ x.seen = r.seen /\ x.result = r.result
    <3> HIDE DEF r
    <3> QED
      BY <2>2 DEF TrustAsk, TrustSteps
  <2> HIDE DEF x
  <2>4. FitsStep(x, store) /\ VouchedFor(x, vouched) /\ Current(x, pins, torn, offered)
    BY <2>2, <2>3 DEF FitsStep, VouchedFor, Current
  <2>5. Writing(r) /\ ~ Changing(r)
    BY <2>2 DEF Writing, Changing
  <2> QED
    BY <1>0, <2>1, <2>2, <2>3, <2>4, <2>5, QuietStep
<1> QED
  BY <1>1, <1>2 DEF Scan

LEMMA ScanFailsKeeps == ASSUME TrustInv, NEW t \in Requests, ScanFails(t) PROVE TrustInv'
  BY AnswerKeeps DEF ScanFails, Changing

\* The file is read before it is rewritten: a lone request reads all there is.
LEMMA BeginKeeps ==
  ASSUME TrustInv, NEW t \in Requests, Begin(t),
         \/ request[t].op = "trust" /\ request[t].step = "pin"
         \/ request[t].op = "revoke" /\ request[t].step = "begun"
         \/ request[t].op = "update" /\ request[t].step = "changed",
         UNCHANGED <<store, inventory, offered, started, rebuilt, vouched, trustRaced>>
  PROVE  TrustInv'
<1> DEFINE r == request[t]
           x == [r EXCEPT !.step = "open", !.seen = ReadPins]
<1>1. request' = [request EXCEPT ![t] = x] /\ store = "json" /\ UNCHANGED <<pins, torn>>
  BY DEF Begin
<1>2. r \in TrustAsk /\ FitsStep(r, store) /\ VouchedFor(r, vouched) /\ r.op \in {"trust", "revoke", "update"}
      /\ r.step \in {"pin", "begun", "changed"} /\ (r.op = "update" => Changing(r)) /\ Writing(r)
      /\ (r.op # "update" => ~ Changing(r))
  BY StepsAreFit DEF Changing, Writing
<1>3. ReadPins \subseteq pins /\ (~ torn => ReadPins = pins) /\ pins \subseteq TrustPin /\ PinsAreSaid
  BY DEF ReadPins, TrustInv, TrustIsTyped
<1>4. /\ x \in TrustAsk /\ x.step = "open" /\ x.op = r.op /\ x.of = r.of /\ x.at = r.at /\ x.key = r.key
      /\ x.to = r.to /\ x.seen = ReadPins /\ x.result = r.result
  <2> HIDE DEF r
  <2> QED
    BY <1>2, <1>3 DEF TrustAsk, TrustSteps
<1> HIDE DEF x
<1>5. Once(ReadPins) /\ Saying(ReadPins) \subseteq vouched
  BY <1>3 DEF PinsAreSaid, Once, Saying
<1>6. FitsStep(x, store) /\ VouchedFor(x, vouched) /\ Current(x, pins, torn, offered)
  BY <1>1, <1>2, <1>4, <1>5 DEF FitsStep, VouchedFor, Current
<1>7. Hosts \subseteq trustRaced \/ x.seen = pins
  BY <1>1, <1>2, <1>3, <1>4, LoneWriter
<1>8. Writing(x) /\ (Changing(x) <=> Changing(r))
  BY <1>2, <1>4 DEF Writing, Changing
<1> QED
  BY <1>1, <1>2, <1>4, <1>6, <1>7, <1>8, QuietStep

\* What a read returns is what users have said.
LEMMA ReadIsSaid ==
  ASSUME TrustInv
  PROVE  /\ ReadPins \subseteq pins /\ (~ torn => ReadPins = pins) /\ pins \subseteq TrustPin
         /\ \A p \in pins : \E w \in vouched : w.of = p.of /\ w.at = p.at /\ w.key = p.key
         /\ \A s \in SUBSET pins : KeysPinned(s) \subseteq HostKeys
<1>1. Saying(pins) \subseteq vouched /\ pins \subseteq TrustPin
  BY DEF TrustInv, PinsAreSaid, TrustIsTyped
<1>2. \A p \in pins : Said(p) \in vouched
  BY <1>1 DEF Saying
<1> QED
  BY <1>1, <1>2, WordsOfPins DEF ReadPins, KeysPinned, TrustPin

\* A connection that goes on is quiet, whatever it has read.
LEMMA ConnectionKeeps ==
  ASSUME TrustInv, NEW t \in Requests, NEW x \in TrustAsk,
         request[t].op = "connect", x.op = "connect", request[t].step # "done",
         request' = [request EXCEPT ![t] = x],
         UNCHANGED <<store, inventory, offered, pins, torn, started, rebuilt, vouched, trustRaced>>,
         x.seen = request[t].seen,
         FitsStep(x, store), Current(x, pins, torn, offered),
         \A k \in x.pinned : \E p \in vouched : p.key = k /\ (p.of = x.of \/ p.at = x.at),
         x.result = "accepted" /\ (x.strict \/ x.pinned # {}) => x.key \in x.pinned
  PROVE  TrustInv'
<1>1. VouchedFor(x, vouched)
  BY StepsAreFit DEF VouchedFor
<1>2. request[t].step # "write" /\ x.step \notin {"open", "write"}
  BY StepsAreFit DEF FitsStep
<1>3. ~ Writing(x) /\ ~ Changing(request[t])
  BY DEF Writing, Changing
<1> QED
  BY <1>1, <1>2, <1>3, QuietStep

\* The pins are read once for the VPS, once for the endpoint.
LEMMA ReadPinOfKeeps == ASSUME TrustInv, NEW t \in Requests, ReadPinOf(t) PROVE TrustInv'
<1> DEFINE r == request[t]
           own == PinsOf(ReadPins, r.of)
           n == KeysPinned(own)
           s == IF own = {} THEN "endpoint" ELSE "type"
           x == [r EXCEPT !.pinned = n, !.step = s]
<1>1. /\ r.op = "connect" /\ r.step = "begun" /\ request' = [request EXCEPT ![t] = x]
      /\ UNCHANGED <<store, inventory, offered, pins, torn, started, rebuilt, vouched, trustRaced>>
  BY DEF ReadPinOf
<1>2. r \in TrustAsk /\ FitsStep(r, store) /\ Current(r, pins, torn, offered) /\ r.result = "none"
  BY <1>1, StepsAreFit DEF FitsStep
<1>3. own \subseteq pins /\ n \subseteq HostKeys /\ s \in {"endpoint", "type"}
      /\ \A p \in own : p.of = r.of
  BY ReadIsSaid DEF PinsOf
<1> HIDE DEF r, n, s
<1>4. /\ x \in TrustAsk /\ x.op = r.op /\ x.of = r.of /\ x.at = r.at /\ x.seen = r.seen /\ x.result = r.result
      /\ x.calm = r.calm /\ x.step = s /\ x.pinned = n
  BY <1>2, <1>3 DEF TrustAsk, TrustSteps
<1> HIDE DEF x
<1>5. FitsStep(x, store)
  BY <1>1, <1>2, <1>3, <1>4 DEF FitsStep
<1>6. Current(x, pins, torn, offered)
  <2> SUFFICES ASSUME r.calm PROVE Current(x, pins, torn, offered)
    BY <1>4 DEF Current
  <2>1. ~ torn /\ own = PinsOf(pins, r.of)
    BY <1>1, <1>2, ReadIsSaid DEF Current
  <2> QED
    BY <1>3, <1>4, <2>1 DEF Current, n, s
<1>7. \A k \in x.pinned : \E p \in vouched : p.key = k /\ (p.of = x.of \/ p.at = x.at)
  <2> SUFFICES ASSUME NEW k \in n PROVE \E p \in vouched : p.key = k /\ p.of = r.of
    BY <1>4
  <2>1. PICK p \in own : p.key = k
    BY DEF n, KeysPinned
  <2> QED
    BY <1>3, <2>1, ReadIsSaid
<1> QED
  BY <1>1, <1>2, <1>4, <1>5, <1>6, <1>7, ConnectionKeeps DEF r

LEMMA ReadPinAtKeeps == ASSUME TrustInv, NEW t \in Requests, ReadPinAt(t) PROVE TrustInv'
<1> DEFINE r == request[t]
           first == Foremost(PinsAt(ReadPins, r.at))
           n == KeysPinned(first)
           x == [r EXCEPT !.pinned = n, !.step = "type"]
<1>1. /\ r.op = "connect" /\ r.step = "endpoint" /\ request' = [request EXCEPT ![t] = x]
      /\ UNCHANGED <<store, inventory, offered, pins, torn, started, rebuilt, vouched, trustRaced>>
  BY DEF ReadPinAt
<1>2. r \in TrustAsk /\ FitsStep(r, store) /\ Current(r, pins, torn, offered) /\ r.result = "none"
  BY <1>1, StepsAreFit DEF FitsStep
<1>3. first \subseteq pins /\ n \subseteq HostKeys /\ \A p \in first : p.at = r.at
  BY ReadIsSaid DEF PinsAt, Foremost
<1> HIDE DEF r, n
<1>4. /\ x \in TrustAsk /\ x.op = r.op /\ x.of = r.of /\ x.at = r.at /\ x.seen = r.seen /\ x.result = r.result
      /\ x.calm = r.calm /\ x.step = "type" /\ x.pinned = n
  BY <1>2, <1>3 DEF TrustAsk, TrustSteps
<1> HIDE DEF x
<1>5. FitsStep(x, store)
  BY <1>1, <1>2, <1>3, <1>4 DEF FitsStep
<1>6. Current(x, pins, torn, offered)
  BY <1>1, <1>2, <1>4 DEF Current
<1>7. \A k \in x.pinned : \E p \in vouched : p.key = k /\ (p.of = x.of \/ p.at = x.at)
  <2> SUFFICES ASSUME NEW k \in n PROVE \E p \in vouched : p.key = k /\ p.at = r.at
    BY <1>4
  <2>1. PICK p \in first : p.key = k
    BY DEF n, KeysPinned
  <2> QED
    BY <1>3, <2>1, ReadIsSaid
<1> QED
  BY <1>1, <1>2, <1>4, <1>5, <1>6, <1>7, ConnectionKeeps DEF r

\* The type is of the same pin when nothing has come between.
LEMMA ReadTypeOfKeeps == ASSUME TrustInv, NEW t \in Requests, ReadTypeOf(t) PROVE TrustInv'
<1> DEFINE r == request[t]
           own == PinsOf(ReadPins, r.of)
           n == TypesPinned(own)
           s == IF own = {} THEN "typeless" ELSE "dial"
           x == [r EXCEPT !.types = n, !.step = s]
<1>1. /\ r.op = "connect" /\ r.step = "type" /\ request' = [request EXCEPT ![t] = x]
      /\ UNCHANGED <<store, inventory, offered, pins, torn, started, rebuilt, vouched, trustRaced>>
  BY DEF ReadTypeOf
<1>2. /\ r \in TrustAsk /\ FitsStep(r, store) /\ Current(r, pins, torn, offered) /\ r.result = "none"
      /\ VouchedFor(r, vouched)
  BY <1>1, StepsAreFit DEF FitsStep
<1>3. own \subseteq pins /\ n \subseteq { KeyType[k] : k \in HostKeys } /\ s \in {"typeless", "dial"}
  <2>1. own \subseteq pins /\ \A p \in own : p.key \in HostKeys
    BY ReadIsSaid DEF PinsOf, TrustInv, TrustIsTyped, TrustPin
  <2> QED
    BY <2>1 DEF TypesPinned
<1> HIDE DEF r, n, s
<1>4. /\ x \in TrustAsk /\ x.op = r.op /\ x.of = r.of /\ x.at = r.at /\ x.seen = r.seen /\ x.result = r.result
      /\ x.calm = r.calm /\ x.step = s /\ x.pinned = r.pinned /\ x.types = n
  BY <1>2, <1>3 DEF TrustAsk, TrustSteps
<1> HIDE DEF x
<1>5. FitsStep(x, store)
  BY <1>1, <1>2, <1>3, <1>4 DEF FitsStep
<1>6. Current(x, pins, torn, offered)
  <2> SUFFICES ASSUME r.calm PROVE Current(x, pins, torn, offered)
    BY <1>4 DEF Current
  <2>1. ~ torn /\ own = PinsOf(pins, r.of)
    BY <1>1, <1>2, ReadIsSaid DEF Current
  <2>2. own # {} => r.pinned = KeysPinned(own)
    BY <1>1, <1>2, <2>1 DEF Current
  <2>3. n = { KeyType[k] : k \in KeysPinned(own) }
    BY DEF n, TypesPinned, KeysPinned
  <2> QED
    BY <1>3, <1>4, <2>1, <2>2, <2>3 DEF Current, s
<1>7. \A k \in x.pinned : \E p \in vouched : p.key = k /\ (p.of = x.of \/ p.at = x.at)
  BY <1>1, <1>2, <1>4 DEF VouchedFor
<1> QED
  BY <1>1, <1>2, <1>4, <1>5, <1>6, <1>7, ConnectionKeeps DEF r

\* The type of the endpoint's pin is read only where the VPS has none.
LEMMA ReadTypeAtKeeps == ASSUME TrustInv, NEW t \in Requests, ReadTypeAt(t) PROVE TrustInv'
<1> DEFINE r == request[t]
           first == Foremost(PinsAt(ReadPins, r.at))
           n == TypesPinned(first)
           x == [r EXCEPT !.types = n, !.step = "dial"]
<1>1. /\ r.op = "connect" /\ r.step = "typeless" /\ request' = [request EXCEPT ![t] = x]
      /\ UNCHANGED <<store, inventory, offered, pins, torn, started, rebuilt, vouched, trustRaced>>
  BY DEF ReadTypeAt
<1>2. /\ r \in TrustAsk /\ FitsStep(r, store) /\ Current(r, pins, torn, offered) /\ r.result = "none"
      /\ VouchedFor(r, vouched)
  BY <1>1, StepsAreFit DEF FitsStep
<1>3. n \subseteq { KeyType[k] : k \in HostKeys }
  <2>1. first \subseteq pins /\ \A p \in first : p.key \in HostKeys
    BY ReadIsSaid DEF PinsAt, Foremost, TrustInv, TrustIsTyped, TrustPin
  <2> QED
    BY <2>1 DEF TypesPinned
<1> HIDE DEF r, n
<1>4. /\ x \in TrustAsk /\ x.op = r.op /\ x.of = r.of /\ x.at = r.at /\ x.seen = r.seen /\ x.result = r.result
      /\ x.calm = r.calm /\ x.step = "dial" /\ x.pinned = r.pinned
  BY <1>2, <1>3 DEF TrustAsk, TrustSteps
<1> HIDE DEF x
<1>5. FitsStep(x, store) /\ Current(x, pins, torn, offered)
  BY <1>1, <1>2, <1>4 DEF FitsStep, Current
<1>6. \A k \in x.pinned : \E p \in vouched : p.key = k /\ (p.of = x.of \/ p.at = x.at)
  BY <1>1, <1>2, <1>4 DEF VouchedFor
<1> QED
  BY <1>1, <1>2, <1>4, <1>5, <1>6, ConnectionKeeps DEF r

\* Of the keys of one type a machine has one: the key pinned is shown, if the
\* machine still has it, and none other.
LEMMA DialKeeps == ASSUME TrustInv, NEW t \in Requests, Dial(t) PROVE TrustInv'
<1> DEFINE r == request[t]
           shown == { k \in KeysOf(r.at) : r.types = {} \/ KeyType[k] \in r.types }
<1>1. /\ r.op = "connect" /\ r.step = "dial"
      /\ UNCHANGED <<store, inventory, offered, pins, torn, started, rebuilt, vouched, trustRaced>>
  BY DEF Dial
<1>2. /\ r \in TrustAsk /\ FitsStep(r, store) /\ Current(r, pins, torn, offered)
      /\ VouchedFor(r, vouched) /\ r.at \in Endpoints
  BY <1>1, StepsAreFit DEF FitsStep
<1>3. KeysOf(r.at) \subseteq HostKeys /\ KeysOf(r.at) \subseteq offered[r.at] /\ offered[r.at] \in Offers
      /\ offered[r.at] \subseteq KeysOf(r.at)
  BY <1>2 DEF KeysOf, TrustInv, TrustIsTyped, Offers
\* What a lone connection of a VPS with a pin that the machine still has meets.
<1>4. ASSUME r.calm, NEW p \in PinsOf(pins, r.of), p.key \in offered[r.at]
      PROVE  p.key \in shown /\ \A k \in shown : k \in r.pinned
  <2>1. PinsOf(pins, r.of) = {p}
    BY <1>4 DEF TrustInv, PinsAreSaid, Once, PinsOf
  <2>2. r.pinned = {p.key} /\ r.types = { KeyType[k] : k \in r.pinned }
    BY <1>1, <1>2, <1>4, <2>1 DEF Current, KeysPinned
  <2>3. r.types = {KeyType[p.key]}
    BY <2>2
  <2> QED
    BY <1>3, <1>4, <2>2, <2>3 DEF Offers
<1>5. CASE shown = {} /\ Answer(t, "failed")
  <2> DEFINE x == [r EXCEPT !.step = "done", !.result = "failed", !.types = {}]
  <2>1. request' = [request EXCEPT ![t] = x]
    BY <1>1, <1>5 DEF Answer, Ended
  <2> HIDE DEF shown
  <2>2. ~ \E p \in PinsOf(pins, r.of) : r.calm /\ p.key \in offered[r.at]
    BY <1>4, <1>5
  <2> HIDE DEF r
  <2>3. /\ x \in TrustAsk /\ x.op = r.op /\ x.of = r.of /\ x.at = r.at /\ x.seen = r.seen /\ x.result = "failed"
        /\ x.calm = r.calm /\ x.step = "done" /\ x.pinned = r.pinned
    BY <1>2 DEF TrustAsk, TrustSteps
  <2> HIDE DEF x
  <2>4. FitsStep(x, store) /\ Current(x, pins, torn, offered)
    BY <2>2, <2>3 DEF FitsStep, Current
  <2>5. \A k \in x.pinned : \E p \in vouched : p.key = k /\ (p.of = x.of \/ p.at = x.at)
    BY <1>1, <1>2, <2>3 DEF VouchedFor
  <2> QED
    BY <1>1, <2>1, <2>3, <2>4, <2>5, ConnectionKeeps DEF r
<1>6. ASSUME NEW k \in shown,
             request' = [request EXCEPT ![t] =
               [Ended(@, IF VerifyHostKey(@.strict, @.pinned, k) THEN "accepted" ELSE "refused")
                 EXCEPT !.key = k]]
      PROVE  TrustInv'
  <2> DEFINE told == IF VerifyHostKey(r.strict, r.pinned, k) THEN "accepted" ELSE "refused"
             x == [[r EXCEPT !.step = "done", !.result = told, !.types = {}] EXCEPT !.key = k]
  <2>1. request' = [request EXCEPT ![t] = x]
    BY <1>1, <1>6 DEF Ended
  <2> HIDE DEF shown
  <2>2. \A p \in PinsOf(pins, r.of) : r.calm /\ p.key \in offered[r.at] => k \in r.pinned
    BY <1>4, <1>6
  <2>3. k \in HostKeys
    BY <1>3 DEF shown
  <2> HIDE DEF r
  <2>4. /\ told \in {"accepted", "refused"} /\ (k \in r.pinned => told = "accepted")
        /\ told = "accepted" /\ (r.strict \/ r.pinned # {}) => k \in r.pinned
    BY DEF VerifyHostKey
  <2> HIDE DEF told
  <2>5. /\ x \in TrustAsk /\ x.op = r.op /\ x.of = r.of /\ x.at = r.at /\ x.seen = r.seen /\ x.result = told
        /\ x.calm = r.calm /\ x.step = "done" /\ x.pinned = r.pinned /\ x.key = k /\ x.strict = r.strict
    <3> DEFINE y == [r EXCEPT !.step = "done", !.result = told, !.types = {}]
    <3>1. /\ y \in TrustAsk /\ y.op = r.op /\ y.of = r.of /\ y.at = r.at /\ y.seen = r.seen /\ y.result = told
          /\ y.calm = r.calm /\ y.step = "done" /\ y.pinned = r.pinned /\ y.strict = r.strict
      <4>1. r \in TrustAsk /\ {} \in SUBSET {KeyType[j] : j \in HostKeys} /\ "done" \in TrustSteps
        BY <1>2 DEF TrustSteps
      <4> QED
        BY <2>4, <4>1 DEF TrustAsk
    <3>2. x = [y EXCEPT !.key = k]
      OBVIOUS
    <3> HIDE DEF x, y
    <3> QED
      BY <2>3, <3>1, <3>2 DEF TrustAsk
  <2> HIDE DEF x
  <2>6. FitsStep(x, store) /\ Current(x, pins, torn, offered)
    BY <2>2, <2>4, <2>5 DEF FitsStep, Current
  <2>7. \A j \in x.pinned : \E p \in vouched : p.key = j /\ (p.of = x.of \/ p.at = x.at)
    BY <1>1, <1>2, <2>5 DEF VouchedFor
  <2>8. x.result = "accepted" /\ (x.strict \/ x.pinned # {}) => x.key \in x.pinned
    BY <2>4, <2>5
  <2> QED
    BY <1>1, <2>1, <2>5, <2>6, <2>7, <2>8, ConnectionKeeps DEF r
<1> QED
  BY <1>5, <1>6 DEF Dial

\* A request that writes disturbs the others; it writes about its own VPS alone.
LEMMA WritingStep ==
  ASSUME TrustInv, NEW t \in Requests, NEW x \in TrustAsk, Writing(request[t]),
         request' = Disturb([request EXCEPT ![t] = x], t),
         UNCHANGED <<store, offered, started, rebuilt, trustRaced>>,
         inventory' \in [Hosts -> Endpoints \cup {Gone}], pins' \subseteq TrustPin, torn' \in BOOLEAN,
         vouched' \subseteq TrustWord, vouched \subseteq vouched',
         PinsAreSaid',
         FitsStep(x, store), VouchedFor(x, vouched'), x.op # "connect",
         torn' => x.step = "write" \/ (torn /\ request[t].step # "write"),
         x.of = request[t].of, x.at = request[t].at \/ x.step = "done",
         x.step \in {"open", "write"} => Hosts \subseteq trustRaced \/ x.seen = pins',
         Writing(x) /\ ~ Changing(x) => x.of \in trustRaced \/ inventory'[x.of] = x.at,
         \A v \in Hosts : v # x.of => inventory'[v] = inventory[v],
         \A p \in pins' : \/ p.of \in trustRaced
                          \/ inventory'[p.of] \in {p.at, Gone}
                          \/ Changing(x) /\ x.of = p.of
                          \/ p.of # x.of /\ \E q \in pins : q.of = p.of /\ q.at = p.at
  PROVE  TrustInv'
<1>1. request' \in [Requests -> TrustAsk] /\ request'[t] = x /\ Still(t) /\ Shaken(t)
  BY OneIsWritten DEF TrustInv, TrustIsTyped
<1>2. TrustIsTyped'
  BY <1>1 DEF TrustInv, TrustIsTyped
<1>3. Current(x, pins', torn', offered')
  BY DEF Current
<1>4. RequestsAreFit'
  BY <1>1, <1>3, OthersStayFit
<1>5. TornIsWritten'
  BY <1>1, TearStays
<1>6. RacesAreKnown'
  BY <1>1, RacesStayKnown
<1>7. LoneOnesAreCurrent'
  <2>1. \A u \in Requests : request'[u].step \in {"open", "write"} =>
          Hosts \subseteq trustRaced \/ request'[u].seen = pins'
    <3> SUFFICES ASSUME NEW u \in Requests, u # t, request'[u].step \in {"open", "write"}
                 PROVE  Hosts \subseteq trustRaced
      BY <1>1
    <3>1. request[u].step \in {"open", "write"}
      BY <1>1, OthersWrite
    <3>2. store = "json" /\ Writing(request[u])
      BY <3>1, StepsAreFit DEF FitsStep, Writing
    <3> QED
      BY <3>2 DEF TrustInv, RacesAreKnown
  <2>2. \A u \in Requests : Writing(request'[u]) /\ ~ Changing(request'[u]) =>
          request'[u].of \in trustRaced \/ inventory'[request'[u].of] = request'[u].at
    <3> SUFFICES ASSUME NEW u \in Requests, u # t, Writing(request'[u]), ~ Changing(request'[u])
                 PROVE  request'[u].of \in trustRaced \/ inventory'[request'[u].of] = request'[u].at
      BY <1>1
    <3>1. Writing(request[u]) /\ ~ Changing(request[u]) /\ request'[u].of = request[u].of /\ request'[u].at = request[u].at
      BY <1>1, OthersWrite
    <3>2. request[u].of = x.of => request[u].of \in trustRaced
      BY <3>1 DEF TrustInv, RacesAreKnown
    <3>3. request[u].of \in Hosts
      BY <3>1, StepsAreFit DEF FitsStep, Writing
    <3> QED
      BY <3>1, <3>2, <3>3 DEF TrustInv, LoneOnesAreCurrent
  <2>3. ASSUME NEW p \in pins'
        PROVE  \/ p.of \in trustRaced
               \/ inventory'[p.of] \in {p.at, Gone}
               \/ \E u \in Requests : Changing(request'[u]) /\ request'[u].of = p.of
    <3> SUFFICES ASSUME p.of # x.of, NEW q \in pins, q.of = p.of, q.at = p.at, p.of \notin trustRaced,
                        inventory'[p.of] \notin {p.at, Gone}
                 PROVE  \E u \in Requests : Changing(request'[u]) /\ request'[u].of = p.of
      BY <1>1
    <3>1. p.of \in Hosts
      BY DEF TrustPin
    <3>2. PICK u \in Requests : Changing(request[u]) /\ request[u].of = p.of
      BY <3>1 DEF TrustInv, LoneOnesAreCurrent
    <3>3. u # t
      BY <3>2
    <3> QED
      BY <1>1, <3>2, <3>3, OthersWrite
  <2> QED
    BY <2>1, <2>2, <2>3 DEF LoneOnesAreCurrent
<1> QED
  BY <1>2, <1>4, <1>5, <1>6, <1>7 DEF TrustInv

\* The file is emptied by a request that has what was in it.
LEMMA OpenFileKeeps == ASSUME TrustInv, NEW t \in Requests, OpenFile(t) PROVE TrustInv'
<1> DEFINE r == request[t]
           x == [r EXCEPT !.step = "write"]
<1>1. /\ r.step = "open" /\ torn' = TRUE /\ request' = Disturb([request EXCEPT ![t] = x], t)
      /\ UNCHANGED <<store, inventory, offered, pins, started, rebuilt, vouched, trustRaced>>
  BY DEF OpenFile
<1>2. r \in TrustAsk /\ FitsStep(r, store) /\ VouchedFor(r, vouched)
  BY StepsAreFit
<1>3. r.op \in {"trust", "update", "revoke"} /\ Writing(r) /\ (r.op = "update" <=> Changing(r))
  BY <1>1, <1>2 DEF FitsStep, Writing, Changing
<1>4. Hosts \subseteq trustRaced \/ r.seen = pins
  BY <1>1 DEF TrustInv, LoneOnesAreCurrent
<1>5. ~ Changing(r) => r.of \in trustRaced \/ inventory[r.of] = r.at
  BY <1>3 DEF TrustInv, LoneOnesAreCurrent
<1> HIDE DEF r
<1>6. /\ x \in TrustAsk /\ x.op = r.op /\ x.of = r.of /\ x.at = r.at /\ x.key = r.key /\ x.to = r.to
      /\ x.seen = r.seen /\ x.step = "write" /\ x.result = r.result
  BY <1>2 DEF TrustAsk, TrustSteps
<1> HIDE DEF x
<1>7. FitsStep(x, store) /\ VouchedFor(x, vouched')
  BY <1>1, <1>2, <1>3, <1>6 DEF FitsStep, VouchedFor
<1>8. Changing(x) <=> Changing(r)
  BY <1>3, <1>6 DEF Changing
<1>9. /\ inventory' \in [Hosts -> Endpoints \cup {Gone}] /\ pins' \subseteq TrustPin
      /\ vouched' \subseteq TrustWord /\ vouched \subseteq vouched' /\ PinsAreSaid'
  BY <1>1 DEF TrustInv, TrustIsTyped, PinsAreSaid
<1>10. \A p \in pins' : \/ p.of \in trustRaced
                        \/ inventory'[p.of] \in {p.at, Gone}
                        \/ Changing(x) /\ x.of = p.of
                        \/ p.of # x.of /\ \E q \in pins : q.of = p.of /\ q.at = p.at
  <2> SUFFICES ASSUME NEW p \in pins, p.of = x.of
               PROVE  p.of \in trustRaced \/ inventory[p.of] \in {p.at, Gone} \/ Changing(x)
    BY <1>1
  <2>1. \/ p.of \in trustRaced
        \/ inventory[p.of] \in {p.at, Gone}
        \/ \E u \in Requests : Changing(request[u]) /\ request[u].of = p.of
    BY DEF TrustInv, LoneOnesAreCurrent
  <2> SUFFICES ASSUME NEW u \in Requests, Changing(request[u]), request[u].of = p.of, u # t
               PROVE  p.of \in trustRaced
    BY <1>8, <2>1 DEF r
  <2>2. Writing(request[u]) /\ request[u].of = request[t].of
    BY <1>6 DEF Writing, Changing, r
  <2> QED
    BY <1>3, <2>2 DEF TrustInv, RacesAreKnown, r
<1>11. /\ x.at = request[t].at /\ x.of = request[t].of /\ Writing(request[t]) /\ x.op # "connect"
       /\ Hosts \subseteq trustRaced \/ x.seen = pins'
  BY <1>1, <1>3, <1>4, <1>6 DEF r
<1>12. ~ Changing(x) => x.of \in trustRaced \/ inventory'[x.of] = x.at
  BY <1>1, <1>5, <1>6, <1>8
<1>13. \A v \in Hosts : v # x.of => inventory'[v] = inventory[v]
  BY <1>1
<1>14. /\ request' = Disturb([request EXCEPT ![t] = x], t) /\ torn' \in BOOLEAN /\ x.step = "write"
       /\ UNCHANGED <<store, offered, started, rebuilt, trustRaced>>
  BY <1>1, <1>6
<1>15. /\ torn' => x.step = "write" \/ (torn /\ request[t].step # "write")
       /\ x.step \in {"open", "write"} => Hosts \subseteq trustRaced \/ x.seen = pins'
       /\ Writing(x) /\ ~ Changing(x) => x.of \in trustRaced \/ inventory'[x.of] = x.at
       /\ x.at = request[t].at \/ x.step = "done"
  BY <1>11, <1>12, <1>14
<1> QED
  BY <1>6, <1>7, <1>9, <1>10, <1>11, <1>13, <1>14, <1>15, WritingStep

\* What a request writes of the pins: those it knew, its own VPS aside.
OwnWrite(s, r, new, w) ==
  /\ new \subseteq TrustPin /\ Once(new)
  /\ \A p \in new : \/ p.of # r.of /\ \E q \in s : q.of = p.of /\ q.at = p.at /\ Said(q) = Said(p)
                    \/ r.op = "trust" /\ Said(p) = w

LEMMA TrustWrites ==
  ASSUME NEW s \in SUBSET TrustPin, Once(s), NEW r \in TrustAsk, r.op = "trust",
         r.of \in Hosts, r.at \in Endpoints, r.key \in HostKeys
  PROVE  Said(r) \in TrustWord /\ OwnWrite(s, r, Upserted(s, Said(r)), Said(r))
<1> DEFINE w == Said(r)
<1>1. w \in TrustWord /\ w.of = r.of
  BY DEF Said, TrustWord
<1> HIDE DEF w
<1>2. /\ Upserted(s, w) \subseteq TrustPin /\ Once(Upserted(s, w))
      /\ \A p \in Upserted(s, w) : Said(p) = w \/ (p \in s /\ p.of # w.of)
  BY <1>1, UpsertedPins
<1> QED
  BY <1>1, <1>2 DEF OwnWrite, w

LEMMA RevokeWrites ==
  ASSUME NEW s \in SUBSET TrustPin, Once(s), NEW r, NEW w
  PROVE  /\ OwnWrite(s, r, Unpinned(s, r.of), w)
         /\ \A p \in Unpinned(s, r.of) : p.of # r.of
<1> DEFINE v == r.of
<1> HIDE DEF v
<1>1. /\ Unpinned(s, v) \subseteq TrustPin /\ Once(Unpinned(s, v))
      /\ \A p \in Unpinned(s, v) :
           p.of # v /\ \E q \in s : Said(p) = Said(q) /\ p.of = q.of /\ p.at = q.at /\ p.key = q.key
  BY UnpinnedPins
<1> QED
  BY <1>1 DEF OwnWrite, v

\* The request that has written has ended.
LEMMA WroteKeeps ==
  ASSUME TrustInv, NEW t \in Requests, NEW s \in SUBSET TrustPin, NEW result \in {"ok", "failed"},
         Writing(request[t]),
         Hosts \subseteq trustRaced \/ s = pins, Saying(s) \subseteq vouched, Once(s),
         request' = Disturb([request EXCEPT ![t] = Ended(@, result)], t),
         UNCHANGED <<store, inventory, offered, started, rebuilt, trustRaced>>,
         OwnWrite(s, request[t], pins', Said(request[t])),
         request[t].op = "trust" => Said(request[t]) \in vouched' /\ ~ Changing(request[t]),
         vouched' \subseteq TrustWord, vouched \subseteq vouched',
         store = "postgres" => OncePlaced(pins'),
         torn' \in BOOLEAN, torn' => torn /\ request[t].step # "write"
  PROVE  TrustInv'
<1> DEFINE r == request[t]
           x == Ended(r, result)
<1>1. r \in TrustAsk /\ r.op # "connect" /\ r.of \in Hosts
  BY StepsAreFit DEF FitsStep, Writing
<1>2. /\ x \in TrustAsk /\ x.step = "done" /\ FitsStep(x, store) /\ VouchedFor(x, vouched')
      /\ ~ Writing(x) /\ ~ Changing(x)
  BY <1>1, EndedFits
<1>3. x.op = r.op /\ x.of = r.of
  BY <1>1 DEF Ended, Requested
<1>4. request' = Disturb([request EXCEPT ![t] = x], t)
  OBVIOUS
<1>5. OwnWrite(s, r, pins', Said(r))
  OBVIOUS
<1>6. r.op = "trust" => Said(r) \in vouched' /\ (r.of \in trustRaced \/ inventory[r.of] = r.at)
  BY DEF TrustInv, LoneOnesAreCurrent
<1>7. r = request[t]
  OBVIOUS
<1> HIDE DEF r, x
<1>8. Saying(pins') \subseteq vouched'
  BY <1>5, <1>6 DEF OwnWrite, Saying
<1>9. PinsAreSaid'
  BY <1>5, <1>8 DEF OwnWrite, PinsAreSaid
<1>10. \A p \in pins' : \/ p.of \in trustRaced
                        \/ inventory'[p.of] \in {p.at, Gone}
                        \/ Changing(x) /\ x.of = p.of
                        \/ p.of # x.of /\ \E q \in pins : q.of = p.of /\ q.at = p.at
  <2> SUFFICES ASSUME NEW p \in pins', p.of \notin trustRaced
               PROVE  \/ inventory[p.of] = p.at
                      \/ p.of # x.of /\ \E q \in pins : q.of = p.of /\ q.at = p.at
    OBVIOUS
  <2>1. CASE r.op = "trust" /\ Said(p) = Said(r)
    BY <1>6, <2>1, WordsOfPins
  <2>2. CASE p.of # r.of /\ \E q \in s : q.of = p.of /\ q.at = p.at /\ Said(q) = Said(p)
    <3>1. p.of \in Hosts
      BY <1>5 DEF OwnWrite, TrustPin
    <3> QED
      BY <1>3, <2>2, <3>1
  <2> QED
    BY <1>5, <2>1, <2>2 DEF OwnWrite
<1>11. pins' \subseteq TrustPin /\ inventory' \in [Hosts -> Endpoints \cup {Gone}]
  BY <1>5 DEF OwnWrite, TrustInv, TrustIsTyped
<1>12. /\ x.of = request[t].of /\ x.op # "connect" /\ x.step = "done"
       /\ torn' => torn /\ request[t].step # "write"
  BY <1>1, <1>2, <1>3, <1>7
<1>13. \A v \in Hosts : v # x.of => inventory'[v] = inventory[v]
  OBVIOUS
<1> QED
  BY <1>2, <1>4, <1>9, <1>10, <1>11, <1>12, <1>13, WritingStep

LEMMA WriteFileKeeps == ASSUME TrustInv, NEW t \in Requests, WriteFile(t) PROVE TrustInv'
<1> DEFINE r == request[t]
<1>1. /\ r.step = "write" /\ torn' = FALSE
      /\ request' = Disturb([request EXCEPT ![t] = Ended(@, "ok")], t)
      /\ UNCHANGED <<store, inventory, offered, started, rebuilt, trustRaced>>
  BY DEF WriteFile
<1>2. r \in TrustAsk /\ FitsStep(r, store) /\ VouchedFor(r, vouched)
  BY StepsAreFit
<1>3. /\ store = "json" /\ r.op \in {"trust", "update", "revoke"} /\ Writing(r)
      /\ r.of \in Hosts /\ r.at \in Endpoints /\ (r.op = "trust" => r.key \in HostKeys /\ ~ Changing(r))
  BY <1>1, <1>2 DEF FitsStep, Writing, Changing
<1>4. Hosts \subseteq trustRaced \/ r.seen = pins
  BY <1>1 DEF TrustInv, LoneOnesAreCurrent
<1>5. r.seen \in SUBSET TrustPin /\ Once(r.seen) /\ Saying(r.seen) \subseteq vouched
  BY <1>2 DEF VouchedFor, TrustAsk
<1>6. vouched \subseteq TrustWord
  BY DEF TrustInv, TrustIsTyped
<1>7. CASE r.op = "trust"
  <2>1. pins' = Upserted(r.seen, Said(r)) /\ vouched' = vouched \cup {Said(r)}
    BY <1>7 DEF WriteFile
  <2>2. OwnWrite(r.seen, r, pins', Said(r)) /\ Said(r) \in TrustWord
    BY <1>2, <1>3, <1>5, <1>7, <2>1, TrustWrites
  <2>3. vouched' \subseteq TrustWord /\ vouched \subseteq vouched' /\ Said(r) \in vouched'
    BY <1>6, <2>1, <2>2
  <2> QED
    BY <1>1, <1>3, <1>4, <1>5, <2>2, <2>3, WroteKeeps
<1>8. CASE r.op # "trust"
  <2>1. pins' = Unpinned(r.seen, r.of) /\ vouched' = vouched
    BY <1>8 DEF WriteFile
  <2>2. OwnWrite(r.seen, r, pins', Said(r))
    BY <1>5, <2>1, RevokeWrites
  <2> QED
    BY <1>1, <1>3, <1>4, <1>5, <1>6, <1>8, <2>1, <2>2, WroteKeeps
<1> QED
  BY <1>7, <1>8

\* In the table a pin conflicts with none of its endpoint.
LEMMA PinKeeps == ASSUME TrustInv, NEW t \in Requests, Pin(t) PROVE TrustInv'
<1> DEFINE r == request[t]
           w == Said(r)
<1>1. /\ r.op = "trust" /\ r.step = "pin"
      /\ UNCHANGED <<store, inventory, offered, started, rebuilt, trustRaced>>
      /\ \/ /\ ~ Conflicting(w) /\ WriteTable(t, Upserted(pins, w), "ok") /\ vouched' = vouched \cup {w}
         \/ /\ Conflicting(w) /\ WriteTable(t, pins, "failed") /\ UNCHANGED vouched
         \/ Begin(t) /\ UNCHANGED vouched
  BY DEF Pin
<1>2. r \in TrustAsk /\ r.of \in Hosts /\ r.at \in Endpoints /\ r.key \in HostKeys /\ Writing(r) /\ ~ Changing(r)
  BY <1>1, StepsAreFit DEF FitsStep, Writing, Changing
<1>3. /\ pins \in SUBSET TrustPin /\ Once(pins) /\ Saying(pins) \subseteq vouched /\ vouched \subseteq TrustWord
      /\ torn \in BOOLEAN /\ (store = "postgres" => OncePlaced(pins))
  BY DEF TrustInv, TrustIsTyped, PinsAreSaid
<1>4. w \in TrustWord /\ OwnWrite(pins, r, Upserted(pins, w), w)
  BY <1>1, <1>2, <1>3, TrustWrites
<1>5. CASE ~ Conflicting(w) /\ WriteTable(t, Upserted(pins, w), "ok") /\ vouched' = vouched \cup {w}
  <2>1. /\ store = "postgres" /\ pins' = Upserted(pins, w) /\ UNCHANGED torn
        /\ request' = Disturb([request EXCEPT ![t] = Ended(@, "ok")], t)
    BY <1>5 DEF WriteTable
  <2>2. OncePlaced(pins')
    <3>1. w.of = r.of /\ \A q \in pins : q.of # w.of => q.at # w.at
      BY <1>5, WordsOfPins DEF Conflicting
    <3>2. \A p \in pins' : \/ p.of # r.of /\ p \in pins
                           \/ p.of = w.of /\ p.at = w.at
      <4>1. \A p \in pins' : Said(p) = w \/ (p \in pins /\ p.of # w.of)
        BY <1>3, <1>4, <2>1, UpsertedPins
      <4> QED
        BY <3>1, <4>1, WordsOfPins
    <3>3. Once(pins')
      BY <1>4, <2>1 DEF OwnWrite
    <3> HIDE DEF w, r
    <3> QED
      BY <1>3, <2>1, <3>1, <3>2, <3>3 DEF OncePlaced, Once
  <2>3. vouched' \subseteq TrustWord /\ vouched \subseteq vouched' /\ w \in vouched'
    BY <1>3, <1>4, <1>5
  <2>4. torn' \in BOOLEAN /\ (torn' => torn /\ request[t].step # "write")
    BY <1>1, <1>3, <2>1
  <2>5. OwnWrite(pins, r, pins', w)
    BY <1>4, <2>1
  <2> QED
    BY <1>1, <1>2, <1>3, <2>1, <2>2, <2>3, <2>4, <2>5, WroteKeeps
<1>6. CASE Conflicting(w) /\ WriteTable(t, pins, "failed") /\ UNCHANGED vouched
  <2>1. /\ store = "postgres" /\ UNCHANGED <<pins, torn>>
        /\ request' = Disturb([request EXCEPT ![t] = Ended(@, "failed")], t)
    BY <1>6 DEF WriteTable
  <2> DEFINE x == Ended(r, "failed")
  <2>2. /\ x \in TrustAsk /\ x.step = "done" /\ FitsStep(x, store) /\ VouchedFor(x, vouched')
        /\ ~ Writing(x) /\ ~ Changing(x)
    BY <1>1, <1>2, EndedFits
  <2>3. x.op = r.op /\ x.of = r.of
    BY <1>1, <1>2 DEF Ended, Requested
  <2>4. request' = Disturb([request EXCEPT ![t] = x], t)
    BY <2>1
  <2>5. r = request[t]
    OBVIOUS
  <2> HIDE DEF r, x, w
  <2>6. /\ inventory' \in [Hosts -> Endpoints \cup {Gone}] /\ pins' \subseteq TrustPin
        /\ vouched' \subseteq TrustWord /\ vouched \subseteq vouched' /\ PinsAreSaid' /\ torn' \in BOOLEAN
    BY <1>1, <1>3, <1>6, <2>1 DEF TrustInv, TrustIsTyped, PinsAreSaid
  <2>7. \A p \in pins' : \/ p.of \in trustRaced
                         \/ inventory'[p.of] \in {p.at, Gone}
                         \/ Changing(x) /\ x.of = p.of
                         \/ p.of # x.of /\ \E q \in pins : q.of = p.of /\ q.at = p.at
    <3> SUFFICES ASSUME NEW p \in pins, p.of = r.of
                 PROVE  p.of \in trustRaced \/ inventory[p.of] \in {p.at, Gone}
      BY <1>1, <2>1, <2>3
    <3>1. ASSUME NEW u \in Requests, Changing(request[u]), request[u].of = p.of PROVE p.of \in trustRaced
      <4>1. u # t /\ Writing(request[u]) /\ request[u].of = request[t].of
        BY <1>2, <2>5, <3>1 DEF Writing, Changing
      <4> QED
        BY <1>2, <2>5, <4>1 DEF TrustInv, RacesAreKnown
    <3> QED
      BY <3>1 DEF TrustInv, LoneOnesAreCurrent
  <2>8. /\ torn' => x.step = "write" \/ (torn /\ request[t].step # "write")
        /\ x.of = request[t].of /\ Writing(request[t]) /\ x.op # "connect"
    BY <1>1, <1>2, <2>1, <2>3, <2>5
  <2>9. /\ \A v \in Hosts : v # x.of => inventory'[v] = inventory[v]
        /\ UNCHANGED <<store, offered, started, rebuilt, trustRaced>>
    BY <1>1
  <2> QED
    BY <2>2, <2>4, <2>6, <2>7, <2>8, <2>9, WritingStep
<1>7. CASE Begin(t) /\ UNCHANGED vouched
  BY <1>1, <1>7, BeginKeeps
<1> QED
  BY <1>1, <1>5, <1>6, <1>7

\* Whether in the table or in the file, the pin goes, or none was there.
LEMMA RevokeTrustKeeps == ASSUME TrustInv, NEW t \in Requests, RevokeTrust(t) PROVE TrustInv'
<1> DEFINE r == request[t]
           v == r.of
<1>1. /\ \/ r.op = "revoke" /\ r.step = "begun"
         \/ r.op = "update" /\ r.step = "changed"
      /\ \/ WriteTable(t, Unpinned(pins, v), "ok")
         \/ PinsOf(ReadPins, v) # {} /\ Begin(t)
         \/ /\ store = "json" /\ PinsOf(ReadPins, v) = {}
            /\ Answer(t, "ok") /\ UNCHANGED <<pins, torn>>
      /\ UNCHANGED <<store, inventory, offered, started, rebuilt, vouched, trustRaced>>
  BY DEF RevokeTrust
<1>2. r \in TrustAsk /\ r.of \in Hosts /\ Writing(r)
  BY <1>1, StepsAreFit DEF FitsStep, Writing
<1>3. /\ pins \in SUBSET TrustPin /\ Once(pins) /\ Saying(pins) \subseteq vouched /\ vouched \subseteq TrustWord
      /\ torn \in BOOLEAN /\ (store = "postgres" => OncePlaced(pins))
  BY DEF TrustInv, TrustIsTyped, PinsAreSaid
<1>4. CASE WriteTable(t, Unpinned(pins, v), "ok")
  <2>1. /\ store = "postgres" /\ pins' = Unpinned(pins, v) /\ UNCHANGED torn
        /\ request' = Disturb([request EXCEPT ![t] = Ended(@, "ok")], t)
    BY <1>4 DEF WriteTable
  <2>2. OwnWrite(pins, r, pins', Said(r)) /\ OncePlaced(pins')
    BY <1>3, <2>1, RevokeWrites, UnpinnedPins
  <2>3. torn' \in BOOLEAN /\ (torn' => torn /\ request[t].step # "write") /\ r.op # "trust"
    BY <1>1, <1>3, <2>1
  <2>4. /\ vouched' \subseteq TrustWord /\ vouched \subseteq vouched'
        /\ UNCHANGED <<store, inventory, offered, started, rebuilt, trustRaced>>
    BY <1>1, <1>3
  <2> QED
    BY <1>2, <1>3, <2>1, <2>2, <2>3, <2>4, WroteKeeps
<1>5. CASE Begin(t)
  BY <1>1, <1>5, BeginKeeps
<1>6. CASE /\ store = "json" /\ PinsOf(ReadPins, v) = {}
           /\ Answer(t, "ok") /\ UNCHANGED <<pins, torn>>
  <2>1. \A p \in pins : p.of = r.of => p.of \in trustRaced
    <3> SUFFICES ASSUME NEW p \in pins, p.of = r.of, ~ Hosts \subseteq trustRaced PROVE FALSE
      BY <1>2
    <3>1. ~ torn
      BY <1>1, <1>2, <1>6, LoneWriter
    <3> QED
      BY <1>6, <3>1 DEF ReadPins, PinsOf
  <2> QED
    BY <1>1, <1>6, <2>1, AnswerKeeps
<1> QED
  BY <1>1, <1>4, <1>5, <1>6

\* The endpoint changes before the pin goes.
LEMMA UpdateKeeps == ASSUME TrustInv, NEW t \in Requests, Update(t) PROVE TrustInv'
<1> DEFINE r == request[t]
           x == IF r.to = r.at THEN Ended(r, "ok") ELSE [r EXCEPT !.step = "changed"]
<1>1. /\ r.op = "update" /\ r.step = "begun"
      /\ UNCHANGED <<store, offered, pins, torn, started, rebuilt, vouched, trustRaced>>
  BY DEF Update
<1>2. /\ r \in TrustAsk /\ FitsStep(r, store) /\ VouchedFor(r, vouched) /\ r.of \in Hosts
      /\ r.at \in Endpoints /\ r.to \in Endpoints /\ Writing(r) /\ ~ Changing(r)
  BY <1>1, StepsAreFit DEF FitsStep, Writing, Changing
<1>3. CASE inventory[r.of] = Gone
  <2>1. Answer(t, "failed") /\ UNCHANGED inventory
    BY <1>3 DEF Update
  <2> QED
    BY <1>1, <1>2, <2>1, AnswerKeeps
<1>4. CASE inventory[r.of] # Gone
  <2>1. /\ inventory' = [inventory EXCEPT ![r.of] = r.to]
        /\ request' = Disturb([request EXCEPT ![t] = x], t)
    BY <1>1, <1>4 DEF Update
  <2>2. r.of \in trustRaced \/ inventory[r.of] = r.at
    BY <1>2 DEF TrustInv, LoneOnesAreCurrent
  <2>3. ASSUME NEW p \in pins, p.of = r.of
        PROVE  p.of \in trustRaced \/ inventory[p.of] \in {p.at, Gone}
    <3>1. ASSUME NEW u \in Requests, Changing(request[u]), request[u].of = p.of PROVE p.of \in trustRaced
      <4>1. u # t /\ Writing(request[u]) /\ request[u].of = request[t].of
        BY <1>2, <2>3, <3>1 DEF Writing, Changing
      <4> QED
        BY <1>2, <2>3, <4>1 DEF TrustInv, RacesAreKnown
    <3> QED
      BY <3>1 DEF TrustInv, LoneOnesAreCurrent
  <2>4. r = request[t]
    OBVIOUS
  <2>5. /\ x \in TrustAsk /\ FitsStep(x, store) /\ VouchedFor(x, vouched') /\ x.op = "update" /\ x.of = r.of
        /\ \/ x.step = "done" /\ ~ Writing(x) /\ ~ Changing(x) /\ r.to = r.at
           \/ x.step = "changed" /\ Changing(x) /\ x.at = r.at
    <3>1. CASE r.to = r.at
      <4>1. x = Ended(r, "ok")
        BY <3>1
      <4>2. Ended(r, "ok").op = r.op /\ Ended(r, "ok").of = r.of
        BY <1>1, <1>2 DEF Ended, Requested
      <4> QED
        BY <1>1, <1>2, <3>1, <4>1, <4>2, EndedFits
    <3>2. CASE r.to # r.at
      <4> DEFINE y == [r EXCEPT !.step = "changed"]
      <4>1. x = y
        BY <3>2
      <4> HIDE DEF r, x
      <4>2. /\ y \in TrustAsk /\ y.op = r.op /\ y.of = r.of /\ y.at = r.at /\ y.key = r.key /\ y.to = r.to
            /\ y.seen = r.seen /\ y.step = "changed" /\ y.result = r.result
        BY <1>2 DEF TrustAsk, TrustSteps
      <4> HIDE DEF y
      <4>3. FitsStep(y, store) /\ VouchedFor(y, vouched') /\ Changing(y)
        BY <1>1, <1>2, <4>2 DEF FitsStep, VouchedFor, Changing
      <4> QED
        BY <1>1, <4>1, <4>2, <4>3
    <3> QED
      BY <3>1, <3>2
  <2> HIDE DEF r, x
  <2>6. /\ inventory' \in [Hosts -> Endpoints \cup {Gone}] /\ inventory'[r.of] = r.to
        /\ \A v \in Hosts : v # r.of => inventory'[v] = inventory[v]
    BY <1>2, <2>1 DEF TrustInv, TrustIsTyped
  <2>7. /\ pins' \subseteq TrustPin /\ torn' \in BOOLEAN
        /\ vouched' \subseteq TrustWord /\ vouched \subseteq vouched' /\ PinsAreSaid'
    BY <1>1 DEF TrustInv, TrustIsTyped, PinsAreSaid
  <2>8. \A p \in pins' : \/ p.of \in trustRaced
                         \/ inventory'[p.of] \in {p.at, Gone}
                         \/ Changing(x) /\ x.of = p.of
                         \/ p.of # x.of /\ \E q \in pins : q.of = p.of /\ q.at = p.at
    <3> SUFFICES ASSUME NEW p \in pins, p.of = r.of, ~ Changing(x)
                 PROVE  p.of \in trustRaced \/ inventory'[p.of] \in {p.at, Gone}
      BY <1>1, <2>5
    <3> QED
      BY <2>2, <2>3, <2>5, <2>6
  <2>9. /\ torn' => x.step = "write" \/ (torn /\ request[t].step # "write")
        /\ x.of = request[t].of /\ Writing(request[t]) /\ x.op # "connect"
        /\ x.at = request[t].at \/ x.step = "done"
        /\ x.step \notin {"open", "write"}
        /\ Writing(x) /\ ~ Changing(x) => x.of \in trustRaced \/ inventory'[x.of] = x.at
    BY <1>1, <1>2, <2>4, <2>5
  <2>10. /\ \A v \in Hosts : v # x.of => inventory'[v] = inventory[v]
         /\ UNCHANGED <<store, offered, started, rebuilt, trustRaced>>
    BY <1>1, <2>5, <2>6
  <2> QED
    BY <2>1, <2>5, <2>6, <2>7, <2>8, <2>9, <2>10, WritingStep
<1> QED
  BY <1>3, <1>4

\* Of a VPS that is gone nothing is asked of its pin.
LEMMA DeleteKeeps == ASSUME TrustInv, NEW t \in Requests, Delete(t) PROVE TrustInv'
<1> DEFINE r == request[t]
           x == Ended(r, "ok")
<1>1. /\ r.op = "delete" /\ r.step = "begun"
      /\ inventory' = [inventory EXCEPT ![r.of] = Gone]
      /\ pins' = IF store = "postgres" THEN Unpinned(pins, r.of) ELSE pins
      /\ request' = Disturb([request EXCEPT ![t] = x], t)
      /\ UNCHANGED <<store, offered, torn, started, rebuilt, vouched, trustRaced>>
  BY DEF Delete
<1>2. r \in TrustAsk /\ r.of \in Hosts /\ Writing(r)
  BY <1>1, StepsAreFit DEF FitsStep, Writing
<1>3. /\ x \in TrustAsk /\ x.step = "done" /\ FitsStep(x, store) /\ VouchedFor(x, vouched')
      /\ ~ Writing(x) /\ ~ Changing(x)
  BY <1>1, <1>2, EndedFits
<1>4. x.op = r.op /\ x.of = r.of
  BY <1>1, <1>2 DEF Ended, Requested
<1>5. r = request[t]
  OBVIOUS
<1> HIDE DEF r, x
<1>6. /\ pins \in SUBSET TrustPin /\ Once(pins) /\ Saying(pins) \subseteq vouched /\ vouched \subseteq TrustWord
      /\ torn \in BOOLEAN /\ (store = "postgres" => OncePlaced(pins))
  BY DEF TrustInv, TrustIsTyped, PinsAreSaid
<1>7. /\ inventory' \in [Hosts -> Endpoints \cup {Gone}] /\ inventory'[r.of] = Gone
      /\ \A v \in Hosts : v # r.of => inventory'[v] = inventory[v]
  BY <1>1, <1>2 DEF TrustInv, TrustIsTyped
<1>8. /\ pins' \subseteq TrustPin /\ Once(pins') /\ (store = "postgres" => OncePlaced(pins'))
      /\ \A p \in pins' : \E q \in pins : q.of = p.of /\ q.at = p.at /\ Said(q) = Said(p)
  <2>1. CASE store = "postgres"
    BY <1>1, <1>6, <2>1, UnpinnedPins
  <2>2. CASE store # "postgres"
    BY <1>1, <1>6, <2>2
  <2> QED
    BY <2>1, <2>2
<1>9. PinsAreSaid'
  <2>1. Saying(pins') \subseteq vouched
    BY <1>6, <1>8 DEF Saying
  <2> QED
    BY <1>1, <1>8, <2>1 DEF PinsAreSaid
<1>10. \A p \in pins' : \/ p.of \in trustRaced
                        \/ inventory'[p.of] \in {p.at, Gone}
                        \/ Changing(x) /\ x.of = p.of
                        \/ p.of # x.of /\ \E q \in pins : q.of = p.of /\ q.at = p.at
  BY <1>4, <1>7, <1>8
<1>11. /\ torn' => x.step = "write" \/ (torn /\ request[t].step # "write")
       /\ x.of = request[t].of /\ Writing(request[t]) /\ x.op # "connect"
       /\ torn' \in BOOLEAN /\ vouched' \subseteq TrustWord /\ vouched \subseteq vouched'
  BY <1>1, <1>2, <1>4, <1>5, <1>6
<1>12. /\ \A v \in Hosts : v # x.of => inventory'[v] = inventory[v]
       /\ UNCHANGED <<store, offered, started, rebuilt, trustRaced>>
  BY <1>1, <1>4, <1>7
<1> QED
  BY <1>1, <1>3, <1>7, <1>8, <1>9, <1>10, <1>11, <1>12, WritingStep

\* A request begins with the endpoint as it is; whoever it overlaps with is known.
LEMMA StartKeeps ==
  ASSUME TrustInv, NEW t \in Requests, NEW v \in Hosts,
         NEW op \in {"trust", "update", "revoke", "delete", "connect"},
         NEW to \in Endpoints \cup {Gone}, NEW k \in HostKeys \cup {Gone}, NEW strict \in BOOLEAN,
         op = "trust" => k \in HostKeys, op = "update" => to \in Endpoints,
         Start(t, op, v, to, k, strict)
  PROVE  TrustInv'
<1> DEFINE calm == Open = {}
           x == [Requested EXCEPT !.op = op, !.of = v, !.at = inventory[v], !.to = to, !.key = k,
                                  !.strict = strict, !.step = "begun", !.calm = calm]
           more == { w \in Hosts : \E u \in Open :
                       /\ request[u].op # "connect"
                       /\ store = "json" \/ (request[u].of = v /\ w = v) }
<1>1. /\ request[t].step = "done" /\ started + rebuilt < MaxRequests /\ inventory[v] # Gone
      /\ started' = started + 1 /\ request' = [request EXCEPT ![t] = x]
      /\ trustRaced' = IF op = "connect" THEN trustRaced ELSE trustRaced \cup more
      /\ UNCHANGED <<store, inventory, offered, pins, torn, rebuilt, vouched>>
  BY DEF Start
<1>2. inventory[v] \in Endpoints
  BY <1>1 DEF TrustInv, TrustIsTyped
<1>3. calm \in BOOLEAN /\ (calm => ~ torn)
  BY DEF Open, TrustInv, TornIsWritten
<1>4. more \subseteq Hosts
  OBVIOUS
<1>5. \A u \in Requests : Writing(request[u]) =>
        /\ store = "json" => more = Hosts
        /\ request[u].of = v => v \in more
  BY DEF Writing, Open
<1>6. store = "json" => more \in {{}, Hosts}
  OBVIOUS
<1> HIDE DEF calm, more
<1>7. /\ x \in TrustAsk /\ x.op = op /\ x.of = v /\ x.at = inventory[v] /\ x.to = to /\ x.key = k
      /\ x.step = "begun" /\ x.calm = calm /\ x.seen = {} /\ x.pinned = {} /\ x.result = "none"
  BY <1>2, <1>3 DEF Requested, TrustAsk, TrustSteps
<1> HIDE DEF x
<1>8. request' \in [Requests -> TrustAsk] /\ request'[t] = x /\ Still(t)
  BY <1>1, <1>7, OneIsWritten DEF TrustInv, TrustIsTyped
<1>9. trustRaced' \subseteq Hosts /\ trustRaced \subseteq trustRaced'
  BY <1>1, <1>4 DEF TrustInv, TrustIsTyped
<1>10. TrustIsTyped'
  <2>1. started' \in 0 .. MaxRequests
    BY <1>1, TrustAssumption DEF TrustInv, TrustIsTyped
  <2> QED
    BY <1>1, <1>8, <1>9, <2>1 DEF TrustInv, TrustIsTyped
<1>11. RequestsAreFit'
  <2>1. Once({}) /\ Saying({}) = {}
    BY DEF Once, Saying
  <2>2. FitsStep(x, store) /\ VouchedFor(x, vouched') /\ Current(x, pins', torn', offered')
    BY <1>1, <1>2, <1>3, <1>7, <2>1 DEF FitsStep, VouchedFor, Current
  <2> QED
    BY <1>1, <1>8, <2>2, OthersStayFit
<1>12. TornIsWritten'
  BY <1>1, <1>8, TearStays
<1>13. PinsAreSaid'
  BY <1>1 DEF TrustInv, PinsAreSaid
<1>14. RacesAreKnown'
  <2>1. store = "json" => trustRaced' = {} \/ Hosts \subseteq trustRaced'
    BY <1>1, <1>6 DEF TrustInv, RacesAreKnown
  <2>2. ASSUME NEW u \in Requests, u # t, Writing(request'[u]), Writing(x)
        PROVE  /\ store = "json" => Hosts \subseteq trustRaced'
               /\ request'[u].of = v => v \in trustRaced'
    <3>1. Writing(request[u]) /\ request'[u].of = request[u].of
      BY <1>8, <2>2, OthersWrite
    <3>2. op # "connect"
      BY <1>7, <2>2 DEF Writing
    <3> QED
      BY <1>1, <1>5, <3>1, <3>2
  <2>3. ASSUME NEW a \in Requests, NEW u \in Requests, a # u, a # t, u # t,
               Writing(request'[a]), Writing(request'[u])
        PROVE  /\ store = "json" => Hosts \subseteq trustRaced'
               /\ request'[a].of = request'[u].of => request'[a].of \in trustRaced'
    <3>1. Writing(request[a]) /\ request'[a].of = request[a].of
      BY <1>8, <2>3, OthersWrite
    <3>2. Writing(request[u]) /\ request'[u].of = request[u].of
      BY <1>8, <2>3, OthersWrite
    <3> QED
      BY <1>9, <2>3, <3>1, <3>2 DEF TrustInv, RacesAreKnown
  <2>4. \A a, u \in Requests : a # u /\ Writing(request'[a]) /\ Writing(request'[u]) =>
          /\ store = "json" => Hosts \subseteq trustRaced'
          /\ request'[a].of = request'[u].of => request'[a].of \in trustRaced'
    <3> SUFFICES ASSUME NEW a \in Requests, NEW u \in Requests, a # u,
                        Writing(request'[a]), Writing(request'[u])
                 PROVE  /\ store = "json" => Hosts \subseteq trustRaced'
                        /\ request'[a].of = request'[u].of => request'[a].of \in trustRaced'
      OBVIOUS
    <3>1. CASE a = t
      BY <1>7, <1>8, <2>2, <3>1
    <3>2. CASE u = t
      BY <1>7, <1>8, <2>2, <3>2
    <3>3. CASE a # t /\ u # t
      BY <2>3, <3>3
    <3> QED
      BY <3>1, <3>2, <3>3
  <2> QED
    BY <1>1, <2>1, <2>4 DEF RacesAreKnown
<1>15. LoneOnesAreCurrent'
  <2>1. \A u \in Requests : request'[u].step \in {"open", "write"} =>
          Hosts \subseteq trustRaced' \/ request'[u].seen = pins
    <3> SUFFICES ASSUME NEW u \in Requests, u # t, request'[u].step \in {"open", "write"}
                 PROVE  Hosts \subseteq trustRaced \/ request'[u].seen = pins
      BY <1>7, <1>8, <1>9
    <3> QED
      BY <1>8, OthersWrite DEF TrustInv, LoneOnesAreCurrent
  <2>2. \A u \in Requests : Writing(request'[u]) /\ ~ Changing(request'[u]) =>
          request'[u].of \in trustRaced' \/ inventory[request'[u].of] = request'[u].at
    <3> SUFFICES ASSUME NEW u \in Requests, u # t, Writing(request'[u]), ~ Changing(request'[u])
                 PROVE  request'[u].of \in trustRaced \/ inventory[request'[u].of] = request'[u].at
      BY <1>7, <1>8, <1>9
    <3> QED
      BY <1>8, OthersWrite DEF TrustInv, LoneOnesAreCurrent
  <2>3. ASSUME NEW p \in pins
        PROVE  \/ p.of \in trustRaced'
               \/ inventory[p.of] \in {p.at, Gone}
               \/ \E u \in Requests : Changing(request'[u]) /\ request'[u].of = p.of
    <3> SUFFICES ASSUME NEW u \in Requests, Changing(request[u]), request[u].of = p.of
                 PROVE  Changing(request'[u]) /\ request'[u].of = p.of
      BY <1>9 DEF TrustInv, LoneOnesAreCurrent
    <3>1. u # t
      BY <1>1 DEF Changing
    <3> QED
      BY <1>8, <3>1, OthersWrite
  <2> QED
    BY <1>1, <2>1, <2>2, <2>3 DEF LoneOnesAreCurrent
<1> QED
  BY <1>10, <1>11, <1>12, <1>13, <1>14, <1>15 DEF TrustInv

\* A new VPS has no pin, and no request is about it.
LEMMA AddKeeps == ASSUME TrustInv, NEW v \in Hosts, NEW e \in Endpoints, Add(v, e) PROVE TrustInv'
<1>1. /\ started + rebuilt < MaxRequests /\ started' = started + 1
      /\ \A t \in Requests : request[t].of # v
      /\ \A p \in pins : p.of # v
      /\ inventory' = [inventory EXCEPT ![v] = e]
      /\ UNCHANGED <<store, offered, pins, torn, request, rebuilt, vouched, trustRaced>>
  BY DEF Add
<1>2. /\ inventory' \in [Hosts -> Endpoints \cup {Gone}] /\ \A w \in Hosts : w # v => inventory'[w] = inventory[w]
      /\ started' \in 0 .. MaxRequests
  BY <1>1, TrustAssumption DEF TrustInv, TrustIsTyped
<1>3. TrustIsTyped'
  BY <1>1, <1>2 DEF TrustInv, TrustIsTyped
<1>4. PinsAreSaid' /\ RequestsAreFit' /\ TornIsWritten' /\ RacesAreKnown'
  BY <1>1 DEF TrustInv, PinsAreSaid, RequestsAreFit, TornIsWritten, RacesAreKnown
<1>5. LoneOnesAreCurrent'
  <2>1. \A t \in Requests : Writing(request[t]) => inventory'[request[t].of] = inventory[request[t].of]
    BY <1>1, <1>2, StepsAreFit DEF FitsStep, Writing
  <2>2. \A p \in pins : inventory'[p.of] = inventory[p.of]
    BY <1>1, <1>2 DEF TrustInv, TrustIsTyped, TrustPin
  <2> QED
    BY <1>1, <2>1, <2>2 DEF TrustInv, LoneOnesAreCurrent
<1> QED
  BY <1>3, <1>4, <1>5 DEF TrustInv

\* A reinstalled machine disturbs every connection.
LEMMA ReinstallKeeps ==
  ASSUME TrustInv, NEW e \in Endpoints, NEW ks \in Offers, Reinstall(e, ks) PROVE TrustInv'
<1>1. /\ rebuilt < MaxReinstalls /\ rebuilt' = rebuilt + 1 /\ offered' = [offered EXCEPT ![e] = ks]
      /\ request' = [t \in Requests |-> [request[t] EXCEPT !.calm = FALSE]]
      /\ UNCHANGED <<store, inventory, pins, torn, started, vouched, trustRaced>>
  BY DEF Reinstall
<1>2. \A t \in Requests : /\ request'[t] \in TrustAsk /\ Alike(request'[t], request[t])
                          /\ ~ request'[t].calm
  <2> SUFFICES ASSUME NEW t \in Requests
               PROVE  request'[t] \in TrustAsk /\ Alike(request'[t], request[t]) /\ ~ request'[t].calm
    OBVIOUS
  <2>1. request[t] \in TrustAsk /\ request'[t] = [request[t] EXCEPT !.calm = FALSE]
    BY <1>1, StepsAreFit
  <2>2. request'[t] \in TrustAsk /\ Alike(request'[t], request[t])
    BY <2>1, StillHolds
  <2>3. ~ [request[t] EXCEPT !.calm = FALSE].calm
    BY <2>1 DEF TrustAsk
  <2> QED
    BY <2>1, <2>2, <2>3
<1>3. TrustIsTyped'
  <2>1. rebuilt' \in 0 .. MaxReinstalls /\ offered' \in [Endpoints -> Offers]
    BY <1>1, TrustAssumption DEF TrustInv, TrustIsTyped
  <2>2. request' \in [Requests -> TrustAsk]
    BY <1>1, <1>2
  <2> QED
    BY <1>1, <2>1, <2>2 DEF TrustInv, TrustIsTyped
<1>4. RequestsAreFit'
  <2> SUFFICES ASSUME NEW t \in Requests
               PROVE  /\ FitsStep(request'[t], store) /\ VouchedFor(request'[t], vouched)
                      /\ Current(request'[t], pins', torn', offered')
    BY <1>1 DEF RequestsAreFit
  <2>1. FitsStep(request[t], store) /\ VouchedFor(request[t], vouched) /\ Alike(request'[t], request[t])
    BY <1>2, StepsAreFit
  <2>2. Current(request'[t], pins', torn', offered')
    BY <1>2 DEF Current
  <2>3. FitsStep(request'[t], store)
    BY <2>1 DEF FitsStep, Alike
  <2>4. VouchedFor(request'[t], vouched)
    BY <2>1 DEF VouchedFor, Alike
  <2> QED
    BY <2>2, <2>3, <2>4
<1>5. \A t \in Requests : /\ request'[t].step = request[t].step /\ request'[t].of = request[t].of
                          /\ request'[t].seen = request[t].seen /\ request'[t].at = request[t].at
                          /\ Writing(request'[t]) = Writing(request[t])
                          /\ Changing(request'[t]) = Changing(request[t])
  BY <1>2 DEF Alike, Writing, Changing
<1>6. TornIsWritten' /\ PinsAreSaid'
  BY <1>1, <1>5 DEF TrustInv, TornIsWritten, PinsAreSaid
<1>7. RacesAreKnown'
  <2>1. /\ store = "json" => trustRaced = {} \/ Hosts \subseteq trustRaced
        /\ \A t, u \in Requests : t # u /\ Writing(request'[t]) /\ Writing(request'[u]) =>
             /\ store = "json" => Hosts \subseteq trustRaced
             /\ request'[t].of = request'[u].of => request'[t].of \in trustRaced
    BY <1>5 DEF TrustInv, RacesAreKnown
  <2> QED
    BY <1>1, <2>1 DEF RacesAreKnown
<1>8. LoneOnesAreCurrent'
  <2>1. \A t \in Requests : request'[t].step \in {"open", "write"} =>
          Hosts \subseteq trustRaced \/ request'[t].seen = pins
    BY <1>5 DEF TrustInv, LoneOnesAreCurrent
  <2>2. \A t \in Requests : Writing(request'[t]) /\ ~ Changing(request'[t]) =>
          request'[t].of \in trustRaced \/ inventory[request'[t].of] = request'[t].at
    BY <1>5 DEF TrustInv, LoneOnesAreCurrent
  <2>3. \A p \in pins : \/ p.of \in trustRaced
                        \/ inventory[p.of] \in {p.at, Gone}
                        \/ \E t \in Requests : Changing(request'[t]) /\ request'[t].of = p.of
    BY <1>5 DEF TrustInv, LoneOnesAreCurrent
  <2> QED
    BY <1>1, <2>1, <2>2, <2>3 DEF LoneOnesAreCurrent
<1> QED
  BY <1>3, <1>4, <1>6, <1>7, <1>8 DEF TrustInv

LEMMA TrustBegins == HInit => TrustInv
<1> SUFFICES ASSUME HInit PROVE TrustInv
  OBVIOUS
<1>1. /\ Requested \in TrustAsk /\ Requested.step = "done" /\ Requested.op = "none" /\ Requested.seen = {}
  BY DEF Requested, TrustAsk, TrustSteps
<1>2. \A t \in Requests : request[t] = Requested
  BY DEF HInit
<1>3. TrustIsTyped
  <2>1. request \in [Requests -> TrustAsk]
    BY <1>1 DEF HInit
  <2>2. offered \in [Endpoints -> Offers] /\ started \in 0 .. MaxRequests /\ rebuilt \in 0 .. MaxReinstalls
    BY TrustAssumption DEF HInit
  <2> QED
    BY <2>1, <2>2 DEF HInit, TrustIsTyped
<1>4. Once({}) /\ OncePlaced({}) /\ Saying({}) = {}
  BY DEF Once, OncePlaced, Saying
<1>5. PinsAreSaid /\ TornIsWritten
  BY <1>4 DEF HInit, PinsAreSaid, TornIsWritten
<1>6. RequestsAreFit
  BY <1>1, <1>2, <1>4 DEF RequestsAreFit, FitsStep, VouchedFor, Current
<1>7. RacesAreKnown /\ LoneOnesAreCurrent
  BY <1>1, <1>2 DEF HInit, RacesAreKnown, LoneOnesAreCurrent, Writing
<1> QED
  BY <1>3, <1>5, <1>6, <1>7 DEF TrustInv

LEMMA TrustGoesOn == TrustInv /\ [HNext]_hvars => TrustInv'
<1> SUFFICES ASSUME TrustInv, [HNext]_hvars PROVE TrustInv'
  OBVIOUS
<1>1. CASE UNCHANGED hvars
  BY <1>1 DEF hvars, TrustInv, TrustIsTyped, PinsAreSaid, RequestsAreFit, TornIsWritten, RacesAreKnown,
     LoneOnesAreCurrent
<1>2. ASSUME NEW t \in Requests, Served(t) PROVE TrustInv'
  <2>1. ASSUME NEW v \in Hosts, NEW k \in HostKeys, Start(t, "trust", v, Gone, k, TRUE) PROVE TrustInv'
    BY <2>1, StartKeeps
  <2>2. ASSUME NEW v \in Hosts, NEW e \in Endpoints, Start(t, "update", v, e, Gone, TRUE) PROVE TrustInv'
    BY <2>2, StartKeeps
  <2>3. ASSUME NEW v \in Hosts, NEW o \in {"revoke", "delete"}, Start(t, o, v, Gone, Gone, TRUE) PROVE TrustInv'
    BY <2>3, StartKeeps
  <2>4. ASSUME NEW v \in Hosts, NEW strict \in BOOLEAN, Start(t, "connect", v, Gone, Gone, strict) PROVE TrustInv'
    BY <2>4, StartKeeps
  <2>5. CASE Scan(t) \/ ScanFails(t)
    BY <2>5, ScanKeeps, ScanFailsKeeps
  <2>6. CASE Pin(t) \/ RevokeTrust(t)
    BY <2>6, PinKeeps, RevokeTrustKeeps
  <2>7. CASE Update(t) \/ Delete(t)
    BY <2>7, UpdateKeeps, DeleteKeeps
  <2>8. CASE OpenFile(t) \/ WriteFile(t)
    BY <2>8, OpenFileKeeps, WriteFileKeeps
  <2>9. CASE ReadPinOf(t) \/ ReadPinAt(t)
    BY <2>9, ReadPinOfKeeps, ReadPinAtKeeps
  <2>10. CASE ReadTypeOf(t) \/ ReadTypeAt(t) \/ Dial(t)
    BY <2>10, ReadTypeOfKeeps, ReadTypeAtKeeps, DialKeeps
  <2> QED
    BY <1>2, <2>1, <2>2, <2>3, <2>4, <2>5, <2>6, <2>7, <2>8, <2>9, <2>10 DEF Served
<1>3. ASSUME NEW v \in Hosts, NEW e \in Endpoints, Add(v, e) PROVE TrustInv'
  BY <1>3, AddKeeps
<1>4. ASSUME NEW e \in Endpoints, NEW ks \in Offers, Reinstall(e, ks) PROVE TrustInv'
  BY <1>4, ReinstallKeeps
<1> QED
  BY <1>1, <1>2, <1>3, <1>4 DEF HNext

LEMMA TrustIsVouchedFor == TrustInv => TrustIsVouched
<1> SUFFICES ASSUME TrustInv PROVE TrustIsVouched
  OBVIOUS
<1>1. TrustTypeOK
  BY DEF TrustInv, TrustIsTyped, PinsAreSaid, Once, OncePlaced, TrustTypeOK, TrustPin
<1>2. AcceptedWasVouched
  <2> SUFFICES ASSUME NEW t \in Requests, request[t].op = "connect", request[t].result = "accepted",
                      request[t].strict \/ request[t].pinned # {}
               PROVE  \E p \in vouched : p.key = request[t].key /\ (p.of = request[t].of \/ p.at = request[t].at)
    BY DEF AcceptedWasVouched
  <2> QED
    BY StepsAreFit DEF VouchedFor
<1>3. TrustedIsReached
  <2> SUFFICES ASSUME NEW t \in Requests, request[t].op = "connect", request[t].step = "done", request[t].calm, ~ torn
               PROVE  \A p \in PinsOf(pins, request[t].of) :
                        p.key \in offered[request[t].at] => request[t].result = "accepted"
    BY DEF TrustedIsReached
  <2> QED
    BY StepsAreFit DEF Current
<1>4. PinMatchesEndpoint
  <2>1. \A t \in Requests : Changing(request[t]) => t \in Open
    BY DEF Changing, Open
  <2> QED
    BY <2>1 DEF TrustInv, LoneOnesAreCurrent, PinMatchesEndpoint
<1> QED
  BY <1>1, <1>2, <1>3, <1>4 DEF TrustIsVouched

\* What is trusted is what a user has vouched for: only such keys are accepted
\* in strict mode, a connection nothing disturbs reaches the machine, and pins
\* stay with their endpoints, whatever overlaps, in the table and in the file.
THEOREM TrustStaysVouched == HSpec => []TrustIsVouched
  BY TrustBegins, TrustGoesOn, TrustIsVouchedFor, PTL DEF HSpec

\* A step that takes a pin away is one of a request about its VPS, or rewrites a
\* file that others have been rewriting too.
LEMMA PinsGoWithTheirOwn ==
  ASSUME TrustInv, HNext, NEW w \in Saying(pins) \ Saying(pins')
  PROVE  \/ store = "json" /\ w.of \in trustRaced
         \/ \E t \in Requests : /\ request[t] # request'[t] /\ request[t].of = w.of
                                /\ request'[t].step = "done"
<1>1. PICK p \in pins : w = Said(p)
  BY DEF Saying
<1>2. w.of = p.of /\ p \in TrustPin /\ w.of \in Hosts /\ pins \in SUBSET TrustPin
  BY <1>1, WordsOfPins DEF TrustInv, TrustIsTyped, TrustPin
<1>3. ~ \E q \in pins' : Said(q) = w
  BY DEF Saying
<1>4. \A t \in Requests, result \in {"ok", "failed"} :
        /\ request' = Disturb([request EXCEPT ![t] = Ended(@, result)], t)
        /\ Writing(request[t])
        => request[t] # request'[t] /\ request'[t].step = "done"
  <2> SUFFICES ASSUME NEW t \in Requests, NEW result \in {"ok", "failed"}, Writing(request[t]),
                      request' = Disturb([request EXCEPT ![t] = Ended(@, result)], t)
               PROVE  request[t] # request'[t] /\ request'[t].step = "done"
    OBVIOUS
  <2> DEFINE x == Ended(request[t], result)
  <2>1. x \in TrustAsk /\ x.step = "done"
    BY StepsAreFit, EndedFits DEF Writing
  <2>2. request' = Disturb([request EXCEPT ![t] = x], t)
    OBVIOUS
  <2> HIDE DEF x
  <2>3. request'[t] = x
    BY <2>1, <2>2, OneIsWritten DEF TrustInv, TrustIsTyped
  <2> QED
    BY <2>1, <2>3 DEF Writing
<1>5. \A v : v # p.of => Said(p) \in Saying(Unpinned(pins, v))
  BY <1>2, UnpinnedPins DEF Saying
<1> SUFFICES ASSUME ~ (store = "json" /\ w.of \in trustRaced)
             PROVE  \E t \in Requests : /\ request[t] # request'[t] /\ request[t].of = w.of
                                        /\ request'[t].step = "done"
  OBVIOUS
<1>6. PICK t \in Requests : WriteFile(t) \/ Pin(t) \/ RevokeTrust(t) \/ Delete(t)
  <2>1. pins' # pins
    BY <1>1, <1>3
  <2>2. ASSUME NEW t \in Requests, Served(t) PROVE WriteFile(t) \/ Pin(t) \/ RevokeTrust(t) \/ Delete(t)
    BY <2>1, <2>2 DEF Served, Start, Scan, ScanFails, Update, OpenFile, ReadPinOf, ReadPinAt, ReadTypeOf,
                          ReadTypeAt, Dial
  <2> QED
    BY <2>1, <2>2 DEF HNext, Add, Reinstall
<1> DEFINE r == request[t]
<1>7. r \in TrustAsk /\ FitsStep(r, store) /\ VouchedFor(r, vouched)
  BY StepsAreFit
<1>8. CASE WriteFile(t)
  <2>1. /\ r.step = "write" /\ request' = Disturb([request EXCEPT ![t] = Ended(@, "ok")], t)
        /\ pins' = IF r.op = "trust" THEN Upserted(r.seen, Said(r)) ELSE Unpinned(r.seen, r.of)
    BY <1>8 DEF WriteFile
  <2>2. store = "json" /\ r.op # "connect" /\ Writing(r) /\ r.of \in Hosts /\ r.at \in Endpoints
        /\ (r.op = "trust" => r.key \in HostKeys)
    BY <1>7, <2>1 DEF FitsStep, Writing
  <2>3. r.seen = pins
    BY <1>2, <2>1, <2>2 DEF TrustInv, LoneOnesAreCurrent
  <2>4. CASE r.op = "trust"
    <3>1. Said(r) \in TrustWord /\ Said(r).of = r.of
      BY <2>2, <2>4 DEF Said, TrustWord
    <3>2. p.of = r.of
      BY <1>1, <1>2, <1>3, <2>1, <2>3, <2>4, <3>1, UpsertedPins
    <3> QED
      BY <1>2, <1>4, <2>1, <2>2, <3>2
  <2>5. CASE r.op # "trust"
    <3>1. p.of = r.of
      BY <1>1, <1>5, <2>1, <2>3, <2>5
    <3> QED
      BY <1>2, <1>4, <2>1, <2>2, <3>1
  <2> QED
    BY <2>4, <2>5
<1>9. CASE Pin(t)
  <2>1. r.op = "trust" /\ r.step = "pin" /\ Writing(r) /\ r.of \in Hosts /\ r.at \in Endpoints /\ r.key \in HostKeys
    BY <1>7, <1>9 DEF Pin, FitsStep, Writing
  <2>2. Said(r) \in TrustWord /\ Said(r).of = r.of
    BY <2>1 DEF Said, TrustWord
  <2>3. pins' = Upserted(pins, Said(r)) /\ request' = Disturb([request EXCEPT ![t] = Ended(@, "ok")], t)
    BY <1>1, <1>3, <1>9 DEF Pin, WriteTable, Begin
  <2>4. p.of = r.of
    BY <1>1, <1>2, <1>3, <2>2, <2>3, UpsertedPins
  <2> QED
    BY <1>2, <1>4, <2>1, <2>3, <2>4
<1>10. CASE RevokeTrust(t)
  <2>1. Writing(r)
    BY <1>10 DEF RevokeTrust, Writing
  <2>2. pins' = Unpinned(pins, r.of) /\ request' = Disturb([request EXCEPT ![t] = Ended(@, "ok")], t)
    BY <1>1, <1>3, <1>10 DEF RevokeTrust, WriteTable, Begin
  <2>3. p.of = r.of
    BY <1>1, <1>5, <2>2
  <2> QED
    BY <1>2, <1>4, <2>1, <2>2, <2>3
<1>11. CASE Delete(t)
  <2>1. Writing(r)
    BY <1>11 DEF Delete, Writing
  <2>2. pins' = Unpinned(pins, r.of) /\ request' = Disturb([request EXCEPT ![t] = Ended(@, "ok")], t)
    BY <1>1, <1>3, <1>11 DEF Delete
  <2>3. p.of = r.of
    BY <1>1, <1>5, <2>2
  <2> QED
    BY <1>2, <1>4, <2>1, <2>2, <2>3
<1> QED
  BY <1>6, <1>8, <1>9, <1>10, <1>11

\* A pin goes with a request about its own VPS alone, unless requests that
\* rewrite the file have overlapped.
THEOREM PinsStayOwned == HSpec => PinsAreOwned
<1>1. TrustInv /\ [HNext]_hvars =>
        [\A p \in Saying(pins) \ Saying(pins') :
           \/ store = "json" /\ p.of \in trustRaced
           \/ \E t \in Requests : /\ request[t] # request'[t] /\ request[t].of = p.of
                                  /\ request'[t].step = "done"]_hvars
  BY PinsGoWithTheirOwn
<1> QED
  BY TrustBegins, TrustGoesOn, <1>1, PTL DEF HSpec, PinsAreOwned

-----------------------------------------------------------------------------
(* The run's specification *)

\* Whatever is in focus, each module takes its own steps or none: the run's
\* behaviours are behaviours of each of them.
LEMMA HostsAreTheirModules == HostsSpec => KSpec /\ CSpec /\ SSpec /\ PairSpec /\ LSpec /\ HSpec
<1>1. HostsInit => KInit /\ CInit /\ SInit /\ PairInit /\ LInit /\ HInit
  BY DEF HostsInit, KeysRest, CredentialsRest, SupervisorRests, PairRests, LifecycleRests, TrustRests
<1>2. [HostsNext]_everything => /\ [KNext]_keyvars /\ [CNext]_credvars /\ [SNext]_svars
                                /\ [PairNext]_pairvars /\ [LNext]_lvars /\ [HNext]_hvars
  <2> SUFFICES ASSUME [HostsNext]_everything
               PROVE  (KNext \/ UNCHANGED keyvars) /\ (CNext \/ UNCHANGED credvars)
                      /\ (SNext \/ UNCHANGED svars) /\ (PairNext \/ UNCHANGED pairvars)
                      /\ (LNext \/ UNCHANGED lvars) /\ (HNext \/ UNCHANGED hvars)
    OBVIOUS
  <2>1. CASE UNCHANGED everything
    BY <2>1 DEF everything
  <2>2. CASE HostsNext
    BY <2>2 DEF HostsNext
  <2> QED
    BY <2>1, <2>2
<1> QED
  BY <1>1, <1>2, PTL DEF HostsSpec, KSpec, CSpec, SSpec, PairSpec, LSpec, HSpec

\* A managed host keeps its agent through every operation, failure and crash of the API,
\* and its Docker identity through every run of the scripts.
THEOREM HostStaysSound == HostsSpec => []HostIsSound
  BY LifecycleStaysSound, PairStaysSound, HostsAreTheirModules, PTL DEF HostIsSound

\* On the API's own host the services have live credentials, and an API that
\* signed off is shown offline.
THEOREM OwnHostAlwaysServed == HostsSpec => []OwnHostIsServed
  BY CredentialsAlwaysServe, StandInSignsOff, HostsAreTheirModules, PTL DEF OwnHostIsServed

\* A managed host is trusted by what a user has vouched for, and by nothing else.
THEOREM HostsStayVouched == HostsSpec => []TrustIsVouched
  BY TrustStaysVouched, HostsAreTheirModules, PTL

\* What is stored is given up only by those it belongs to: pins, key pairs,
\* credentials, heartbeats and Docker identities.
THEOREM StoredStaysKept == HostsSpec => StoredIsKept
  BY PinsStayOwned, PairsAreKept, RevocationStaysScoped, AgentsBeatStays, KeysStayLoadable,
     HostsAreTheirModules, PTL DEF StoredIsKept
=============================================================================
