------------------------------ MODULE SshTrust ------------------------------
(***************************************************************************)
(* The host keys the API trusts: the pins of the VPSs, the requests that    *)
(* add, revoke and outdate them, and the connections that are verified      *)
(* against them.  Every await of a request is a step of its own.            *)
(*                                                                         *)
(* The pins are rows of a table, or a JSON file that is read, truncated and *)
(* written with no lock; a read between the last two finds no pins at all.  *)
(* A machine has several host keys, one of each type it offers.  A pin       *)
(* knows the VPSs whose pins are before it: the first of an endpoint is      *)
(* looked for in that order.                                                 *)
(***************************************************************************)
EXTENDS Naturals

CONSTANTS
  Hosts,        \* ids of VPSs
  Endpoints,    \* host and port pairs
  KeyType,      \* the host keys there are, with the type of each
  FirstKeys,    \* those every machine has at first
  Requests,     \* requests served at the same time
  MaxRequests,  \* requests and reinstallations in all
  MaxReinstalls,\* times a machine gets other host keys
  Gone          \* the endpoint of a VPS that is not in the inventory

HostKeys == DOMAIN KeyType

\* What a machine may offer: of each type one key at most.
Offers == { ks \in (SUBSET HostKeys) \ {{}} :
            \A j, k \in ks : KeyType[j] = KeyType[k] => j = k }

ASSUME TrustAssumption ==
  /\ FirstKeys \in Offers
  /\ MaxRequests \in Nat /\ MaxReinstalls \in Nat
  /\ Gone \notin Endpoints

VARIABLES
  store,     \* "postgres" or "json"
  inventory, \* the endpoint of every VPS
  offered,   \* the host keys of the machine at every endpoint
  pins,      \* the persisted pins
  torn,      \* the pin file is truncated, and not written yet
  request,   \* the requests in progress, the last result included
  started,   \* requests so far
  rebuilt,   \* reinstallations so far
  vouched,   \* the keys users have trusted, with VPS and endpoint
  trustRaced \* VPSs whose pin was written by requests that overlapped

hvars == <<store, inventory, offered, pins, torn, request, started, rebuilt, vouched, trustRaced>>

Requested == [op |-> "none", of |-> Gone, at |-> Gone, to |-> Gone, key |-> Gone,
              step |-> "done", seen |-> {}, pinned |-> {}, types |-> {},
              strict |-> FALSE, calm |-> TRUE, result |-> "none"]

KeysOf(e) == { k \in HostKeys : k \in offered[e] }
PinsOf(s, v) == { p \in s : p.of = v }
PinsAt(s, e) == { p \in s : p.at = e }

\* find: the one no other is before.
Foremost(s) == { p \in s : \A q \in s : q.of \notin p.before }

\* What a pin says, wherever it stands.
Said(p) == [of |-> p.of, at |-> p.at, key |-> p.key]
Saying(s) == { Said(p) : p \in s }

-----------------------------------------------------------------------------
(* The pins *)

\* upsert: the pin of the VPS is replaced, or one is added at the end.
Upserted(s, p) ==
  LET old == PinsOf(s, p.of)
      before == IF old = {} THEN { q.of : q \in s } ELSE UNION { q.before : q \in old }
  IN (s \ old) \cup {[of |-> p.of, at |-> p.at, key |-> p.key, before |-> before]}

\* Faulty: the pins of the endpoint are deleted.
Unpinned_Endpoint(s, v) == { p \in s : \A q \in PinsOf(s, v) : p.at # q.at }

\* deleteByVpsId
Unpinned(s, v) == { [p EXCEPT !.before = @ \ {v}] : p \in s \ PinsOf(s, v) }

\* What a read of the pins returns: nothing from a torn file.
ReadPins == IF torn THEN {} ELSE pins

GoOn(t, s) == request' = [request EXCEPT ![t].step = s]

\* Of a request that has ended the result stays, of a connection its verdict.
Ended(r, result) ==
  IF r.op = "connect" THEN [r EXCEPT !.step = "done", !.result = result, !.types = {}]
  ELSE [Requested EXCEPT !.op = r.op, !.of = r.of, !.result = result]
Answer(t, result) == request' = [request EXCEPT ![t] = Ended(@, result)]

\* The requests in progress; each loses its calm to what another changes.
Open == { t \in Requests : request[t].step # "done" }
Disturb(r, t) == [u \in Requests |-> IF u = t THEN r[u] ELSE [r[u] EXCEPT !.calm = FALSE]]

\* A statement, or the read before the file is rewritten.
WriteTable(t, new, result) ==
  /\ store = "postgres"
  /\ pins' = new
  /\ request' = Disturb([request EXCEPT ![t] = Ended(@, result)], t)
  /\ UNCHANGED torn

Begin(t) ==
  /\ store = "json"
  /\ request' = [request EXCEPT ![t].step = "open", ![t].seen = ReadPins]
  /\ UNCHANGED <<pins, torn>>

\* The file is opened, which empties it.
OpenFile(t) ==
  /\ request[t].step = "open"
  /\ torn' = TRUE
  /\ request' = Disturb([request EXCEPT ![t].step = "write"], t)
  /\ UNCHANGED <<store, inventory, offered, pins, started, rebuilt, vouched, trustRaced>>

\* What was read is written, with the change.
WriteFile(t) ==
  /\ request[t].step = "write"
  /\ torn' = FALSE
  /\ pins' = IF request[t].op = "trust"
             THEN Upserted(request[t].seen, Said(request[t]))
             ELSE Unpinned(request[t].seen, request[t].of)
  /\ vouched' = IF request[t].op = "trust"
                THEN vouched \cup {Said(request[t])} ELSE vouched
  /\ request' = Disturb([request EXCEPT ![t] = Ended(@, "ok")], t)
  /\ UNCHANGED <<store, inventory, offered, started, rebuilt, trustRaced>>

-----------------------------------------------------------------------------
(* Requests *)

\* Each begins with the record of its VPS.
Start(t, op, v, to, k, strict) ==
  /\ request[t].step = "done" /\ started + rebuilt < MaxRequests
  /\ inventory[v] # Gone
  /\ started' = started + 1
  /\ request' = [request EXCEPT ![t] =
       [Requested EXCEPT !.op = op, !.of = v, !.at = inventory[v], !.to = to, !.key = k,
                         !.strict = strict, !.step = "begun", !.calm = Open = {}]]
  /\ trustRaced' = IF op = "connect" THEN trustRaced
              ELSE trustRaced \cup { w \in Hosts : \E u \in Open :
                     /\ request[u].op # "connect"
                     /\ store = "json" \/ (request[u].of = v /\ w = v) }
  /\ UNCHANGED <<store, inventory, offered, pins, torn, rebuilt, vouched>>

\* trustKey: the fingerprint the user sent must be among those just scanned.
Scan(t) ==
  /\ request[t].op = "trust" /\ request[t].step = "begun"
  /\ IF request[t].key \in KeysOf(request[t].at) THEN GoOn(t, "pin") ELSE Answer(t, "refused")
  /\ UNCHANGED <<store, inventory, offered, pins, torn, started, rebuilt, vouched, trustRaced>>

\* The scan may fail: blocked, timed out, no keys.
ScanFails(t) ==
  /\ request[t].op = "trust" /\ request[t].step = "begun"
  /\ Answer(t, "failed")
  /\ UNCHANGED <<store, inventory, offered, pins, torn, started, rebuilt, vouched, trustRaced>>

\* The table refuses a pin of a VPS that is gone, and one of an endpoint that
\* another VPS has a pin of.
Conflicting(p) ==
  inventory[p.of] = Gone \/ \E q \in pins : q.of # p.of /\ q.at = p.at

Pin(t) ==
  LET p == Said(request[t]) IN
  /\ request[t].op = "trust" /\ request[t].step = "pin"
  /\ \/ /\ ~ Conflicting(p) /\ WriteTable(t, Upserted(pins, p), "ok")
        /\ vouched' = vouched \cup {p}
     \/ /\ Conflicting(p) /\ WriteTable(t, pins, "failed")
        /\ UNCHANGED vouched
     \/ Begin(t) /\ UNCHANGED vouched
  /\ UNCHANGED <<store, inventory, offered, started, rebuilt, trustRaced>>

\* revokeTrust, of a revoke or of an update that changed the endpoint.  A file
\* without the pin is not written.
RevokeTrust(t) ==
  LET v == request[t].of IN
  /\ \/ request[t].op = "revoke" /\ request[t].step = "begun"
     \/ request[t].op = "update" /\ request[t].step = "changed"
  /\ \/ WriteTable(t, Unpinned(pins, v), "ok")
     \/ PinsOf(ReadPins, v) # {} /\ Begin(t)
     \/ /\ store = "json" /\ PinsOf(ReadPins, v) = {}
        /\ Answer(t, "ok") /\ UNCHANGED <<pins, torn>>
  /\ UNCHANGED <<store, inventory, offered, started, rebuilt, vouched, trustRaced>>

\* update: the record first, the pin after it if the endpoint is another one
\* than the one read at the beginning.
Update(t) ==
  /\ request[t].op = "update" /\ request[t].step = "begun"
  /\ IF inventory[request[t].of] = Gone THEN Answer(t, "failed") /\ UNCHANGED inventory
     ELSE /\ inventory' = [inventory EXCEPT ![request[t].of] = request[t].to]
          /\ request' = Disturb([request EXCEPT
               ![t] = IF @.to = @.at THEN Ended(@, "ok") ELSE [@ EXCEPT !.step = "changed"]], t)
  /\ UNCHANGED <<store, offered, pins, torn, started, rebuilt, vouched, trustRaced>>

\* delete: the rows of the VPS go with it, the file keeps its pin.
Delete(t) ==
  /\ request[t].op = "delete" /\ request[t].step = "begun"
  /\ inventory' = [inventory EXCEPT ![request[t].of] = Gone]
  /\ pins' = IF store = "postgres" THEN Unpinned(pins, request[t].of) ELSE pins
  /\ request' = Disturb([request EXCEPT ![t] = Ended(@, "ok")], t)
  /\ UNCHANGED <<store, offered, torn, started, rebuilt, vouched, trustRaced>>

-----------------------------------------------------------------------------
(* Connections: buildSecurityOptions, then connect *)

KeysPinned(s) == { p.key : p \in s }
TypesPinned(s) == { KeyType[p.key] : p \in s }

\* resolvePin: the pin of the VPS, or else the first of its endpoint.
ReadPinOf(t) ==
  /\ request[t].op = "connect" /\ request[t].step = "begun"
  /\ request' = [request EXCEPT
       ![t].pinned = KeysPinned(PinsOf(ReadPins, request[t].of)),
       ![t].step = IF PinsOf(ReadPins, request[t].of) = {} THEN "endpoint" ELSE "type"]
  /\ UNCHANGED <<store, inventory, offered, pins, torn, started, rebuilt, vouched, trustRaced>>

ReadPinAt(t) ==
  /\ request[t].op = "connect" /\ request[t].step = "endpoint"
  /\ request' = [request EXCEPT
       ![t].pinned = KeysPinned(Foremost(PinsAt(ReadPins, request[t].at))),
       ![t].step = "type"]
  /\ UNCHANGED <<store, inventory, offered, pins, torn, started, rebuilt, vouched, trustRaced>>

\* resolveKeyType reads the same pins again; no type puts no constraint.
ReadTypeOf(t) ==
  /\ request[t].op = "connect" /\ request[t].step = "type"
  /\ request' = [request EXCEPT
       ![t].types = TypesPinned(PinsOf(ReadPins, request[t].of)),
       ![t].step = IF PinsOf(ReadPins, request[t].of) = {} THEN "typeless" ELSE "dial"]
  /\ UNCHANGED <<store, inventory, offered, pins, torn, started, rebuilt, vouched, trustRaced>>

ReadTypeAt(t) ==
  /\ request[t].op = "connect" /\ request[t].step = "typeless"
  /\ request' = [request EXCEPT
       ![t].types = TypesPinned(Foremost(PinsAt(ReadPins, request[t].at))),
       ![t].step = "dial"]
  /\ UNCHANGED <<store, inventory, offered, pins, torn, started, rebuilt, vouched, trustRaced>>

\* Faulty: no pin is no objection.
VerifyHostKey_Unpinned(strict, pinned, k) == pinned = {} \/ k \in pinned

\* createHostVerifier
VerifyHostKey(strict, pinned, k) == IF pinned = {} THEN ~ strict ELSE k \in pinned

\* The server shows a key of a type both sides know, or there is none.
Dial(t) ==
  LET shown == { k \in KeysOf(request[t].at) :
                 request[t].types = {} \/ KeyType[k] \in request[t].types }
  IN /\ request[t].op = "connect" /\ request[t].step = "dial"
     /\ \/ /\ shown = {} /\ Answer(t, "failed")
        \/ \E k \in shown :
             request' = [request EXCEPT ![t] =
               [Ended(@, IF VerifyHostKey(@.strict, @.pinned, k) THEN "accepted" ELSE "refused")
                 EXCEPT !.key = k]]
     /\ UNCHANGED <<store, inventory, offered, pins, torn, started, rebuilt, vouched, trustRaced>>

-----------------------------------------------------------------------------
(* Outside *)

\* A VPS is added, at an endpoint another one may have had.
Add(v, e) ==
  /\ started + rebuilt < MaxRequests
  /\ inventory[v] = Gone /\ \A t \in Requests : request[t].of # v
  /\ ~ \E p \in pins \cup vouched : p.of = v
  /\ started' = started + 1
  /\ inventory' = [inventory EXCEPT ![v] = e]
  /\ UNCHANGED <<store, offered, pins, torn, request, rebuilt, vouched, trustRaced>>

Reinstall(e, ks) ==
  /\ rebuilt < MaxReinstalls /\ started + rebuilt < MaxRequests
  /\ rebuilt' = rebuilt + 1
  /\ offered' = [offered EXCEPT ![e] = ks]
  /\ request' = [t \in Requests |-> [request[t] EXCEPT !.calm = FALSE]]
  /\ UNCHANGED <<store, inventory, pins, torn, started, vouched, trustRaced>>

HInit ==
  /\ store \in {"postgres", "json"}
  /\ inventory \in [Hosts -> Endpoints \cup {Gone}]
  /\ offered = [e \in Endpoints |-> FirstKeys]
  /\ pins = {} /\ torn = FALSE
  /\ request = [t \in Requests |-> Requested]
  /\ started = 0 /\ rebuilt = 0 /\ vouched = {} /\ trustRaced = {}

Served(t) ==
  \/ \E v \in Hosts :
       \/ \E k \in HostKeys : Start(t, "trust", v, Gone, k, TRUE)
       \/ \E e \in Endpoints : Start(t, "update", v, e, Gone, TRUE)
       \/ \E o \in {"revoke", "delete"} : Start(t, o, v, Gone, Gone, TRUE)
       \/ \E strict \in BOOLEAN : Start(t, "connect", v, Gone, Gone, strict)
  \/ Scan(t) \/ ScanFails(t) \/ Pin(t) \/ RevokeTrust(t) \/ Update(t) \/ Delete(t)
  \/ OpenFile(t) \/ WriteFile(t)
  \/ ReadPinOf(t) \/ ReadPinAt(t) \/ ReadTypeOf(t) \/ ReadTypeAt(t) \/ Dial(t)

HNext ==
  \/ \E t \in Requests : Served(t)
  \/ \E v \in Hosts, e \in Endpoints : Add(v, e)
  \/ \E e \in Endpoints, ks \in Offers : Reinstall(e, ks)

HSpec == HInit /\ [][HNext]_hvars

-----------------------------------------------------------------------------
(* Properties *)

\* The state is well formed: at most one pin of a VPS, and in the table of an
\* endpoint, whoever overlaps.
TrustTypeOK ==
  /\ inventory \in [Hosts -> Endpoints \cup {Gone}]
  /\ pins \subseteq [of : Hosts, at : Endpoints, key : HostKeys, before : SUBSET Hosts]
  /\ \A p, q \in pins : p.of = q.of => p = q
  /\ store = "postgres" => \A p, q \in pins : p.at = q.at => p = q
  /\ started \in 0 .. MaxRequests /\ rebuilt \in 0 .. MaxReinstalls

\* In strict mode a connection goes on only with a key a user has trusted, for
\* this VPS or for this endpoint, whatever happens to the pins while it is set up
\* (buildSecurityOptions, createHostVerifier).
AcceptedWasVouched ==
  \A t \in Requests : LET r == request[t] IN
    r.op = "connect" /\ r.result = "accepted" /\ (r.strict \/ r.pinned # {}) =>
      \E p \in vouched : p.key = r.key /\ (p.of = r.of \/ p.at = r.at)

\* A connection nothing has disturbed is accepted by a machine that still has the
\* key pinned for the VPS, whichever keys it has besides.
TrustedIsReached ==
  \A t \in Requests : LET r == request[t] IN
    r.op = "connect" /\ r.step = "done" /\ r.calm /\ ~ torn =>
      \A p \in PinsOf(pins, r.of) : p.key \in offered[r.at] => r.result = "accepted"

\* A pin is replaced or deleted by requests about its own VPS alone; in the file,
\* which has no lock, unless two requests that write it overlapped
\* (createJsonHostKeyPinRepository).
PinsAreOwned ==
  [][\A p \in Saying(pins) \ Saying(pins') :
       \/ store = "json" /\ p.of \in trustRaced
       \/ \E t \in Requests : /\ request[t] # request'[t] /\ request[t].of = p.of
                              /\ request'[t].step = "done"]_hvars

\* Once the requests have ended, the pin of a VPS is of the endpoint it is at,
\* unless two of them that write overlapped (update and trustKey each read the
\* endpoint at their beginning).
PinMatchesEndpoint ==
  Open = {} =>
    \A p \in pins : inventory[p.of] \in {p.at, Gone} \/ p.of \in trustRaced

\* Trust as a whole: only what a user vouched for is accepted, what is trusted
\* is reached, and pins stay with their endpoints.
TrustIsVouched == TrustTypeOK /\ AcceptedWasVouched /\ TrustedIsReached /\ PinMatchesEndpoint
=============================================================================
