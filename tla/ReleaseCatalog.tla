--------------------------- MODULE ReleaseCatalog ---------------------------
(***************************************************************************)
(* The catalogue of agent releases of the API (release-catalog.service.ts, *)
(* release-config.ts, release-manifest.verify.ts): a pointer document      *)
(* names a release and the URL of its manifest; the manifest is fetched,   *)
(* verified against the pinned key and kept for a while.  Callers share    *)
(* one refresh, and a failed one is not repeated at once.                  *)
(*                                                                         *)
(* What a server answers is any of what it may answer: an error, a         *)
(* redirect, a body in chunks.  A text is what its checks make of it; the  *)
(* canonical form, the schema and the arithmetic of the signature are not  *)
(* spelled out.                                                            *)
(***************************************************************************)
EXTENDS Naturals, FiniteSets

CONSTANTS Callers,          \* calls served at the same time
          Releases,         \* releases published
          TTL, Backoff,     \* how long a snapshot is kept, a failure waited out
          MaxHops,          \* MAX_REDIRECT_HOPS
          Cap,              \* maxBytes, in chunks
          MaxClock,         \* bound: the clock
          MaxRefreshes      \* bound: refreshes

ASSUME CatalogAssumption ==
  /\ {Backoff, MaxHops, Cap, MaxRefreshes} \subseteq Nat /\ 0 \notin Releases
  /\ {TTL, MaxClock} \subseteq Nat \ {0}

VARIABLES config,           \* what parseReleaseConfig made of the environment
          clock,
          snapshot,         \* [text, named, at]: the verified manifest (at = 0: none)
          failed, until,    \* the last failure's reason and its backoff
          fetch,            \* the refresh under way
          refreshes,
          failedAt,         \* ghost: when a refresh last failed
          strayed,          \* ghost: a URL was requested that is not allowed
          calling           \* [step, began, want, status, release, at]: the calls

catalogVars == <<config, clock, snapshot, failed, until, fetch, refreshes, failedAt, strayed, calling>>

NoText     == [signature |-> "none", schema |-> FALSE, release |-> 0, channel |-> "none"]
NoSnapshot == [text |-> NoText, named |-> 0, at |-> 0]
NoFetch    == [step |-> "none", document |-> "none", url |-> {}, hop |-> 0, size |-> 0,
               named |-> 0, began |-> 0]
NoCall     == [step |-> "idle", began |-> 0, want |-> 0, status |-> "none", release |-> 0, at |-> 0]
----------------------------------------------------------------------------
(* Configuration and URLs.                                                 *)

\* A URL is the set of what is wrong with it.
Blemishes == {"unreadable", "not https", "userinfo", "port", "host"}
Urls      == {{}} \cup {{b} : b \in Blemishes}

\* assertAllowedReleaseUrl.
AllowedUrl(u) == u \cap Blemishes = {}

\* The environment gives each value, gives none, or gives a malformed one.
\* Both absent: disabled.  One absent or malformed: the API does not start.
ParsedConfig(key, url, ttl) ==
    IF key = "absent" /\ url = "absent" THEN "disabled"
    ELSE IF {key, url} = {"given"} /\ ttl # "malformed" THEN "enabled" ELSE "throws"
----------------------------------------------------------------------------
(* Calls.                                                                  *)

\* Times are counted from 1.
Cached == snapshot.at # 0 /\ clock - snapshot.at < TTL

\* The entry made of a snapshot: of the channel, or of the release asked for.
Answer(call, s) ==
    LET right == IF call.want = 0 THEN s.text.channel = "stable" ELSE s.text.release = call.want IN
      [call EXCEPT !.step = "answered",
                   !.status = CASE right -> "ok"
                                [] ~right /\ call.want = 0 -> "unavailable"
                                [] ~right /\ call.want # 0 -> "not_found",
                   !.release = IF right THEN s.text.release ELSE 0,
                   !.at = IF right THEN s.at ELSE 0]

Unavailable(call) == [call EXCEPT !.step = "answered", !.status = "unavailable"]

Refreshing == fetch.step # "none"
WaitsOut   == clock < until /\ failed # "none"

\* getCompatibleRelease (want = 0), getReleaseById: from the cache, with the
\* refresh under way, with the failure waited out, or by a refresh.
Call(c) ==
    /\ calling[c].step \in {"idle", "answered"}
    /\ \E want \in {0} \cup Releases :
         LET call == [NoCall EXCEPT !.began = clock, !.want = want] IN
           \/ /\ config = "disabled"
              /\ calling' = [calling EXCEPT ![c] = Unavailable(call)]
              /\ UNCHANGED <<fetch, refreshes, strayed>>
           \/ /\ config = "enabled" /\ Cached
              /\ calling' = [calling EXCEPT ![c] = Answer(call, snapshot)]
              /\ UNCHANGED <<fetch, refreshes, strayed>>
           \/ /\ config = "enabled" /\ ~Cached /\ Refreshing
              /\ calling' = [calling EXCEPT ![c] = [call EXCEPT !.step = "waiting"]]
              /\ UNCHANGED <<fetch, refreshes, strayed>>
           \/ /\ config = "enabled" /\ ~Cached /\ ~Refreshing /\ WaitsOut
              /\ calling' = [calling EXCEPT ![c] = Unavailable(call)]
              /\ UNCHANGED <<fetch, refreshes, strayed>>
           \/ /\ config = "enabled" /\ ~Cached /\ ~Refreshing /\ ~WaitsOut
              /\ refreshes < MaxRefreshes
              /\ refreshes' = refreshes + 1
              /\ calling' = [calling EXCEPT ![c] = [call EXCEPT !.step = "waiting"]]
              /\ fetch' = [NoFetch EXCEPT !.step = "requested", !.document = "pointer", !.began = clock]
              /\ UNCHANGED strayed
    /\ UNCHANGED <<config, clock, snapshot, failed, until, failedAt>>
----------------------------------------------------------------------------
(* A refresh.                                                              *)

BackoffFrom == clock

\* It ends: the snapshot is kept, or the failure with its wait; all who wait
\* are answered.
Fail(reason) ==
    /\ failed' = reason /\ until' = BackoffFrom + Backoff /\ failedAt' = clock
    /\ fetch' = NoFetch
    /\ calling' = [c \in Callers |-> IF calling[c].step = "waiting" THEN Unavailable(calling[c]) ELSE calling[c]]
    /\ UNCHANGED <<config, clock, snapshot, refreshes, strayed>>

Succeed(s) ==
    /\ snapshot' = s /\ failed' = "none" /\ until' = 0 /\ failedAt' = 0
    /\ fetch' = NoFetch
    /\ calling' = [c \in Callers |-> IF calling[c].step = "waiting" THEN Answer(calling[c], s) ELSE calling[c]]
    /\ UNCHANGED <<config, clock, refreshes, strayed>>

fetchOnly == <<config, clock, snapshot, failed, until, refreshes, failedAt, calling>>

\* No answer in time, or one that is neither a success nor a redirect.
FetchFails == fetch.step # "none" /\ Fail("fetch_failed")

\* A redirect is followed by hand: its target is checked as every URL is,
\* and the loop ends after MaxHops of them.
FetchRedirects ==
    \E u \in Urls :
        /\ fetch.step = "requested"
        /\ IF ~AllowedUrl(u) THEN Fail("url_rejected")
           ELSE IF fetch.hop = MaxHops THEN Fail("too_many_redirects")
           ELSE /\ fetch' = [fetch EXCEPT !.hop = @ + 1, !.url = u]
                /\ strayed' = (strayed \/ u # {})
                /\ UNCHANGED fetchOnly

\* The body: refused by the length it declares, else read up to the cap.
BodyBegins ==
    \E declared \in 0 .. Cap + 1 :
        /\ fetch.step = "requested"
        /\ IF declared > Cap THEN Fail("too_large")
           ELSE fetch' = [fetch EXCEPT !.step = "reading", !.size = 0]
                /\ UNCHANGED <<fetchOnly, strayed>>

Overflows(size) == size > Cap

ChunkArrives ==
    /\ fetch.step = "reading" /\ fetch.size <= Cap
    /\ IF Overflows(fetch.size + 1) THEN Fail("too_large")
       ELSE fetch' = [fetch EXCEPT !.size = @ + 1] /\ UNCHANGED <<fetchOnly, strayed>>

\* The pointer: a release and the URL of its manifest, which is checked.
PointerRead ==
    /\ fetch.step = "reading" /\ fetch.document = "pointer"
    /\ \/ Fail("invalid_encoding")
       \/ Fail("invalid_pointer")
       \/ \E r \in Releases, u \in Urls :
            IF ~AllowedUrl(u) THEN Fail("url_rejected")
            ELSE /\ fetch' = [fetch EXCEPT !.step = "requested", !.document = "manifest", !.url = u,
                                           !.hop = 0, !.size = 0, !.named = r]
                 /\ strayed' = (strayed \/ u # {})
                 /\ UNCHANGED fetchOnly

\* verifyReleaseManifestText: a text that is an object carries a signature of
\* the right length that verifies under the pinned key.
TextVerdict(text) ==
    CASE text.signature = "unreadable" -> "invalid_json"
      [] text.signature = "none"       -> "signature_missing"
      [] text.signature = "invalid"    -> "signature_invalid"
      [] text.signature = "valid"      -> "ok"

Texts == [signature : {"unreadable", "none", "invalid", "valid"}, schema : BOOLEAN,
          release : Releases, channel : {"stable", "other"}]

\* The manifest: signature, schema, and the release the pointer names.
ManifestRead ==
    /\ fetch.step = "reading" /\ fetch.document = "manifest"
    /\ \/ Fail("invalid_encoding")
       \/ \E text \in Texts :
            IF TextVerdict(text) # "ok" THEN Fail(TextVerdict(text))
            ELSE IF ~text.schema THEN Fail("manifest_invalid")
            ELSE IF text.release # fetch.named THEN Fail("pointer_release_mismatch")
            ELSE Succeed([text |-> text, named |-> fetch.named, at |-> clock])

ClockTicks ==
    /\ clock < MaxClock
    /\ clock' = clock + 1
    /\ UNCHANGED <<config, snapshot, failed, until, fetch, refreshes, failedAt, strayed, calling>>
----------------------------------------------------------------------------
CatalogInit ==
    /\ \E key, url, ttl \in {"absent", "given", "malformed"} : config = ParsedConfig(key, url, ttl)
    /\ config # "throws"
    /\ clock = 1 /\ snapshot = NoSnapshot
    /\ failed = "none" /\ until = 0 /\ failedAt = 0
    /\ fetch = NoFetch /\ refreshes = 0 /\ strayed = FALSE
    /\ calling = [c \in Callers |-> NoCall]

CatalogNext ==
    \/ \E c \in Callers : Call(c)
    \/ FetchFails \/ FetchRedirects \/ BodyBegins \/ ChunkArrives
    \/ PointerRead \/ ManifestRead
    \/ ClockTicks

CatalogSpec == CatalogInit /\ [][CatalogNext]_catalogVars
----------------------------------------------------------------------------
(* Properties                                                              *)

CatalogTypeOK ==
    /\ config \in {"enabled", "disabled"} /\ clock \in 1 .. MaxClock
    /\ fetch.hop \in 0 .. MaxHops /\ refreshes \in 0 .. MaxRefreshes
    /\ \A c \in Callers : calling[c].step \in {"idle", "waiting", "answered"}

\* "Every failure path resolves to unavailable": a release is answered only
\* from a manifest that is signed, well formed and the one a pointer named,
\* and never from one that was past its time when the call began.
OnlyVouchedIsServed ==
    /\ snapshot.at # 0 => /\ snapshot.text.signature = "valid" /\ snapshot.text.schema
                          /\ snapshot.text.release = snapshot.named
    /\ \A c \in Callers : calling[c].status = "ok" =>
         /\ config = "enabled" /\ calling[c].want \in {0, calling[c].release}
         /\ calling[c].at # 0 /\ calling[c].began < calling[c].at + TTL

\* Requests go to allowed URLs only, redirects included, no body outgrows the
\* cap, and a failed refresh is not repeated before its wait is over.
FetchesAreBounded ==
    /\ ~strayed
    /\ fetch.size <= Cap
    /\ fetch.step # "none" /\ failedAt # 0 => fetch.began >= failedAt + Backoff

\* Whoever waits, waits for a refresh.
NobodyIsForgotten == (\E c \in Callers : calling[c].step = "waiting") => fetch.step # "none"

ReleasesAreVouched == CatalogTypeOK /\ OnlyVouchedIsServed /\ FetchesAreBounded /\ NobodyIsForgotten
=============================================================================
