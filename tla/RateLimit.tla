----------------------------- MODULE RateLimit -----------------------------
(***************************************************************************)
(* The limiter of mutations: fixed windows per key, counted by a store in  *)
(* memory or in Postgres, whose one statement does what the map does.  A   *)
(* request is counted first and judged when the store has answered.  The   *)
(* clock stops at MaxTime; MaxAsks bounds the requests.                    *)
(***************************************************************************)
EXTENDS Integers, FiniteSets

CONSTANTS NoBucket, Keys, WindowTime, Limits, MaxTime, MaxAsks

ASSUME RateAssumption ==
  /\ {WindowTime, MaxTime, MaxAsks} \subseteq Nat /\ WindowTime > 0
  /\ DOMAIN Limits = Keys /\ \A k \in Keys : Limits[k] \in Nat \ {0}

VARIABLES
  bucket,    \* the buckets of the store
  now,       \* its clock
  asked,     \* requests whose count has not been judged
  asks,      \* requests so far
  served,    \* history: the requests that passed
  promise    \* history: the last time a refused key was told to come back

rvars == <<bucket, now, asked, asks, served, promise>>

Instants == 0 .. MaxTime + WindowTime
Bucket == [count : 1 .. MaxAsks, resetAt : Instants]
Count == [key : Keys, count : 1 .. MaxAsks, resetAt : Instants, at : Instants, nr : 1 .. MaxAsks]

ASSUME BucketAssumption == NoBucket \notin Bucket \cup Instants

\* Faulty: every request starts the window anew.
Consumed_Sliding(k) ==
  IF bucket[k] = NoBucket \/ bucket[k].resetAt <= now
  THEN [count |-> 1, resetAt |-> now + WindowTime]
  ELSE [count |-> bucket[k].count + 1, resetAt |-> now + WindowTime]

\* consume: an expired bucket starts over.
Consumed(k) ==
  IF bucket[k] = NoBucket \/ bucket[k].resetAt <= now
  THEN [count |-> 1, resetAt |-> now + WindowTime]
  ELSE [bucket[k] EXCEPT !.count = @ + 1]

\* The middleware counts a request under the key of its route and its sender.
Consume(k) ==
  /\ asks < MaxAsks
  /\ asks' = asks + 1
  /\ bucket' = [bucket EXCEPT ![k] = Consumed(k)]
  /\ asked' = asked \cup {[ key |-> k, count |-> Consumed(k).count, nr |-> asks + 1,
                            resetAt |-> Consumed(k).resetAt, at |-> now ]}
  /\ UNCHANGED <<now, served, promise>>

Over(a) == a.count > Limits[a.key]

\* The store has answered: the request is passed on, or answered 429 with the
\* time at which the window ends.
Judge(a) ==
  /\ asked' = asked \ {a}
  /\ IF Over(a)
     THEN /\ promise' = [promise EXCEPT ![a.key] = a.resetAt]
          /\ UNCHANGED served
     ELSE /\ served' = served \cup {a}
          /\ UNCHANGED promise
  /\ UNCHANGED <<bucket, now, asks>>

\* The store fails: 503, nothing is passed on.
StoreFails(k) ==
  /\ asks < MaxAsks
  /\ asks' = asks + 1
  /\ UNCHANGED <<bucket, now, asked, served, promise>>

Tick ==
  /\ now < MaxTime
  /\ now' = now + 1
  /\ UNCHANGED <<bucket, asked, asks, served, promise>>

RInit ==
  /\ bucket = [k \in Keys |-> NoBucket] /\ now = 0 /\ asked = {} /\ asks = 0
  /\ served = {} /\ promise = [k \in Keys |-> NoBucket]

RNext ==
  \/ \E k \in Keys : Consume(k) \/ StoreFails(k)
  \/ \E a \in asked : Judge(a)
  \/ Tick

RSpec == RInit /\ [][RNext]_rvars

-----------------------------------------------------------------------------
(* Properties *)

\* The state of the module stays what its declarations say.
RateTypeOK ==
  /\ bucket \in [Keys -> Bucket \cup {NoBucket}]
  /\ asked \cup served \subseteq Count /\ now \in 0 .. MaxTime /\ asks \in 0 .. MaxAsks
  /\ promise \in [Keys -> Instants \cup {NoBucket}]

\* A time at which a window of the key's bucket ends: of the window it is in, or
\* of one that was over when that began.
EndsAWindow(k, t) ==
  /\ bucket[k] # NoBucket
  /\ t = bucket[k].resetAt \/ t <= bucket[k].resetAt - WindowTime

\* The windows of a key do not overlap, every request is counted in the one it
\* came in, and no two requests of a window have the same count.
WindowsAreApart ==
  /\ \A k \in Keys : bucket[k] # NoBucket =>
       bucket[k].resetAt - WindowTime <= now /\ bucket[k].count <= asks
  /\ \A a \in asked \cup served :
       /\ a.resetAt - WindowTime <= a.at /\ a.at < a.resetAt
       /\ EndsAWindow(a.key, a.resetAt)
       /\ a.resetAt = bucket[a.key].resetAt => a.count <= bucket[a.key].count
  /\ \A a, b \in asked \cup served : a.key = b.key /\ a # b =>
       \/ a.resetAt = b.resetAt /\ a.count # b.count
       \/ a.resetAt <= b.resetAt - WindowTime
       \/ b.resetAt <= a.resetAt - WindowTime

\* What the middleware lets through is within the limit of its window.
PassedAreCounted == \A a \in served : ~ Over(a)

PassedWithin(k, t) == {a \in served : a.key = k /\ t <= a.at /\ a.at < t + WindowTime}

\* Fixed windows let through at most twice the limit in any stretch of time as
\* long as one of them, in whatever order the answers of the store arrive.
BurstsAreBounded ==
  \A k \in Keys, t \in 0 .. MaxTime : Cardinality(PassedWithin(k, t)) <= 2 * Limits[k]

\* Retry-After names the end of a window.
PromisesEndWindows ==
  \A k \in Keys : promise[k] # NoBucket => EndsAWindow(k, promise[k])

\* Retry-After is true: at that time the bucket has expired, or has been started
\* over since.
RetryAfterIsTrue ==
  \A k \in Keys :
    promise[k] # NoBucket /\ promise[k] <= now =>
      bucket[k].resetAt <= now \/ bucket[k].resetAt - WindowTime >= promise[k]

\* The limiter counts right and tells the truth.
LimitsHold == /\ RateTypeOK /\ WindowsAreApart /\ PassedAreCounted /\ PromisesEndWindows
              /\ BurstsAreBounded /\ RetryAfterIsTrue
=============================================================================
