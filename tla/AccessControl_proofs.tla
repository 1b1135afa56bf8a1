------------------------ MODULE AccessControl_proofs ------------------------
(***************************************************************************)
(* Theorems about what lets a request in.                                  *)
(*   - DashboardAuth, for every set of logins and passwords and either     *)
(*     driver.  SweepIsFinal is inductive: what old reads of the file may  *)
(*     still write (ReadsAreOfThePast) and what the lock keeps true        *)
(*     (HolderIsUpToDate) are what the sessions' own properties need.      *)
(*   - RateLimit, for every set of keys, length of the window and limit    *)
(*     per key.  That windows do not overlap and that counts within one    *)
(*     differ (WindowsAreApart) is inductive; the bound on bursts is a     *)
(*     count: what passes in a stretch of time comes from two windows at   *)
(*     most, and from each at most as many requests as it has counts to    *)
(*     give.                                                               *)
(*   - SshHostPolicy, for every set of groups, octets and lengths and any  *)
(*     number of addresses.  That a verdict is what the policy makes of    *)
(*     its input (PolicyInv) is all that is inductive; the work is in the  *)
(*     parser, which expands the first empty part and makes a zero of the  *)
(*     others, whatever the length of the literal (LiteralsAreParsed).     *)
(***************************************************************************)
EXTENDS DashboardAuth, RateLimit, SshHostPolicy, FiniteSetTheorems, SequenceTheorems,
        WellFoundedInduction, TLAPS

-----------------------------------------------------------------------------
(* DashboardAuth *)

\* The actions of one login.
LoginStep(l) == Verify(l) \/ Logout(l) \/ BeginWrite(l) \/ EndWrite(l) \/ Statement(l)

\* The actions of the script.
ScriptStep ==
  \/ \E p \in Passwords, skip \in BOOLEAN : CliStart(p, skip)
  \/ CliUpsert \/ CliRead \/ CliSweep \/ CliDies

-----------------------------------------------------------------------------
(* What the three changes make of a table. *)

\* Adding a session touches no other and leaves a table.
LEMMA AddedTable ==
  ASSUME NEW t \in Table, NEW l \in Logins
  PROVE  /\ Added(t, l) \in Table
         /\ Added(t, l)[l] = "live"
         /\ \A m \in Logins \ {l} : Added(t, l)[m] = t[m]
BY DEF Added, Table, Row

\* Revoking a session touches no other and makes nothing live.
LEMMA RevokedTable ==
  ASSUME NEW t \in Table, NEW l \in Logins
  PROVE  /\ Revoked(t, l) \in Table
         /\ Revoked(t, l)[l] = IF t[l] = "none" THEN "none" ELSE "revoked"
         /\ \A m \in Logins \ {l} : Revoked(t, l)[m] = t[m]
BY DEF Revoked, Table, Row

\* A sweep leaves nothing live, and no trace of what was never there.
LEMMA SweptTable ==
  ASSUME NEW t \in Table
  PROVE  /\ Swept(t) \in Table
         /\ \A l \in Logins : Swept(t)[l] = IF t[l] = "live" THEN "revoked" ELSE t[l]
BY DEF Swept, Table, Row

-----------------------------------------------------------------------------
(* The invariant *)

LEMMA InitHolds == UInit => SweepIsFinal
<1> SUFFICES ASSUME UInit PROVE SweepIsFinal
  OBVIOUS
<1>1. NoTable \in Table /\ \A l \in Logins : NoTable[l] = "none"
  BY DEF NoTable, Table, Row
<1>2. AuthTypeOK
  BY <1>1, AuthAssumption DEF UInit, AuthTypeOK, Idle
<1>3. ReadsAreOfThePast
  BY <1>1 DEF UInit, ReadsAreOfThePast, Idle
<1>4. HolderIsUpToDate
  BY AuthAssumption DEF UInit, HolderIsUpToDate, Idle
<1>5. SweepEndsOldSessions
  BY <1>1 DEF UInit, SweepEndsOldSessions
<1> QED
  BY <1>2, <1>3, <1>4, <1>5 DEF SweepIsFinal

\* A login or logout keeps it.
LEMMA LoginStepKeeps ==
  ASSUME SweepIsFinal, NEW l \in Logins, LoginStep(l)
  PROVE  SweepIsFinal'
<1> USE DEF SweepIsFinal
<1>1. CASE Verify(l)
  <2>1. AuthTypeOK'
    BY <1>1 DEF Verify, AuthTypeOK
  <2>2. ReadsAreOfThePast'
    BY <1>1 DEF Verify, AuthTypeOK, ReadsAreOfThePast
  <2>3. HolderIsUpToDate'
    BY <1>1 DEF Verify, HolderIsUpToDate
  <2>4. SweepEndsOldSessions'
    BY <1>1 DEF Verify, AuthTypeOK, ReadsAreOfThePast, SweepEndsOldSessions
  <2> QED
    BY <2>1, <2>2, <2>3, <2>4
<1>2. CASE Logout(l)
  <2>1. AuthTypeOK'
    BY <1>2 DEF Logout, AuthTypeOK
  <2>2. ReadsAreOfThePast'
    BY <1>2 DEF Logout, AuthTypeOK, ReadsAreOfThePast
  <2>3. HolderIsUpToDate' /\ SweepEndsOldSessions'
    BY <1>2 DEF Logout, HolderIsUpToDate, SweepEndsOldSessions
  <2> QED
    BY <2>1, <2>2, <2>3
<1>3. CASE BeginWrite(l)
  <2>1. AuthTypeOK'
    BY <1>3, AuthAssumption DEF BeginWrite, AuthTypeOK, Unlocked
  <2>2. ReadsAreOfThePast'
    BY <1>3 DEF BeginWrite, AuthTypeOK, ReadsAreOfThePast
  <2>3. HolderIsUpToDate'
    BY <1>3 DEF BeginWrite, AuthTypeOK, HolderIsUpToDate
  <2>4. SweepEndsOldSessions'
    BY <1>3 DEF BeginWrite, SweepEndsOldSessions
  <2> QED
    BY <2>1, <2>2, <2>3, <2>4
<1>4. CASE EndWrite(l)
  <2>1. lock = l /\ driver = "json" /\ seen[l] \in Table
    BY <1>4, AuthAssumption DEF EndWrite, AuthTypeOK, HolderIsUpToDate
  <2>2. NoTable \in Table /\ \A m \in Logins : NoTable[m] = "none"
    BY DEF NoTable, Table, Row
  <2>3. /\ table' \in Table
        /\ \A m \in Logins \ {l} : table'[m] = seen[l][m]
    <3>1. table' = Added(seen[l], l) \/ table' = Revoked(seen[l], l)
      BY <1>4 DEF EndWrite
    <3>2. CASE table' = Added(seen[l], l)
      BY <2>1, <3>2, AddedTable
    <3>3. CASE table' = Revoked(seen[l], l)
      BY <2>1, <3>3, RevokedTable
    <3> QED
      BY <3>1, <3>2, <3>3
  <2>4. AuthTypeOK'
    BY <1>4, <2>1, <2>2, <2>3, AuthAssumption DEF EndWrite, AuthTypeOK
  <2>5. ReadsAreOfThePast'
    BY <1>4, <2>2, <2>3 DEF EndWrite, AuthTypeOK, ReadsAreOfThePast
  <2>6. HolderIsUpToDate'
    BY <1>4, <2>1, AuthAssumption DEF EndWrite, HolderIsUpToDate
  <2>7. SweepEndsOldSessions'
    BY <1>4, <2>1 DEF EndWrite, SweepEndsOldSessions
  <2> QED
    BY <2>4, <2>5, <2>6, <2>7
<1>5. CASE Statement(l)
  <2>1. /\ table' \in Table
        /\ \A m \in Logins \ {l} : table'[m] = table[m]
        /\ req[l] = "verified" \/ table'[l] # "live"
    <3>1. table \in Table
      BY DEF AuthTypeOK
    <3>2. CASE req[l] = "verified"
      <4>1. table' = Added(table, l)
        BY <1>5, <3>2 DEF Statement
      <4> QED
        BY <3>1, <3>2, <4>1, AddedTable
    <3>3. CASE req[l] # "verified"
      <4>1. table' = Revoked(table, l)
        BY <1>5, <3>3 DEF Statement
      <4> QED
        BY <3>1, <4>1, RevokedTable
    <3> QED
      BY <3>2, <3>3
  <2>2. AuthTypeOK'
    BY <1>5, <2>1 DEF Statement, AuthTypeOK
  <2>3. ReadsAreOfThePast'
    BY <1>5, <2>1 DEF Statement, AuthTypeOK, ReadsAreOfThePast
  <2>4. HolderIsUpToDate'
    BY <1>5, AuthAssumption DEF Statement, HolderIsUpToDate
  <2>5. SweepEndsOldSessions'
    BY <1>5, <2>1 DEF Statement, SweepEndsOldSessions
  <2> QED
    BY <2>2, <2>3, <2>4, <2>5
<1> QED
  BY <1>1, <1>2, <1>3, <1>4, <1>5 DEF LoginStep

\* The script keeps it, wherever it is killed.
LEMMA ScriptStepKeeps ==
  ASSUME SweepIsFinal, ScriptStep
  PROVE  SweepIsFinal'
<1> USE DEF SweepIsFinal
<1>0. NoTable \in Table /\ \A m \in Logins : NoTable[m] = "none"
  BY DEF NoTable, Table, Row
<1>1. ASSUME NEW p \in Passwords, NEW skip \in BOOLEAN, CliStart(p, skip)
      PROVE  SweepIsFinal'
  <2>1. AuthTypeOK'
    BY <1>0, <1>1 DEF CliStart, AuthTypeOK, Idle
  <2>2. ReadsAreOfThePast'
    BY <1>0, <1>1 DEF CliStart, ReadsAreOfThePast, Idle
  <2>3. HolderIsUpToDate'
    BY <1>1, AuthAssumption DEF CliStart, HolderIsUpToDate, Idle
  <2>4. SweepEndsOldSessions'
    BY <1>1 DEF CliStart, SweepEndsOldSessions
  <2> QED
    BY <2>1, <2>2, <2>3, <2>4
<1>2. CASE CliUpsert
  <2>1. AuthTypeOK'
    BY <1>2 DEF CliUpsert, AuthTypeOK
  <2>2. ReadsAreOfThePast'
    BY <1>2 DEF CliUpsert, AuthTypeOK, ReadsAreOfThePast
  <2>3. HolderIsUpToDate' /\ SweepEndsOldSessions'
    BY <1>2 DEF CliUpsert, AuthTypeOK, HolderIsUpToDate, SweepEndsOldSessions
  <2> QED
    BY <2>1, <2>2, <2>3
<1>3. CASE CliRead
  <2>1. AuthTypeOK'
    BY <1>3 DEF CliRead, AuthTypeOK
  <2>2. ReadsAreOfThePast'
    BY <1>3 DEF CliRead, AuthTypeOK, ReadsAreOfThePast
  <2>3. HolderIsUpToDate' /\ SweepEndsOldSessions'
    BY <1>3 DEF CliRead, AuthTypeOK, HolderIsUpToDate, SweepEndsOldSessions
  <2> QED
    BY <2>1, <2>2, <2>3
<1>4. CASE CliSweep
  <2>1. PICK t \in {table, cli.seen} : t \in Table /\ table' = Swept(t)
    BY <1>4 DEF CliSweep, AuthTypeOK
  <2>2. /\ table' \in Table
        /\ \A m \in Logins : table'[m] # "live" /\ (t[m] = "none" => table'[m] = "none")
    BY <2>1, SweptTable DEF Table, Row
  <2>3. AuthTypeOK'
    BY <1>0, <1>4, <2>2 DEF CliSweep, AuthTypeOK
  <2>4. ReadsAreOfThePast'
    BY <1>0, <1>4, <2>2 DEF CliSweep, AuthTypeOK, ReadsAreOfThePast
  <2>5. HolderIsUpToDate'
    <3>1. driver = "json" /\ lock # Nothing => raced'
      BY <1>4 DEF CliSweep
    <3>2. \A m \in Logins : lock = m => driver = "json" /\ lock # Nothing
      BY AuthAssumption DEF HolderIsUpToDate
    <3> QED
      BY <1>4, <3>1, <3>2 DEF CliSweep, AuthTypeOK, HolderIsUpToDate
  <2>6. SweepEndsOldSessions'
    BY <2>2 DEF SweepEndsOldSessions
  <2> QED
    BY <2>3, <2>4, <2>5, <2>6
<1>5. CASE CliDies
  <2>1. AuthTypeOK'
    BY <1>0, <1>5 DEF CliDies, AuthTypeOK, Idle
  <2>2. ReadsAreOfThePast'
    BY <1>0, <1>5 DEF CliDies, ReadsAreOfThePast, Idle
  <2>3. HolderIsUpToDate' /\ SweepEndsOldSessions'
    BY <1>5 DEF CliDies, HolderIsUpToDate, SweepEndsOldSessions, Idle
  <2> QED
    BY <2>1, <2>2, <2>3
<1> QED
  BY <1>1, <1>2, <1>3, <1>4, <1>5 DEF ScriptStep

LEMMA StepKeeps == SweepIsFinal /\ [UNext]_uvars => SweepIsFinal'
<1> SUFFICES ASSUME SweepIsFinal, [UNext]_uvars PROVE SweepIsFinal'
  OBVIOUS
<1>1. ASSUME NEW l \in Logins, LoginStep(l) PROVE SweepIsFinal'
  BY <1>1, LoginStepKeeps
<1>2. CASE ScriptStep
  BY <1>2, ScriptStepKeeps
<1>3. CASE UNCHANGED uvars
  BY <1>3 DEF uvars, SweepIsFinal, AuthTypeOK, ReadsAreOfThePast, HolderIsUpToDate,
              SweepEndsOldSessions
<1> QED
  BY <1>1, <1>2, <1>3 DEF UNext, LoginStep, ScriptStep

\* Once a run of set-dashboard-password has swept the sessions in Postgres, no
\* session lives that was opened with another password, but of a login that had
\* verified it before and was stored later.
THEOREM SweepStaysFinal == USpec => []SweepIsFinal
<1>1. UInit => SweepIsFinal
  BY InitHolds
<1>2. SweepIsFinal /\ [UNext]_uvars => SweepIsFinal'
  BY StepKeeps
<1> QED
  BY <1>1, <1>2, PTL DEF USpec

-----------------------------------------------------------------------------
(* Sessions are not lost and not revived *)

\* A step of a login loses no session of the table it writes to.
LEMMA LoginLosesNothing ==
  ASSUME SweepIsFinal, NEW l \in Logins, LoginStep(l), ~raced', NEW m \in Logins
  PROVE  /\ table[m] = "live" => table'[m] # "none"
         /\ table[m] = "revoked" => table'[m] = "revoked"
<1> USE DEF SweepIsFinal
<1>1. CASE Verify(l) \/ Logout(l) \/ BeginWrite(l)
  BY <1>1 DEF Verify, Logout, BeginWrite
<1>2. CASE EndWrite(l)
  <2>1. seen[l] = table /\ table \in Table
    BY <1>2, AuthAssumption DEF EndWrite, AuthTypeOK, HolderIsUpToDate
  <2>2. req[l] = "adding" => table[l] = "none"
    BY DEF ReadsAreOfThePast
  <2>3. CASE req[l] = "adding"
    <3>1. table' = Added(table, l)
      BY <1>2, <2>1, <2>3 DEF EndWrite
    <3> QED
      BY <2>1, <2>2, <2>3, <3>1, AddedTable
  <2>4. CASE req[l] # "adding"
    <3>1. table' = Revoked(table, l)
      BY <1>2, <2>1, <2>4 DEF EndWrite
    <3> QED
      BY <2>1, <3>1, RevokedTable
  <2> QED
    BY <2>3, <2>4
<1>3. CASE Statement(l)
  <2>1. table \in Table /\ (req[l] = "verified" => table[l] = "none")
    BY DEF AuthTypeOK, ReadsAreOfThePast
  <2>2. CASE req[l] = "verified"
    <3>1. table' = Added(table, l)
      BY <1>3, <2>2 DEF Statement
    <3> QED
      BY <2>1, <2>2, <3>1, AddedTable
  <2>3. CASE req[l] # "verified"
    <3>1. table' = Revoked(table, l)
      BY <1>3, <2>3 DEF Statement
    <3> QED
      BY <2>1, <3>1, RevokedTable
  <2> QED
    BY <2>2, <2>3
<1> QED
  BY <1>1, <1>2, <1>3 DEF LoginStep

\* Neither does the script, when the file is what it has read.
LEMMA ScriptLosesNothing ==
  ASSUME SweepIsFinal, ScriptStep, ~raced', NEW m \in Logins
  PROVE  /\ table[m] = "live" => table'[m] # "none"
         /\ table[m] = "revoked" => table'[m] = "revoked"
<1> USE DEF SweepIsFinal
<1>1. CASE CliSweep
  <2>1. table' = Swept(table) /\ table \in Table
    BY <1>1 DEF CliSweep, AuthTypeOK, HolderIsUpToDate
  <2> QED
    BY <2>1, SweptTable
<1>2. CASE ~ CliSweep
  <2>1. table' = table
    BY <1>2 DEF ScriptStep, CliStart, CliUpsert, CliRead, CliDies
  <2> QED
    BY <2>1
<1> QED
  BY <1>1, <1>2

\* No session is lost or revived, however logins, logouts and the script
\* interleave, unless the script has written the JSON file while the API was.
THEOREM SessionsAlwaysMoveOn == USpec => SessionsMoveOn
<1> DEFINE MoveOn == ~ raced' => \A l \in Logins :
                       /\ table[l] = "live" => table'[l] # "none"
                       /\ table[l] = "revoked" => table'[l] = "revoked"
<1>1. SweepIsFinal /\ [UNext]_uvars => [MoveOn]_uvars
  <2> SUFFICES ASSUME SweepIsFinal, UNext, ~raced', NEW m \in Logins
               PROVE  /\ table[m] = "live" => table'[m] # "none"
                      /\ table[m] = "revoked" => table'[m] = "revoked"
    OBVIOUS
  <2>1. ASSUME NEW l \in Logins, LoginStep(l)
        PROVE  /\ table[m] = "live" => table'[m] # "none"
               /\ table[m] = "revoked" => table'[m] = "revoked"
    BY <2>1, LoginLosesNothing
  <2>2. CASE ScriptStep
    BY <2>2, ScriptLosesNothing
  <2> QED
    BY <2>1, <2>2 DEF UNext, LoginStep, ScriptStep
<1> HIDE DEF MoveOn
<1>2. USpec => [][MoveOn]_uvars
  BY <1>1, SweepStaysFinal, PTL DEF USpec
<1> QED
  BY <1>2 DEF MoveOn, SessionsMoveOn

-----------------------------------------------------------------------------
(* RateLimit *)

\* What a step keeps; the rest of LimitsHold follows from it.
WindowsHold == RateTypeOK /\ WindowsAreApart /\ PassedAreCounted /\ PromisesEndWindows

-----------------------------------------------------------------------------
(* consume *)

\* A count either goes on in the window of the bucket or begins one after all
\* that were.
LEMMA ConsumedCount ==
  ASSUME WindowsHold, NEW k \in Keys, asks < MaxAsks
  PROVE  LET c == Consumed(k) IN
         /\ c \in Bucket
         /\ c.resetAt - WindowTime <= now /\ now < c.resetAt
         /\ c.count <= asks + 1
         /\ \A t \in Instants : EndsAWindow(k, t) =>
              \/ t <= c.resetAt - WindowTime
              \/ t = c.resetAt /\ t = bucket[k].resetAt /\ c.count = bucket[k].count + 1
<1> DEFINE c == Consumed(k)
<1>1. /\ bucket[k] \in Bucket \cup {NoBucket}
      /\ bucket[k] # NoBucket => bucket[k].resetAt - WindowTime <= now /\ bucket[k].count <= asks
      /\ now \in 0 .. MaxTime /\ asks \in Nat /\ asks < MaxAsks
      /\ MaxTime \in Nat /\ MaxAsks \in Nat /\ WindowTime \in Nat /\ WindowTime > 0
  BY RateAssumption DEF WindowsHold, RateTypeOK, WindowsAreApart
<1>2. CASE bucket[k] = NoBucket \/ bucket[k].resetAt <= now
  <2>1. c = [count |-> 1, resetAt |-> now + WindowTime]
    BY <1>2 DEF Consumed
  <2>2. c \in Bucket
    BY <1>1, <2>1 DEF Bucket, Instants
  <2>3. \A t \in Instants : EndsAWindow(k, t) => t <= now
    <3> SUFFICES ASSUME NEW t \in Instants, EndsAWindow(k, t) PROVE t <= now
      OBVIOUS
    <3>1. bucket[k].resetAt \in Nat /\ bucket[k].resetAt <= now
      BY <1>1, <1>2 DEF EndsAWindow, Bucket, Instants
    <3> QED
      BY <1>1, <3>1 DEF EndsAWindow, Instants
  <2> HIDE DEF c
  <2>4. c.resetAt = now + WindowTime /\ c.count = 1
    BY <2>1
  <2>5. c.resetAt - WindowTime = now
    BY <1>1, <2>4
  <2> QED
    BY <1>1, <2>2, <2>3, <2>4, <2>5 DEF c
<1>3. CASE ~ (bucket[k] = NoBucket \/ bucket[k].resetAt <= now)
  <2>1. c = [bucket[k] EXCEPT !.count = bucket[k].count + 1]
    BY <1>3 DEF Consumed
  <2>2. bucket[k] \in Bucket /\ bucket[k].resetAt \in Nat /\ bucket[k].count \in Nat
    BY <1>1, <1>3 DEF Bucket, Instants
  <2> HIDE DEF c
  <2>3. c \in Bucket /\ c.resetAt = bucket[k].resetAt /\ c.count = bucket[k].count + 1
    BY <1>1, <1>3, <2>1, <2>2 DEF Bucket
  <2> QED
    BY <1>1, <1>3, <2>2, <2>3 DEF EndsAWindow, c
<1> QED
  BY <1>2, <1>3

-----------------------------------------------------------------------------
(* The invariant *)

LEMMA WindowsBegin == RInit => WindowsHold
<1> SUFFICES ASSUME RInit PROVE WindowsHold
  OBVIOUS
<1>1. RateTypeOK
  BY RateAssumption DEF RInit, RateTypeOK
<1>2. WindowsAreApart /\ PassedAreCounted /\ PromisesEndWindows
  BY DEF RInit, WindowsAreApart, PassedAreCounted, PromisesEndWindows
<1> QED
  BY <1>1, <1>2 DEF WindowsHold

\* A request is counted.
LEMMA ConsumeKeeps ==
  ASSUME WindowsHold, NEW k \in Keys, Consume(k)
  PROVE  WindowsHold'
<1> DEFINE c == Consumed(k)
           new == [key |-> k, count |-> c.count, nr |-> asks + 1, resetAt |-> c.resetAt, at |-> now]
<1> USE DEF WindowsHold
<1>1. /\ asks < MaxAsks /\ asks' = asks + 1
      /\ bucket' = [bucket EXCEPT ![k] = c]
      /\ asked' = asked \cup {new}
      /\ UNCHANGED <<now, served, promise>>
  BY DEF Consume
<1>2. /\ c \in Bucket
      /\ c.resetAt - WindowTime <= now /\ now < c.resetAt
      /\ c.count <= asks + 1
      /\ \A t \in Instants : EndsAWindow(k, t) =>
           \/ t <= c.resetAt - WindowTime
           \/ t = c.resetAt /\ t = bucket[k].resetAt /\ c.count = bucket[k].count + 1
  BY <1>1, ConsumedCount
<1> HIDE DEF c
<1>3. /\ asks \in 0 .. MaxAsks /\ now \in 0 .. MaxTime
      /\ MaxAsks \in Nat /\ MaxTime \in Nat /\ WindowTime \in Nat /\ WindowTime > 0
  BY RateAssumption DEF RateTypeOK
<1>4. c.count \in 1 .. MaxAsks /\ c.resetAt \in Instants /\ c # NoBucket
  BY <1>2, BucketAssumption DEF Bucket
<1>5. new \in Count
  BY <1>1, <1>3, <1>4 DEF Count, Instants
<1>6. PICK n \in Count : /\ asked' = asked \cup {n}
                          /\ n.key = k /\ n.count = c.count /\ n.resetAt = c.resetAt
                          /\ n.at = now
  BY <1>1, <1>5
<1>7. \A l \in Keys : bucket'[l] = IF l = k THEN c ELSE bucket[l]
  BY <1>1 DEF RateTypeOK
<1> HIDE DEF new
<1>8. RateTypeOK'
  <2>1. bucket' \in [Keys -> Bucket \cup {NoBucket}]
    BY <1>1, <1>2 DEF RateTypeOK
  <2>2. (asked \cup served)' \subseteq Count
    BY <1>1, <1>6 DEF RateTypeOK
  <2>3. asks' \in 0 .. MaxAsks
    BY <1>1, <1>3
  <2> QED
    BY <1>1, <2>1, <2>2, <2>3 DEF RateTypeOK
<1>9. \A l \in Keys, t \in Instants : EndsAWindow(l, t) => EndsAWindow(l, t)'
  BY <1>2, <1>4, <1>7 DEF EndsAWindow
<1>10. \A a \in asked \cup served :
         /\ a \in Count /\ a.key \in Keys /\ a.resetAt \in Int /\ a.resetAt \in Instants
         /\ a.count \in Nat /\ a.at \in Int
  BY DEF RateTypeOK, Count, Instants
<1>11. WindowsAreApart'
  <2>1. \A l \in Keys : bucket'[l] # NoBucket =>
          bucket'[l].resetAt - WindowTime <= now' /\ bucket'[l].count <= asks'
    <3> SUFFICES ASSUME NEW l \in Keys, bucket'[l] # NoBucket
                 PROVE  bucket'[l].resetAt - WindowTime <= now' /\ bucket'[l].count <= asks'
      OBVIOUS
    <3>1. CASE l = k
      BY <1>1, <1>2, <1>7, <3>1
    <3>2. CASE l # k
      <4>1. bucket'[l] = bucket[l] /\ bucket[l] \in Bucket
        BY <1>7, <3>2 DEF RateTypeOK
      <4>2. bucket[l].count \in Nat
        BY <4>1 DEF Bucket
      <4> QED
        BY <1>1, <1>3, <4>1, <4>2 DEF WindowsAreApart
    <3> QED
      BY <3>1, <3>2
  <2>2. ASSUME NEW a \in asked \cup served
        PROVE  /\ a.resetAt - WindowTime <= a.at /\ a.at < a.resetAt
               /\ EndsAWindow(a.key, a.resetAt)'
               /\ a.resetAt = bucket'[a.key].resetAt => a.count <= bucket'[a.key].count
    <3>1. /\ a.resetAt - WindowTime <= a.at /\ a.at < a.resetAt
          /\ EndsAWindow(a.key, a.resetAt)
          /\ a.resetAt = bucket[a.key].resetAt => a.count <= bucket[a.key].count
      BY DEF WindowsAreApart
    <3>2. EndsAWindow(a.key, a.resetAt)'
      BY <1>9, <1>10, <3>1
    <3>3. ASSUME a.resetAt = bucket'[a.key].resetAt PROVE a.count <= bucket'[a.key].count
      <4>1. CASE a.key # k
        BY <1>7, <1>10, <3>1, <3>3, <4>1
      <4>2. CASE a.key = k
        <5>1. a.resetAt = c.resetAt /\ bucket'[a.key] = c /\ c.resetAt \in Int
          BY <1>4, <1>7, <1>10, <3>3, <4>2 DEF Instants
        <5>2. a.resetAt = bucket[k].resetAt /\ c.count = bucket[k].count + 1
          BY <1>2, <1>3, <1>10, <3>1, <4>2, <5>1
        <5>3. a.count <= bucket[k].count /\ a.count \in Nat
          BY <1>10, <3>1, <4>2, <5>2
        <5>4. bucket[k].count \in Nat
          BY <3>1, <4>2 DEF EndsAWindow, RateTypeOK, Bucket
        <5> QED
          BY <5>1, <5>2, <5>3, <5>4
      <4> QED
        BY <4>1, <4>2
    <3> QED
      BY <3>1, <3>2, <3>3
  <2>3. /\ n.resetAt - WindowTime <= n.at /\ n.at < n.resetAt
        /\ EndsAWindow(n.key, n.resetAt)'
        /\ n.resetAt = bucket'[n.key].resetAt => n.count <= bucket'[n.key].count
    <3>1. bucket'[n.key] = c /\ c.count \in Int
      BY <1>4, <1>6, <1>7
    <3> QED
      BY <1>2, <1>4, <1>6, <3>1 DEF EndsAWindow
  <2>4. ASSUME NEW a \in asked \cup served, a.key = k
        PROVE  \/ a.resetAt = n.resetAt /\ a.count # n.count
               \/ a.resetAt <= n.resetAt - WindowTime
    <3>1. /\ EndsAWindow(k, a.resetAt) /\ a.count \in Nat
          /\ a.resetAt = bucket[k].resetAt => a.count <= bucket[k].count
      BY <1>10, <2>4 DEF WindowsAreApart
    <3>2. bucket[k].count \in Nat
      BY <3>1 DEF EndsAWindow, RateTypeOK, Bucket
    <3> QED
      BY <1>2, <1>6, <1>10, <2>4, <3>1, <3>2
  <2>5. \A a, b \in asked' \cup served' : a.key = b.key /\ a # b =>
          \/ a.resetAt = b.resetAt /\ a.count # b.count
          \/ a.resetAt <= b.resetAt - WindowTime
          \/ b.resetAt <= a.resetAt - WindowTime
    <3> SUFFICES ASSUME NEW a \in asked' \cup served', NEW b \in asked' \cup served',
                        a.key = b.key, a # b
                 PROVE  \/ a.resetAt = b.resetAt /\ a.count # b.count
                        \/ a.resetAt <= b.resetAt - WindowTime
                        \/ b.resetAt <= a.resetAt - WindowTime
      OBVIOUS
    <3>1. CASE a \in asked \cup served /\ b \in asked \cup served
      BY <3>1 DEF WindowsAreApart
    <3>2. CASE a = n /\ b \in asked \cup served
      BY <1>6, <2>4, <3>2
    <3>3. CASE b = n /\ a \in asked \cup served
      BY <1>6, <2>4, <3>3
    <3> QED
      BY <1>1, <1>6, <3>1, <3>2, <3>3
  <2>6. \A a \in asked' \cup served' :
          /\ a.resetAt - WindowTime <= a.at /\ a.at < a.resetAt
          /\ EndsAWindow(a.key, a.resetAt)'
          /\ a.resetAt = bucket'[a.key].resetAt => a.count <= bucket'[a.key].count
    BY <1>1, <1>6, <2>2, <2>3
  <2> QED
    BY <2>1, <2>5, <2>6 DEF WindowsAreApart
<1>12. PassedAreCounted'
  BY <1>1 DEF PassedAreCounted, Over
<1>13. PromisesEndWindows'
  BY <1>1, <1>9 DEF RateTypeOK, PromisesEndWindows
<1> QED
  BY <1>8, <1>11, <1>12, <1>13

\* A request is passed on or refused.
LEMMA JudgeKeeps ==
  ASSUME WindowsHold, NEW a \in asked, Judge(a)
  PROVE  WindowsHold'
<1> USE DEF WindowsHold
<1>1. a \in Count /\ a.key \in Keys /\ a.resetAt \in Instants
  BY DEF RateTypeOK, Count
<1>2. UNCHANGED <<bucket, now, asks>> /\ (asked \cup served)' \subseteq asked \cup served
  BY DEF Judge
<1>3. RateTypeOK'
  BY <1>1, <1>2 DEF Judge, RateTypeOK
<1>4. WindowsAreApart'
  <2>1. \A k \in Keys, t \in Instants : EndsAWindow(k, t) <=> EndsAWindow(k, t)'
    BY <1>2 DEF EndsAWindow
  <2>2. \A b \in asked' \cup served' : b \in asked \cup served
    BY <1>2
  <2>3. \A b \in asked' \cup served' : EndsAWindow(b.key, b.resetAt)'
    BY <1>2, <2>2 DEF WindowsAreApart, EndsAWindow
  <2> QED
    BY <1>2, <2>2, <2>3 DEF WindowsAreApart
<1>5. PassedAreCounted'
  BY DEF Judge, PassedAreCounted, Over
<1>6. PromisesEndWindows'
  <2>1. \A k \in Keys : \A t : EndsAWindow(k, t) <=> EndsAWindow(k, t)'
    BY <1>2 DEF EndsAWindow
  <2>2. EndsAWindow(a.key, a.resetAt)
    BY DEF WindowsAreApart
  <2> QED
    BY <1>1, <2>1, <2>2 DEF Judge, RateTypeOK, PromisesEndWindows
<1> QED
  BY <1>3, <1>4, <1>5, <1>6

\* The store fails, or time passes.
LEMMA OtherStepsKeep ==
  ASSUME WindowsHold, (\E k \in Keys : StoreFails(k)) \/ Tick \/ UNCHANGED rvars
  PROVE  WindowsHold'
<1> USE DEF WindowsHold
<1>1. /\ UNCHANGED <<bucket, asked, served, promise>>
      /\ asks' \in 0 .. MaxAsks /\ asks' >= asks
      /\ now' \in 0 .. MaxTime /\ now' >= now
  BY RateAssumption DEF StoreFails, Tick, rvars, RateTypeOK
<1>2. RateTypeOK'
  BY <1>1 DEF RateTypeOK
<1>3. \A k \in Keys : bucket[k] # NoBucket => bucket[k].resetAt \in Int /\ bucket[k].count \in Int
  BY DEF RateTypeOK, Bucket, Instants
<1>4. \A k \in Keys : bucket[k] # NoBucket =>
        bucket[k].resetAt - WindowTime <= now' /\ bucket[k].count <= asks'
  BY <1>1, <1>3, RateAssumption DEF RateTypeOK, WindowsAreApart
<1>5. WindowsAreApart'
  BY <1>1, <1>4 DEF WindowsAreApart, EndsAWindow
<1>6. PassedAreCounted' /\ PromisesEndWindows'
  BY <1>1 DEF PassedAreCounted, PromisesEndWindows, Over, EndsAWindow
<1> QED
  BY <1>2, <1>5, <1>6

-----------------------------------------------------------------------------
(* Counting what passes *)

\* Of one window at most as many requests pass as the limit has counts.
LEMMA WindowPasses ==
  ASSUME WindowsHold, NEW k \in Keys, NEW r,
         NEW S \in SUBSET served, \A a \in S : a.key = k /\ a.resetAt = r
  PROVE  IsFiniteSet(S) /\ Cardinality(S) <= Limits[k]
<1> DEFINE f == [a \in S |-> a.count]
<1>1. Limits[k] \in Nat /\ Limits[k] > 0
  BY RateAssumption
<1>2. \A a \in S : a.count \in 1 .. Limits[k]
  BY <1>1 DEF WindowsHold, RateTypeOK, PassedAreCounted, Over, Count
<1>3. \A a, b \in S : a.count = b.count => a = b
  <2> SUFFICES ASSUME NEW a \in S, NEW b \in S, a.count = b.count, a # b PROVE FALSE
    OBVIOUS
  <2>1. r \in Int /\ r - WindowTime < r
    BY RateAssumption DEF WindowsHold, RateTypeOK, Count, Instants
  <2>2. a.key = b.key /\ a.resetAt = r /\ b.resetAt = r /\ a \in served /\ b \in served
    OBVIOUS
  <2>3. a.count # b.count \/ r <= r - WindowTime
    BY <2>2 DEF WindowsHold, WindowsAreApart
  <2> QED
    BY <2>1, <2>3, RateAssumption
<1>4. f \in Injection(S, 1 .. Limits[k])
  BY <1>2, <1>3 DEF Injection, IsInjective
<1>5. IsFiniteSet(1 .. Limits[k]) /\ Cardinality(1 .. Limits[k]) = Limits[k]
  <2>1. 1 \in Int /\ Limits[k] \in Int /\ ~ (1 > Limits[k])
    BY <1>1
  <2>2. /\ IsFiniteSet(1 .. Limits[k])
        /\ Cardinality(1 .. Limits[k]) = IF 1 > Limits[k] THEN 0 ELSE Limits[k] - 1 + 1
    BY <2>1, FS_Interval, Zenon
  <2>3. Limits[k] - 1 + 1 = Limits[k]
    BY <2>1
  <2> QED
    BY <2>1, <2>2, <2>3, Zenon
<1> HIDE DEF f
<1> QED
  BY <1>4, <1>5, FS_Injection

\* A stretch of time no longer than a window touches two of them at most.
LEMMA BurstBound ==
  ASSUME WindowsHold, NEW k \in Keys, NEW t \in 0 .. MaxTime
  PROVE  Cardinality(PassedWithin(k, t)) <= 2 * Limits[k]
<1> DEFINE P == PassedWithin(k, t)
<1>1. /\ P \subseteq served
      /\ \A a \in P : a.key = k /\ t <= a.at /\ a.at < t + WindowTime
  BY DEF PassedWithin
<1>2. Limits[k] \in Nat /\ WindowTime \in Nat /\ WindowTime > 0 /\ t \in Nat
  BY RateAssumption
<1>3. \A a \in P : a.resetAt \in Int /\ a.at \in Int /\ a.resetAt - WindowTime <= a.at
                   /\ a.at < a.resetAt
  BY <1>1 DEF WindowsHold, RateTypeOK, Count, Instants, WindowsAreApart
<1>4. \A a, b \in P : \/ a.resetAt = b.resetAt
                      \/ a.resetAt <= b.resetAt - WindowTime
                      \/ b.resetAt <= a.resetAt - WindowTime
  BY <1>1 DEF WindowsHold, WindowsAreApart
<1> HIDE DEF P
<1>5. CASE P = {}
  BY <1>2, <1>5, FS_EmptySet DEF P
<1>6. ASSUME NEW a \in P PROVE Cardinality(P) <= 2 * Limits[k]
  <2> DEFINE A == {x \in P : x.resetAt = a.resetAt}
             B == {x \in P : x.resetAt # a.resetAt}
  <2>1. IsFiniteSet(A) /\ Cardinality(A) <= Limits[k]
    <3>1. A \in SUBSET served /\ \A x \in A : x.key = k /\ x.resetAt = a.resetAt
      BY <1>1
    <3> HIDE DEF A
    <3> QED
      BY <3>1, WindowPasses
  <2>2. \A x, y \in B : x.resetAt = y.resetAt
    BY <1>1, <1>2, <1>3, <1>4, <1>6
  <2>3. IsFiniteSet(B) /\ Cardinality(B) <= Limits[k]
    <3>1. CASE B = {}
      BY <1>2, <3>1, FS_EmptySet
    <3>2. ASSUME NEW b \in B PROVE IsFiniteSet(B) /\ Cardinality(B) <= Limits[k]
      <4>1. B \in SUBSET served /\ \A x \in B : x.key = k /\ x.resetAt = b.resetAt
        BY <1>1, <2>2, <3>2
      <4> HIDE DEF B
      <4> QED
        BY <4>1, WindowPasses
    <3> QED
      BY <3>1, <3>2
  <2>4. P = A \cup B /\ A \cap B = {}
    OBVIOUS
  <2> HIDE DEF A, B
  <2>5. Cardinality(A \cap B) = 0
    BY <2>4, FS_EmptySet
  <2>6. Cardinality(A) \in Nat /\ Cardinality(B) \in Nat
    BY <2>1, <2>3, FS_CardinalityType
  <2>7. Cardinality(P) = Cardinality(A) + Cardinality(B)
    <3>1. Cardinality(A \cup B) = Cardinality(A) + Cardinality(B) - Cardinality(A \cap B)
      BY <2>1, <2>3, FS_Union
    <3> QED
      BY <2>4, <2>5, <2>6, <3>1
  <2> QED
    BY <1>2, <2>1, <2>3, <2>7, <2>6
<1> QED
  BY <1>5, <1>6 DEF P

\* At the time a refused sender was told the window has ended.
LEMMA RetryAfterHolds == WindowsHold => RetryAfterIsTrue
<1> SUFFICES ASSUME WindowsHold, NEW k \in Keys, promise[k] # NoBucket, promise[k] <= now
             PROVE  bucket[k].resetAt <= now \/ bucket[k].resetAt - WindowTime >= promise[k]
  BY DEF RetryAfterIsTrue
<1>1. /\ promise[k] = bucket[k].resetAt \/ promise[k] <= bucket[k].resetAt - WindowTime
      /\ bucket[k] # NoBucket
  BY DEF WindowsHold, PromisesEndWindows, EndsAWindow
<1>2. promise[k] \in Int /\ bucket[k].resetAt \in Int
  BY <1>1 DEF WindowsHold, RateTypeOK, Bucket, Instants
<1> QED
  BY <1>1, <1>2, RateAssumption

-----------------------------------------------------------------------------
\* The limiter counts right and tells the truth: windows of a key are apart, at
\* most twice the limit passes in any stretch as long as a window, whatever the
\* order of the store's answers, and Retry-After names a time at which the
\* refused sender's window is over.
THEOREM LimitsAlwaysHold == RSpec => []LimitsHold
<1>1. RInit => WindowsHold
  BY WindowsBegin
<1>2. WindowsHold /\ [RNext]_rvars => WindowsHold'
  BY ConsumeKeeps, JudgeKeeps, OtherStepsKeep DEF RNext
<1>3. WindowsHold => LimitsHold
  BY BurstBound, RetryAfterHolds DEF WindowsHold, LimitsHold, BurstsAreBounded
<1> QED
  BY <1>1, <1>2, <1>3, PTL DEF RSpec

-----------------------------------------------------------------------------
(* The SSH host policy: what is parsed *)

Group == Nat
Part == Group \cup {Empty}
Suffix == {NoSuffix} \cup [1 .. 4 -> 0 .. 255]

\* Any literal, not only those of YInit.
Literal == [parts : Seq(Part), suffix : Suffix]

\* A suffix is two groups, or none.
LEMMA PairIsTwo ==
  ASSUME NEW s \in Suffix
  PROVE  Pair(s) \in Seq(Group) /\ Len(Pair(s)) \in {0, 2}
<1>1. CASE s = NoSuffix
  <2>1. Pair(s) = <<>>
    BY <1>1 DEF Pair
  <2> QED
    BY <2>1, EmptySeq
<1>2. CASE s # NoSuffix
  <2>1. s \in [1 .. 4 -> 0 .. 255]
    BY <1>2 DEF Suffix
  <2>2. s[1] \in 0 .. 255 /\ s[2] \in 0 .. 255 /\ s[3] \in 0 .. 255 /\ s[4] \in 0 .. 255
    BY <2>1
  <2>3. 256 * s[1] + s[2] \in Group /\ 256 * s[3] + s[4] \in Group
    <3>1. s[1] \in Nat /\ s[2] \in Nat /\ s[3] \in Nat /\ s[4] \in Nat
      BY <2>2
    <3>2. \A x, y \in Nat : x * y \in Nat
      OBVIOUS
    <3>3. 256 * s[1] \in Nat /\ 256 * s[3] \in Nat
      BY <3>1, <3>2
    <3> QED
      BY <3>1, <3>3 DEF Group
  <2>4. Pair(s) = << 256 * s[1] + s[2], 256 * s[3] + s[4] >>
    BY <1>2 DEF Pair
  <2> HIDE DEF Group
  <2>5. << 256 * s[1] + s[2], 256 * s[3] + s[4] >> \in Seq(Group)
    BY <2>3
  <2>6. Len(<< 256 * s[1] + s[2], 256 * s[3] + s[4] >>) = 2
    OBVIOUS
  <2> QED
    BY <2>4, <2>5, <2>6
<1> QED
  BY <1>1, <1>2

\* Zeros are groups.
LEMMA ZerosAreGroups ==
  ASSUME NEW n \in Nat
  PROVE  /\ Zeros(n) \in Seq(Group) /\ Len(Zeros(n)) = n
         /\ \A i \in 1 .. n : Zeros(n)[i] = 0
<1>1. Zeros(n) \in [1 .. n -> Group]
  BY DEF Zeros, Group
<1>2. Zeros(n) \in Seq(Group)
  BY <1>1
<1>3. DOMAIN Zeros(n) = 1 .. n
  BY <1>1
<1>4. Len(Zeros(n)) = n
  BY <1>2, <1>3, LenProperties
<1> QED
  BY <1>2, <1>4 DEF Zeros

\* An empty part counts as zero.
LEMMA ValuesAreGroups ==
  ASSUME NEW p \in Seq(Part)
  PROVE  /\ Values(p) \in Seq(Group) /\ Len(Values(p)) = Len(p)
         /\ \A i \in 1 .. Len(p) : Values(p)[i] = IF p[i] = Empty THEN 0 ELSE p[i]
<1>1. DOMAIN p = 1 .. Len(p) /\ Len(p) \in Nat /\ \A i \in 1 .. Len(p) : p[i] \in Part
  BY LenProperties
<1>2. \A i \in 1 .. Len(p) : (IF p[i] = Empty THEN 0 ELSE p[i]) \in Group
  <2>1. \A x \in Part : x # Empty => x \in Group
    BY DEF Part
  <2>2. 0 \in Group
    BY DEF Group
  <2> QED
    BY <1>1, <2>1, <2>2
<1>3. Values(p) = [i \in 1 .. Len(p) |-> IF p[i] = Empty THEN 0 ELSE p[i]]
  BY <1>1 DEF Values
<1>4. Values(p) \in [1 .. Len(p) -> Group]
  BY <1>2, <1>3
<1>5. Values(p) \in Seq(Group) /\ DOMAIN Values(p) = 1 .. Len(p)
  BY <1>1, <1>4
<1>6. Len(Values(p)) = Len(p)
  BY <1>1, <1>5, LenProperties
<1> QED
  BY <1>3, <1>5, <1>6

\* Sequences put together in either order.
LEMMA GroupsChained ==
  ASSUME NEW a \in Seq(Group), NEW b \in Seq(Group), NEW c \in Seq(Group)
  PROVE  (a \o b) \o c = a \o (b \o c)
BY ConcatAssociative, SMTT(30)

\* Two sequences put together, element by element.
LEMMA GroupsJoined ==
  \A s, t \in Seq(Group) :
    /\ s \o t \in Seq(Group) /\ Len(s \o t) = Len(s) + Len(t)
    /\ \A i \in 1 .. Len(s) + Len(t) : (s \o t)[i] = IF i <= Len(s) THEN s[i] ELSE t[i - Len(s)]
BY ConcatProperties

\* Parts that are not empty are their values.
LEMMA FullParts ==
  ASSUME NEW p \in Seq(Part), \A i \in 1 .. Len(p) : p[i] # Empty
  PROVE  Values(p) = p /\ p \in Seq(Group)
<1>1. /\ Values(p) \in Seq(Group) /\ Len(Values(p)) = Len(p)
      /\ \A i \in 1 .. Len(p) : Values(p)[i] = p[i]
  BY ValuesAreGroups
<1>2. Values(p) \in Seq(Part)
  <2>1. Group \subseteq Part
    BY DEF Part
  <2> QED
    BY <1>1, <2>1, SeqMonotonic
<1>3. Values(p) = p
  BY <1>1, <1>2, SeqEqual
<1> QED
  BY <1>1, <1>3

\* A part of a sequence, element by element.
LEMMA Between ==
  ASSUME NEW S, NEW s \in Seq(S), NEW m \in Nat, NEW n \in Nat, m >= 1, n <= Len(s), m <= n + 1
  PROVE  /\ SubSeq(s, m, n) \in Seq(S) /\ Len(SubSeq(s, m, n)) = n - m + 1
         /\ \A i \in 1 .. n - m + 1 : SubSeq(s, m, n)[i] = s[m + i - 1]
<1>1. \A i \in m .. n : s[i] \in S
  <2>1. \A i \in m .. n : i \in 1 .. Len(s)
    BY LenProperties
  <2> QED
    BY <2>1, ElementOfSeq
<1>2. m \in Int /\ n \in Int
  OBVIOUS
<1>3. /\ SubSeq(s, m, n) \in Seq(S)
      /\ Len(SubSeq(s, m, n)) = IF m <= n THEN n - m + 1 ELSE 0
      /\ \A i \in 1 .. n - m + 1 : SubSeq(s, m, n)[i] = s[m + i - 1]
  BY <1>1, <1>2, SubSeqProperties
<1>4. (IF m <= n THEN n - m + 1 ELSE 0) = n - m + 1
  OBVIOUS
<1> QED
  BY <1>3, <1>4

\* The parts after the first empty one of a gap: as many zeros as the gap has more
\* empty parts, and what comes after it.
LEMMA AfterTheFirst ==
  ASSUME NEW p \in Seq(Part), NEW a \in 1 .. Len(p), NEW b \in a .. Len(p),
         \A i \in 1 .. Len(p) : p[i] = Empty <=> i \in a .. b,
         NEW m \in Nat
  PROVE  /\ SubSeq(p, b + 1, Len(p)) \in Seq(Group)
         /\ Zeros(m) \o Values(SubSeq(p, a + 1, Len(p)))
              = Zeros(m + (b - a)) \o SubSeq(p, b + 1, Len(p))
<1> DEFINE n == Len(p)  u == SubSeq(p, a + 1, n)  v == SubSeq(p, b + 1, n)
           x == Zeros(m) \o Values(u)  y == Zeros(m + (b - a)) \o v
<1>1. n \in Nat /\ a \in Nat /\ b \in Nat /\ 1 <= a /\ a <= b /\ b <= n
  BY LenProperties
<1>2. /\ u \in Seq(Part) /\ Len(u) = n - a /\ \A i \in 1 .. n - a : u[i] = p[a + i]
  <2>1. /\ SubSeq(p, a + 1, n) \in Seq(Part) /\ Len(SubSeq(p, a + 1, n)) = n - (a + 1) + 1
        /\ \A i \in 1 .. n - (a + 1) + 1 : SubSeq(p, a + 1, n)[i] = p[a + 1 + i - 1]
    BY <1>1, Between
  <2>2. \A i \in 1 .. n - a : i \in 1 .. n - (a + 1) + 1 /\ a + 1 + i - 1 = a + i
    BY <1>1
  <2>3. n - (a + 1) + 1 = n - a
    BY <1>1
  <2> QED
    BY <2>1, <2>2, <2>3
<1>3. /\ v \in Seq(Part) /\ Len(v) = n - b /\ \A i \in 1 .. n - b : v[i] = p[b + i]
  <2>1. /\ SubSeq(p, b + 1, n) \in Seq(Part) /\ Len(SubSeq(p, b + 1, n)) = n - (b + 1) + 1
        /\ \A i \in 1 .. n - (b + 1) + 1 : SubSeq(p, b + 1, n)[i] = p[b + 1 + i - 1]
    BY <1>1, Between
  <2>2. \A i \in 1 .. n - b : i \in 1 .. n - (b + 1) + 1 /\ b + 1 + i - 1 = b + i
    BY <1>1
  <2>3. n - (b + 1) + 1 = n - b
    BY <1>1
  <2> QED
    BY <2>1, <2>2, <2>3
<1> HIDE DEF n, u, v
<1>0. \A i \in 1 .. n : p[i] = Empty <=> i \in a .. b
  BY DEF n
<1>4. v \in Seq(Group)
  <2>1. \A i \in 1 .. Len(v) : v[i] # Empty
    <3>1. \A i \in 1 .. Len(v) : i \in 1 .. n - b /\ b + i \in 1 .. n /\ b + i \notin a .. b
      BY <1>1, <1>3
    <3> QED
      BY <1>0, <1>3, <3>1
  <2> QED
    BY <1>3, <2>1, FullParts
<1>5. /\ Values(u) \in Seq(Group) /\ Len(Values(u)) = n - a
      /\ \A i \in 1 .. n - a : Values(u)[i] = IF p[a + i] = Empty THEN 0 ELSE p[a + i]
  BY <1>2, ValuesAreGroups
<1>6. /\ Zeros(m) \in Seq(Group) /\ Len(Zeros(m)) = m
      /\ \A i \in 1 .. m : Zeros(m)[i] = 0
  BY ZerosAreGroups
<1>7. /\ Zeros(m + (b - a)) \in Seq(Group) /\ Len(Zeros(m + (b - a))) = m + (b - a)
      /\ \A i \in 1 .. m + (b - a) : Zeros(m + (b - a))[i] = 0
  <2>1. m + (b - a) \in Nat
    BY <1>1
  <2> QED
    BY <2>1, ZerosAreGroups
<1> DEFINE w == Values(u)  z == Zeros(m)  zz == Zeros(m + (b - a))
<1> HIDE DEF w, z, zz
<1>8. /\ z \o w \in Seq(Group) /\ Len(z \o w) = m + (n - a)
      /\ \A i \in 1 .. m + (n - a) : (z \o w)[i] = IF i <= m THEN z[i] ELSE w[i - m]
  <2>1. z \in Seq(Group) /\ w \in Seq(Group) /\ Len(z) = m /\ Len(w) = n - a
    BY <1>5, <1>6 DEF w, z
  <2> QED
    <3>1. /\ z \o w \in Seq(Group) /\ Len(z \o w) = Len(z) + Len(w)
          /\ \A i \in 1 .. Len(z) + Len(w) :
               (z \o w)[i] = IF i <= Len(z) THEN z[i] ELSE w[i - Len(z)]
      BY <2>1, GroupsJoined
    <3> QED
      BY <2>1, <3>1
<1>9. /\ zz \o v \in Seq(Group) /\ Len(zz \o v) = m + (b - a) + (n - b)
      /\ \A i \in 1 .. m + (b - a) + (n - b) :
           (zz \o v)[i] = IF i <= m + (b - a) THEN zz[i] ELSE v[i - (m + (b - a))]
  <2>1. zz \in Seq(Group) /\ v \in Seq(Group) /\ Len(zz) = m + (b - a) /\ Len(v) = n - b
    BY <1>3, <1>4, <1>7 DEF zz
  <2> QED
    <3>1. /\ zz \o v \in Seq(Group) /\ Len(zz \o v) = Len(zz) + Len(v)
          /\ \A i \in 1 .. Len(zz) + Len(v) :
               (zz \o v)[i] = IF i <= Len(zz) THEN zz[i] ELSE v[i - Len(zz)]
      BY <2>1, GroupsJoined
    <3> QED
      BY <2>1, <3>1
<1>10. m + (b - a) + (n - b) = m + (n - a)
  BY <1>1
<1>11. ASSUME NEW i \in 1 .. m + (n - a) PROVE (z \o w)[i] = (zz \o v)[i]
  <2>1. (z \o w)[i] = IF i <= m THEN z[i] ELSE w[i - m]
    BY <1>8
  <2>2. (zz \o v)[i] = IF i <= m + (b - a) THEN zz[i] ELSE v[i - (m + (b - a))]
    BY <1>9, <1>10
  <2>3. CASE i <= m
    <3>1. i \in 1 .. m /\ i \in 1 .. m + (b - a) /\ i <= m + (b - a)
      BY <1>1, <2>3
    <3>2. z[i] = 0 /\ zz[i] = 0
      BY <1>6, <1>7, <3>1 DEF z, zz
    <3> QED
      BY <2>1, <2>2, <2>3, <3>1, <3>2
  <2>4. CASE ~ (i <= m) /\ i <= m + (b - a)
    <3>1. /\ i - m \in 1 .. n - a /\ a + (i - m) \in a .. b /\ a + (i - m) \in 1 .. n
          /\ i \in 1 .. m + (b - a)
      BY <1>1, <2>4
    <3>2. w[i - m] = 0 /\ zz[i] = 0
      BY <1>0, <1>5, <1>7, <3>1 DEF w, zz
    <3> QED
      BY <2>1, <2>2, <2>4, <3>2
  <2>5. CASE ~ (i <= m + (b - a))
    <3>1. /\ ~ (i <= m) /\ i - m \in 1 .. n - a /\ i - (m + (b - a)) \in 1 .. n - b
          /\ a + (i - m) \notin a .. b /\ a + (i - m) \in 1 .. n
          /\ a + (i - m) = b + (i - (m + (b - a)))
      BY <1>1, <2>5
    <3>2. w[i - m] = p[a + (i - m)]
      BY <1>0, <1>5, <3>1 DEF w
    <3>3. v[i - (m + (b - a))] = p[b + (i - (m + (b - a)))]
      BY <1>3, <3>1
    <3>4. v[i - (m + (b - a))] = w[i - m]
      BY <3>1, <3>2, <3>3
    <3> QED
      BY <2>1, <2>2, <2>5, <3>1, <3>4
  <2> QED
    BY <2>3, <2>4, <2>5
<1>12. z \o w = zz \o v
  BY <1>8, <1>9, <1>10, <1>11, SeqEqual
<1> QED
  BY <1>4, <1>12 DEF z, w, zz, v, u, n

\* The ends of a gap.
LEMMA EndsOfAGap ==
  ASSUME NEW a \in Nat, NEW b \in Nat, a <= b
  PROVE  Min(a .. b) = a /\ Max(a .. b) = b
<1>1. \A i \in a .. b : (\A j \in a .. b : i <= j) <=> i = a
  OBVIOUS
<1>2. \A i \in a .. b : (\A j \in a .. b : i >= j) <=> i = b
  OBVIOUS
<1>3. a \in a .. b /\ b \in a .. b
  OBVIOUS
<1>4. (CHOOSE i \in a .. b : \A j \in a .. b : i <= j) = a
  BY <1>1, <1>3
<1>5. (CHOOSE i \in a .. b : \A j \in a .. b : i >= j) = b
  BY <1>2, <1>3
<1> QED
  BY <1>4, <1>5, Zenon DEF Min, Max

\* A well formed literal has all its groups, or one gap; it has two parts at least.
LEMMA OneGap ==
  ASSUME literal \in Literal, WellFormed
  PROVE  /\ Len(literal.parts) >= 2
         /\ \/ Gap = {} /\ Slots = 8
            \/ \E a \in 1 .. Len(literal.parts) : \E b \in a .. Len(literal.parts) : Gap = a .. b
<1> DEFINE n == Len(literal.parts)  k == Len(Pair(literal.suffix))
<1>1. literal.parts \in Seq(Part) /\ literal.suffix \in Suffix
  BY DEF Literal
<1>2. n \in Nat /\ DOMAIN literal.parts = 1 .. n
  BY <1>1, LenProperties
<1>3. k \in {0, 2}
  BY <1>1, PairIsTwo
<1>4. Gap \subseteq 1 .. n
  BY <1>2 DEF Gap, Empties
<1>5. \/ Gap = {} /\ n + k = 8
      \/ Gap = 1 .. 3 /\ n = 3
      \/ Gap = 1 .. 2
      \/ Gap = {n - 1, n} /\ n > 2
      \/ Gap = {n} /\ n > 1
      \/ \E i \in 2 .. n - 1 : Gap = {i}
  BY DEF WellFormed
<1> HIDE DEF n, k
<1>6. CASE Gap = {} /\ n + k = 8
  <2>1. n >= 2
    BY <1>2, <1>3, <1>6
  <2>2. Slots = 8
    BY <1>6 DEF Slots, n, k
  <2> QED
    BY <1>6, <2>1, <2>2 DEF n
<1>7. ASSUME NEW a \in Nat, NEW b \in Nat, Gap = a .. b, 1 <= a, a <= b, b <= n, n >= 2
      PROVE  /\ n >= 2 /\ \E x \in 1 .. n : \E y \in x .. n : Gap = x .. y
  <2>1. a \in 1 .. n /\ b \in a .. n
    BY <1>2, <1>7
  <2> QED
    BY <1>7, <2>1
<1>8. CASE Gap = 1 .. 3 /\ n = 3
  <2>1. /\ n >= 2 /\ \E x \in 1 .. n : \E y \in x .. n : Gap = x .. y
    BY <1>7, <1>8
  <2> QED
    BY <2>1 DEF n
<1>9. CASE Gap = 1 .. 2
  <2>1. 2 \in 1 .. n
    BY <1>4, <1>9
  <2>2. n >= 2
    BY <1>2, <2>1
  <2>3. /\ n >= 2 /\ \E x \in 1 .. n : \E y \in x .. n : Gap = x .. y
    BY <1>2, <1>7, <1>9, <2>2
  <2> QED
    BY <2>3 DEF n
<1>10. CASE Gap = {n - 1, n} /\ n > 2
  <2>1. n - 1 \in Nat /\ {n - 1, n} = (n - 1) .. n /\ 1 <= n - 1 /\ n - 1 <= n /\ n <= n /\ n >= 2
    BY <1>2, <1>10
  <2>2. /\ n >= 2 /\ \E x \in 1 .. n : \E y \in x .. n : Gap = x .. y
    BY <1>2, <1>7, <1>10, <2>1
  <2> QED
    BY <2>2 DEF n
<1>11. ASSUME NEW i \in 2 .. n, Gap = {i}
       PROVE  /\ n >= 2 /\ \E x \in 1 .. n : \E y \in x .. n : Gap = x .. y
  <2>1. i \in Nat /\ {i} = i .. i /\ 1 <= i /\ i <= i /\ i <= n /\ n >= 2
    BY <1>2, <1>11
  <2> QED
    BY <1>7, <1>11, <2>1
<1>12. CASE Gap = {n} /\ n > 1
  <2>1. n \in 2 .. n
    BY <1>2, <1>12
  <2>2. /\ n >= 2 /\ \E x \in 1 .. n : \E y \in x .. n : Gap = x .. y
    BY <1>11, <1>12, <2>1
  <2> QED
    BY <2>2 DEF n
<1>13. CASE \E i \in 2 .. n - 1 : Gap = {i}
  <2>1. PICK i \in 2 .. n - 1 : Gap = {i}
    BY <1>13
  <2>2. i \in 2 .. n
    BY <1>2
  <2>3. /\ n >= 2 /\ \E x \in 1 .. n : \E y \in x .. n : Gap = x .. y
    BY <1>11, <2>1, <2>2
  <2> QED
    BY <2>3 DEF n
<1> QED
  BY <1>5, <1>6, <1>8, <1>9, <1>10, <1>12, <1>13

\* A literal without a gap is parsed as it is written.
LEMMA WholeIsParsed ==
  ASSUME literal \in Literal, Gap = {}, Slots = 8, Len(literal.parts) >= 2
  PROVE  Parse(literal) = Expansion /\ Expansion \in Seq(Group) /\ Len(Expansion) = 8
<1> DEFINE p == literal.parts  q == Pair(literal.suffix)
<1>1. p \in Seq(Part) /\ literal.suffix \in Suffix
  BY DEF Literal
<1>2. Len(p) \in Nat /\ DOMAIN p = 1 .. Len(p)
  BY <1>1, LenProperties
<1>3. q \in Seq(Group) /\ Len(q) \in {0, 2}
  BY <1>1, PairIsTwo
<1>4. Len(p) + Len(q) = 8 /\ Len(p) >= 2
  BY DEF Slots
<1>5. Empties(literal) = {} /\ { i \in DOMAIN p : p[i] = Empty } = {}
  BY DEF Gap, Empties
<1>6. Values(p) = p /\ p \in Seq(Group)
  <2>1. \A i \in 1 .. Len(p) : p[i] # Empty
    BY <1>2, <1>5
  <2> QED
    BY <1>1, <2>1, FullParts
<1>7. Expansion = p \o q
  BY DEF Expansion
<1>8. Parse(literal) =
        CASE Len(p) \notin 2 .. 8 -> Invalid
          [] Len(p) # 8 - Len(q) -> Invalid
          [] OTHER -> Values(p) \o q
  BY <1>5 DEF Parse
<1>9. Len(p) \in 2 .. 8 /\ Len(p) = 8 - Len(q)
  <2>1. \A x \in Nat, y \in {0, 2} : x + y = 8 /\ x >= 2 => x \in 2 .. 8 /\ x = 8 - y
    OBVIOUS
  <2> HIDE DEF p, q
  <2> QED
    BY <1>2, <1>3, <1>4, <2>1, Zenon
<1>10. Parse(literal) = p \o q
  <2> HIDE DEF p, q
  <2> QED
    BY <1>6, <1>8, <1>9
<1>11. p \o q \in Seq(Group) /\ Len(p \o q) = Len(p) + Len(q)
  <2> HIDE DEF p, q
  <2> QED
    BY <1>3, <1>6, GroupsJoined
<1> QED
  BY <1>4, <1>7, <1>10, <1>11

\* A literal with a gap: refused with a part too many, else expanded where the gap is.
LEMMA GapIsParsed ==
  ASSUME literal \in Literal, Len(literal.parts) >= 2,
         NEW a \in 1 .. Len(literal.parts), NEW b \in a .. Len(literal.parts), Gap = a .. b
  PROVE  IF Slots > 8 THEN Parse(literal) = Invalid
         ELSE Parse(literal) = Expansion /\ Expansion \in Seq(Group) /\ Len(Expansion) = 8
<1> DEFINE p == literal.parts  q == Pair(literal.suffix)  n == Len(p)  k == Len(q)
           pre == SubSeq(p, 1, a - 1)  post == SubSeq(p, b + 1, n)  rest == SubSeq(p, a + 1, n)
<1>1. p \in Seq(Part) /\ literal.suffix \in Suffix
  BY DEF Literal
<1>2. n \in Nat /\ DOMAIN p = 1 .. n /\ n >= 2
  BY <1>1, LenProperties
<1>3. q \in Seq(Group) /\ k \in {0, 2}
  BY <1>1, PairIsTwo
<1>4. a \in Nat /\ b \in Nat /\ 1 <= a /\ a <= b /\ b <= n
  <2> HIDE DEF n
  <2>1. a \in 1 .. n /\ b \in a .. n
    BY DEF n
  <2> QED
    BY <1>2, <2>1
<1>5. Empties(literal) = a .. b
  BY DEF Gap
<1>6. \A i \in 1 .. n : p[i] = Empty <=> i \in a .. b
  BY <1>2, <1>5 DEF Empties
<1>7. Min(a .. b) = a /\ Max(a .. b) = b
  BY <1>4, EndsOfAGap
<1>8. a .. b # {}
  BY <1>4
<1>9. Missing(literal, a) = 9 - n - k
  <2>1. Missing(literal, a) = 8 - (a - 1) - (n - a) - k
    BY DEF Missing
  <2> HIDE DEF n, k
  <2> QED
    BY <1>2, <1>3, <1>4, <2>1
<1>10. Parse(literal) =
         CASE n \notin 2 .. 8 -> Invalid
           [] 9 - n - k < 1 -> Invalid
           [] OTHER -> (Values(pre) \o Zeros(9 - n - k) \o Values(rest)) \o q
  <2>1. Parse(literal) =
          CASE n \notin 2 .. 8 -> Invalid
            [] Missing(literal, a) < 1 -> Invalid
            [] OTHER -> (Values(pre) \o Zeros(Missing(literal, a)) \o Values(rest)) \o q
    BY <1>5, <1>7, <1>8 DEF Parse
  <2> QED
    BY <1>9, <2>1
<1>11. Slots = n + k
  BY DEF Slots
<1>12. CASE Slots > 8
  <2>1. n \notin 2 .. 8 \/ 9 - n - k < 1
    <3>1. \A x \in Nat, y \in {0, 2} : x + y > 8 => 9 - x - y < 1
      OBVIOUS
    <3> HIDE DEF n, k
    <3> QED
      BY <1>2, <1>3, <1>11, <1>12, <3>1, Zenon
  <2>2. Parse(literal) = Invalid
    <3> HIDE DEF p, q, n, k, pre, rest
    <3> QED
      BY <1>10, <2>1
  <2> QED
    BY <1>12, <2>2
<1>13. CASE ~ (Slots > 8)
  <2> DEFINE m == 9 - n - k
  <2>1. n \in 2 .. 8 /\ ~ (m < 1) /\ m \in Nat /\ m + (b - a) \in Nat
    <3>1. \A x \in Nat, y \in {0, 2} : x >= 2 /\ ~ (x + y > 8) =>
            x \in 2 .. 8 /\ ~ (9 - x - y < 1) /\ 9 - x - y \in Nat
      OBVIOUS
    <3> HIDE DEF n, k
    <3>2. n \in 2 .. 8 /\ ~ (m < 1) /\ m \in Nat
      BY <1>2, <1>3, <1>11, <1>13, <3>1, Zenon DEF m
    <3> HIDE DEF m
    <3>3. m + (b - a) \in Nat
      BY <1>4, <3>2
    <3> QED
      BY <3>2, <3>3
  <2>2. pre \in Seq(Part) /\ Len(pre) = a - 1 /\ \A i \in 1 .. a - 1 : pre[i] = p[i]
    <3> HIDE DEF p
    <3>1. /\ SubSeq(p, 1, a - 1) \in Seq(Part) /\ Len(SubSeq(p, 1, a - 1)) = a - 1 - 1 + 1
          /\ \A i \in 1 .. a - 1 - 1 + 1 : SubSeq(p, 1, a - 1)[i] = p[1 + i - 1]
      <4>1. 1 \in Nat /\ a - 1 \in Nat /\ 1 >= 1 /\ a - 1 <= Len(p) /\ 1 <= a - 1 + 1
        BY <1>2, <1>4 DEF n
      <4> QED
        BY <1>1, <4>1, Between
    <3>2. a - 1 - 1 + 1 = a - 1 /\ \A i \in 1 .. a - 1 : 1 + i - 1 = i
      BY <1>4
    <3> QED
      BY <3>1, <3>2
  <2>3. Values(pre) = pre /\ pre \in Seq(Group)
    <3>1. \A i \in 1 .. a - 1 : i \in 1 .. n /\ i \notin a .. b
      <4> HIDE DEF n
      <4> QED
        BY <1>2, <1>4
    <3>2. \A i \in 1 .. Len(pre) : pre[i] # Empty
      <4> HIDE DEF p, n, pre
      <4> QED
        BY <1>6, <2>2, <3>1
    <3> HIDE DEF pre
    <3> QED
      BY <2>2, <3>2, FullParts
  <2>4. post \in Seq(Group) /\ Zeros(m) \o Values(rest) = Zeros(m + (b - a)) \o post
    <3>1. m \in Nat
      BY <2>1
    <3>2. a \in 1 .. Len(p) /\ b \in a .. Len(p)
      OBVIOUS
    <3>3. \A i \in 1 .. Len(p) : p[i] = Empty <=> i \in a .. b
      BY <1>6
    <3> HIDE DEF m, p
    <3> QED
      BY <1>1, <3>1, <3>2, <3>3, AfterTheFirst
  <2>5. Len(post) = n - b
    <3>1. b + 1 \in Nat /\ n \in Nat /\ b + 1 >= 1 /\ n <= Len(p) /\ b + 1 <= n + 1
      <4>1. n = Len(p)
        OBVIOUS
      <4> HIDE DEF n
      <4> QED
        BY <1>2, <1>4, <4>1
    <3>2. Len(SubSeq(p, b + 1, n)) = n - (b + 1) + 1
      <4> HIDE DEF p, n
      <4> QED
        BY <1>1, <3>1, Between
    <3>3. n - (b + 1) + 1 = n - b
      <4> HIDE DEF n
      <4> QED
        BY <1>2, <1>4
    <3> QED
      BY <3>2, <3>3
  <2>6. Zeros(m) \in Seq(Group) /\ Zeros(m + (b - a)) \in Seq(Group) /\ Len(Zeros(m + (b - a))) = m + (b - a)
    <3> HIDE DEF m
    <3> QED
      BY <2>1, ZerosAreGroups
  <2>7. Values(rest) \in Seq(Group)
    <3>1. rest \in Seq(Part)
      <4>1. a + 1 \in Nat /\ n \in Nat /\ a + 1 >= 1 /\ n <= Len(p) /\ a + 1 <= n + 1
        <5>1. n = Len(p)
          OBVIOUS
        <5> HIDE DEF n
        <5> QED
          BY <1>2, <1>4, <5>1
      <4> HIDE DEF p, n
      <4> QED
        BY <1>1, <4>1, Between DEF rest
    <3> HIDE DEF rest
    <3> QED
      BY <3>1, ValuesAreGroups
  <2>8. BeforeGap = pre /\ AfterGap = post
    <3>1. Gap = a .. b
      OBVIOUS
    <3>2. BeforeGap = SubSeq(literal.parts, 1, Min(a .. b) - 1)
      BY <3>1, Zenon DEF BeforeGap
    <3>3. AfterGap = SubSeq(literal.parts, Max(a .. b) + 1, Len(literal.parts))
      BY <3>1, Zenon DEF AfterGap
    <3> QED
      BY <1>7, <3>2, <3>3, Zenon
  <2>9. Abbreviated = m + (b - a)
    <3>1. Abbreviated = 8 - (a - 1) - (n - b) - k
      BY <2>2, <2>5, <2>8 DEF Abbreviated
    <3> HIDE DEF n, k
    <3> QED
      BY <1>2, <1>3, <1>4, <3>1
  <2>10. Expansion = ((pre \o Zeros(m + (b - a))) \o post) \o q
    BY <1>8, <2>8, <2>9 DEF Expansion
  <2>11. Parse(literal) = ((Values(pre) \o Zeros(m)) \o Values(rest)) \o q
    <3> HIDE DEF p, q, n, k, pre, rest
    <3> QED
      BY <1>10, <2>1 DEF m
  <2> DEFINE z == Zeros(m)  zz == Zeros(m + (b - a))  v == Values(rest)
  <2> HIDE DEF z, zz, v, pre, post
  <2>12. (pre \o z) \o v = (pre \o zz) \o post
    <3>1. (pre \o z) \o v = pre \o (z \o v)
      BY <2>3, <2>6, <2>7, GroupsChained DEF z, v
    <3>2. (pre \o zz) \o post = pre \o (zz \o post)
      BY <2>3, <2>4, <2>6, GroupsChained DEF zz
    <3>3. z \o v = zz \o post
      BY <2>4 DEF z, zz, v
    <3> QED
      BY <3>1, <3>2, <3>3
  <2>13. Parse(literal) = Expansion
    <3>1. Expansion = ((pre \o zz) \o post) \o q
      BY <2>10 DEF zz
    <3>2. Parse(literal) = ((pre \o z) \o v) \o q
      BY <2>3, <2>11 DEF z, v
    <3> QED
      BY <2>12, <3>1, <3>2
  <2>14. Expansion \in Seq(Group) /\ Len(Expansion) = 8
    <3>1. Expansion = ((pre \o zz) \o post) \o q
      BY <2>10 DEF zz
    <3>2. pre \in Seq(Group) /\ zz \in Seq(Group) /\ post \in Seq(Group) /\ q \in Seq(Group)
      BY <1>3, <2>3, <2>4, <2>6 DEF zz
    <3>3. Len(pre) = a - 1 /\ Len(zz) = m + (b - a) /\ Len(post) = n - b /\ Len(q) = k
      BY <2>2, <2>5, <2>6 DEF zz
    <3> HIDE DEF q, n, k
    <3>4. /\ pre \o zz \in Seq(Group)
          /\ Len(pre \o zz) = Len(pre) + Len(zz)
      BY <3>2, GroupsJoined
    <3>5. /\ (pre \o zz) \o post \in Seq(Group)
          /\ Len((pre \o zz) \o post) = Len(pre \o zz) + Len(post)
      BY <3>2, <3>4, GroupsJoined
    <3> DEFINE w == (pre \o zz) \o post
    <3> HIDE DEF w
    <3>6. /\ w \o q \in Seq(Group)
          /\ Len(w \o q) = Len(w) + Len(q)
      BY <3>2, <3>5, GroupsJoined DEF w
    <3>7. (a - 1) + (m + (b - a)) + (n - b) + k = 8
      BY <1>2, <1>3, <1>4 DEF m
    <3>8. Len(w) = Len(pre) + Len(zz) + Len(post)
      BY <3>4, <3>5 DEF w
    <3>9. Len(w \o q) = 8
      BY <3>3, <3>6, <3>7, <3>8
    <3> QED
      BY <3>1, <3>6, <3>9 DEF w
  <2> QED
    BY <1>13, <2>13, <2>14
<1> QED
  BY <1>12, <1>13

\* What the parser makes of every well formed literal.
LEMMA LiteralsAreParsed ==
  ASSUME literal \in Literal, WellFormed
  PROVE  IF Slots > 8 THEN Parse(literal) = Invalid
         ELSE Parse(literal) = Expansion /\ Expansion \in Seq(Group) /\ Len(Expansion) = 8
<1>1. Len(literal.parts) >= 2
  BY OneGap
<1>2. CASE Gap = {} /\ Slots = 8
  BY <1>1, <1>2, WholeIsParsed
<1>3. CASE \E a \in 1 .. Len(literal.parts) : \E b \in a .. Len(literal.parts) : Gap = a .. b
  <2>1. PICK a \in 1 .. Len(literal.parts) : \E b \in a .. Len(literal.parts) : Gap = a .. b
    BY <1>3
  <2>2. PICK b \in a .. Len(literal.parts) : Gap = a .. b
    BY <2>1
  <2> QED
    BY <1>1, <2>2, GapIsParsed
<1> QED
  BY <1>2, <1>3, OneGap

-----------------------------------------------------------------------------
(* The SSH host policy: what it says *)

\* A verdict is what the policy makes of the literal and of the names.
PolicyInv ==
  /\ literal \in Literal /\ names \in Seq(Classes)
  /\ \/ verdict = Unasked
     \/ verdict = [ class |-> ClassOf(Parse(literal)), chosen |-> Resolved(names) ]

\* A well formed literal is parsed to what it stands for.
LEMMA LiteralsAreExpanded == PolicyInv => ParserExpands
<1> SUFFICES ASSUME PolicyInv PROVE ParserExpands
  OBVIOUS
<1>1. literal \in Literal
  BY DEF PolicyInv
<1> QED
  BY <1>1, LiteralsAreParsed DEF ParserExpands

\* The networks, by their first group.
LEMMA Networks ==
  ASSUME NEW g \in Nat
  PROVE  /\ g \div 64 = 1018 <=> g \in 65152 .. 65215
         /\ g \div 512 = 126 <=> g \in 64512 .. 65023
<1>1. g \div 64 = 1018 <=> g \in 65152 .. 65215
  OBVIOUS
<1>2. g \div 512 = 126 <=> g \in 64512 .. 65023
  OBVIOUS
<1> QED
  BY <1>1, <1>2

\* The class of eight groups that are no mapped address.
LEMMA ClassOfGroups ==
  ASSUME NEW e \in Seq(Group), Len(e) = 8
  PROVE  /\ e[1] \div 64 = 1018 => Classify6(e) = "metadata"
         /\ e[1] \div 512 = 126 => Classify6(e) = "private"
         /\ e[1] \div 64 # 1018 /\ e[1] \div 512 # 126 =>
              Classify6(e) \in {"localhost", "public"}
<1> DEFINE g == e[1]
<1>1. g \in Nat
  <2>1. 1 \in 1 .. Len(e)
    OBVIOUS
  <2> QED
    BY <2>1, ElementOfSeq DEF Group
<1>2. e # Invalid
  <2>1. Len(<<>>) = 0 /\ 0 # 8
    OBVIOUS
  <2> QED
    BY <2>1, Zenon DEF Invalid
<1>3. g # 0 => ~ (e = Zeros(8) \/ e = Append(Zeros(7), 1))
  <2>1. Zeros(8)[1] = 0
    BY DEF Zeros
  <2>2. Zeros(7) \in Seq(Group) /\ Len(Zeros(7)) = 7
    <3>1. 7 \in Nat
      OBVIOUS
    <3> QED
      BY <3>1, ZerosAreGroups
  <2>3. Zeros(7)[1] = 0
    BY DEF Zeros
  <2>4. 1 \in Group
    BY DEF Group
  <2>5. Append(Zeros(7), 1)[1] = 0
    <3> DEFINE z == Zeros(7)
    <3> HIDE DEF z, Group
    <3>1. \A i \in 1 .. Len(z) : Append(z, 1)[i] = z[i]
      BY <2>2, <2>4, AppendProperties DEF z
    <3>2. 1 \in 1 .. Len(z)
      <4>1. 1 \in 1 .. 7
        OBVIOUS
      <4> QED
        BY <2>2, <4>1, Zenon DEF z
    <3>3. Append(z, 1)[1] = z[1]
      BY <3>1, <3>2
    <3> QED
      BY <2>3, <3>3 DEF z
  <2> QED
    BY <2>1, <2>5
<1> DEFINE local == e = Zeros(8) \/ e = Append(Zeros(7), 1)
           meta == g \in 65152 .. 65215  own == g \in 64512 .. 65023
<1>4. /\ g \div 64 = 1018 <=> meta
      /\ g \div 512 = 126 <=> own
  <2> HIDE DEF g
  <2> QED
    BY <1>1, Networks
<1>5. (meta => g # 0) /\ (own => g # 0 /\ ~ meta)
  <2> HIDE DEF g
  <2> QED
    BY <1>1
<1>6. Classify6(e) = CASE e = Invalid -> "invalid" [] local -> "localhost" [] meta -> "metadata"
                       [] own -> "private" [] OTHER -> "public"
  BY DEF Classify6
<1>7. g # 0 => ~ local
  BY <1>3
<1> HIDE DEF local, meta, own, g
<1>8. meta => Classify6(e) = "metadata"
  BY <1>2, <1>5, <1>6, <1>7
<1>9. own => Classify6(e) = "private"
  BY <1>2, <1>5, <1>6, <1>7
<1>10. ~ meta /\ ~ own => Classify6(e) \in {"localhost", "public"}
  BY <1>2, <1>6, Zenon
<1>11. /\ g \div 64 = 1018 => Classify6(e) = "metadata"
       /\ g \div 512 = 126 => Classify6(e) = "private"
       /\ g \div 64 # 1018 /\ g \div 512 # 126 => Classify6(e) \in {"localhost", "public"}
  BY <1>4, <1>8, <1>9, <1>10, Zenon
<1> QED
  BY <1>11 DEF g

\* A literal is of the class of its network.
LEMMA ClassesAreOfTheNetwork == PolicyInv => ClassIsOfTheNetwork
<1> SUFFICES ASSUME PolicyInv, verdict # Unasked, WellFormed, Slots <= 8
             PROVE  CASE Mapped(Expansion) -> verdict.class = Classify4(Inner(Expansion))
                      [] ~ Mapped(Expansion) /\ Expansion[1] \div 64 = 1018 -> verdict.class = "metadata"
                      [] ~ Mapped(Expansion) /\ Expansion[1] \div 512 = 126 -> verdict.class = "private"
                      [] OTHER -> verdict.class \in {"localhost", "public"}
  BY DEF ClassIsOfTheNetwork
<1>1. literal \in Literal
  BY DEF PolicyInv
<1>2. ~ (Slots > 8)
  <2>1. Slots \in Int
    <3>1. literal.parts \in Seq(Part) /\ literal.suffix \in Suffix
      BY <1>1 DEF Literal
    <3>2. Len(literal.parts) \in Nat
      BY <3>1, LenProperties
    <3>3. Len(Pair(literal.suffix)) \in {0, 2}
      BY <3>1, PairIsTwo
    <3> QED
      BY <3>2, <3>3 DEF Slots
  <2> QED
    BY <2>1
<1>3. Parse(literal) = Expansion /\ Expansion \in Seq(Group) /\ Len(Expansion) = 8
  BY <1>1, <1>2, LiteralsAreParsed
<1>4. verdict.class = IF Mapped(Expansion) THEN Classify4(Inner(Expansion)) ELSE Classify6(Expansion)
  BY <1>3 DEF PolicyInv, ClassOf
<1>5. /\ Expansion[1] \div 64 = 1018 => Classify6(Expansion) = "metadata"
      /\ Expansion[1] \div 512 = 126 => Classify6(Expansion) = "private"
      /\ Expansion[1] \div 64 # 1018 /\ Expansion[1] \div 512 # 126 =>
           Classify6(Expansion) \in {"localhost", "public"}
  BY <1>3, ClassOfGroups
<1>6. CASE Mapped(Expansion)
  BY <1>4, <1>6
<1>7. CASE ~ Mapped(Expansion)
  BY <1>4, <1>5, <1>7
<1> QED
  BY <1>6, <1>7

\* The first of some numbers is one of them.
LEMMA MinIsOne ==
  ASSUME NEW S \in SUBSET Nat, S # {}
  PROVE  Min(S) \in S
<1> DEFINE R == {ss \in Nat \X Nat : ss[1] < ss[2]}
<1>1. IsWellFoundedOn(R, Nat)
  BY NatLessThanWellFounded DEF OpToRel
<1> HIDE DEF R
<1>2. PICK x \in S : \A y \in S : ~ (<<y, x>> \in R)
  BY <1>1, WFMin
<1>3. ASSUME NEW y \in S PROVE x <= y
  <2>1. x \in Nat /\ y \in Nat
    OBVIOUS
  <2>2. y < x => <<y, x>> \in R
    BY <2>1 DEF R
  <2> QED
    BY <1>2, <2>1, <2>2
<1>4. (CHOOSE z \in S : \A y \in S : z <= y) \in S
  BY <1>3
<1> QED
  BY <1>4, Zenon DEF Min

\* A name is connected to only at an address that is allowed, at a public one first.
LEMMA NamesAreAlwaysVetted == PolicyInv => NamesAreVetted
<1> SUFFICES ASSUME PolicyInv, verdict # Unasked, verdict.chosen # 0
             PROVE  /\ \A i \in DOMAIN names : Allowed(names[i])
                    /\ "public" \in ToSet(names) => names[verdict.chosen] = "public"
  BY DEF NamesAreVetted
<1>1. verdict.chosen = Resolved(names)
  BY DEF PolicyInv
<1>2. ~ (names = <<>> \/ \E i \in DOMAIN names : ~ Allowed(names[i]))
  BY <1>1 DEF Resolved
<1>3. ASSUME "public" \in ToSet(names) PROVE names[verdict.chosen] = "public"
  <2> DEFINE public == { i \in DOMAIN names : names[i] = "public" }
  <2>1. public # {}
    BY <1>3 DEF ToSet
  <2>2. verdict.chosen = Min(public)
    BY <1>1, <1>2, <2>1 DEF Resolved
  <2>3. public \in SUBSET Nat
    <3>1. DOMAIN names \subseteq Nat
      BY LenProperties DEF PolicyInv
    <3> QED
      BY <3>1
  <2>4. Min(public) \in public
    <3> HIDE DEF public
    <3> QED
      BY <2>1, <2>3, MinIsOne
  <2> QED
    BY <2>2, <2>4
<1> QED
  BY <1>2, <1>3

\* The values tried are groups, octets and lengths.
LEMMA ValuesTried ==
  /\ \A x \in Groups \cup Firsts \cup {Empty} : x \in Part
  /\ \A x \in Octets : x \in 0 .. 255
  /\ \A n \in Lengths : n \in Nat
  /\ MaxAddresses \in Nat
<1>1. \A x \in Hextets : x \in Part
  BY DEF Part, Group, Hextets
<1>2. Empty \in Part
  BY DEF Part
<1>3. Groups \subseteq Hextets /\ Firsts \subseteq Hextets
  BY PolicyAssumption
<1>4. \A x \in Groups \cup Firsts \cup {Empty} : x \in Part
  <2> HIDE DEF Part, Empty
  <2> QED
    BY <1>1, <1>2, <1>3
<1> QED
  BY <1>4, PolicyAssumption

\* Every literal tried is a literal.
LEMMA LiteralsTried == BareLiteral \/ SuffixedLiteral => literal \in Literal
<1>1. ASSUME BareLiteral PROVE literal \in Literal
  <2>1. PICK f \in Groups \cup Firsts \cup {Empty}, n \in Lengths :
          \E t \in [1 .. n - 1 -> Groups \cup {Empty}] :
            literal = [parts |-> <<f>> \o t, suffix |-> NoSuffix]
    BY <1>1 DEF BareLiteral
  <2>2. PICK t \in [1 .. n - 1 -> Groups \cup {Empty}] :
          literal = [parts |-> <<f>> \o t, suffix |-> NoSuffix]
    BY <2>1
  <2>3. f \in Part /\ n \in Nat /\ Groups \cup {Empty} \subseteq Part
    BY ValuesTried
  <2> HIDE DEF Part, Empty
  <2>4. t \in Seq(Part)
    <3>1. t \in [1 .. n - 1 -> Part]
      BY <2>3
    <3>2. CASE n = 0
      <4>1. 1 .. n - 1 = 1 .. 0
        BY <3>2
      <4>2. t \in [1 .. 0 -> Part]
        BY <3>1, <4>1
      <4> QED
        BY <4>2
    <3>3. CASE n # 0
      <4>1. n - 1 \in Nat
        BY <2>3, <3>3
      <4> QED
        BY <3>1, <4>1
    <3> QED
      BY <3>2, <3>3
  <2>5. PICK u \in Seq(Part) : u = <<f>>
    <3>1. f \in Part
      BY <2>3
    <3>2. <<f>> \in Seq(Part)
      BY <3>1
    <3> QED
      BY <3>2
  <2>6. \A x, y \in Seq(Part) : x \o y \in Seq(Part)
    BY ConcatProperties
  <2>7. PICK w \in Seq(Part) : w = u \o t
    BY <2>4, <2>6
  <2>8. literal = [parts |-> w, suffix |-> NoSuffix]
    BY <2>2, <2>5, <2>7
  <2> QED
    BY <2>8 DEF Literal, Suffix
<1>2. ASSUME SuffixedLiteral PROVE literal \in Literal
  <2>1. PICK p \in SuffixedParts, a \in Octets, b \in Octets, c \in {0, 1} :
          literal = [parts |-> p, suffix |-> <<a, b, c, 1>>]
    BY <1>2 DEF SuffixedLiteral
  <2>2. 0 \in Part /\ 1 \in Part /\ 65535 \in Part /\ Empty \in Part
    BY DEF Part, Group
  <2>3. p \in Seq(Part)
    <3> HIDE DEF Part, Empty
    <3>1. /\ <<Empty, Empty, 65535>> \in Seq(Part) /\ <<Empty, Empty>> \in Seq(Part)
          /\ <<1, Empty>> \in Seq(Part) /\ <<Empty>> \in Seq(Part)
      BY <2>2
    <3>2. <<0, 0, 0, 0, 0, 65535>> \in Seq(Part)
      BY <2>2
    <3>3. <<0, 0, 0, Empty, 65535>> \in Seq(Part)
      BY <2>2
    <3>4. <<Empty, Empty, 1, 1, 1, 1, 1>> \in Seq(Part)
      BY <2>2
    <3> DEFINE p1 == <<Empty, Empty, 65535>>  p2 == <<Empty, Empty>>  p3 == <<1, Empty>>
               p4 == <<Empty>>  p5 == <<0, 0, 0, 0, 0, 65535>>  p6 == <<0, 0, 0, Empty, 65535>>
               p7 == <<Empty, Empty, 1, 1, 1, 1, 1>>
    <3>5. p \in {p1, p2, p3, p4, p5, p6, p7}
      BY DEF SuffixedParts
    <3>6. /\ p1 \in Seq(Part) /\ p2 \in Seq(Part) /\ p3 \in Seq(Part) /\ p4 \in Seq(Part)
          /\ p5 \in Seq(Part) /\ p6 \in Seq(Part) /\ p7 \in Seq(Part)
      BY <3>1, <3>2, <3>3, <3>4
    <3> HIDE DEF p1, p2, p3, p4, p5, p6, p7
    <3> QED
      BY <3>5, <3>6
  <2>4. a \in 0 .. 255 /\ b \in 0 .. 255
    BY ValuesTried
  <2>5. <<a, b, c, 1>> \in [1 .. 4 -> 0 .. 255]
    BY <2>4
  <2> QED
    BY <2>1, <2>3, <2>5 DEF Literal, Suffix
<1> QED
  BY <1>1, <1>2

\* The policy has said nothing yet of the literals and names tried.
LEMMA PolicyBegins == YInit => PolicyInv
<1> SUFFICES ASSUME YInit PROVE PolicyInv
  OBVIOUS
<1>1. verdict = Unasked
  BY DEF YInit
<1>2. CASE (BareLiteral \/ SuffixedLiteral) /\ names = <<>>
  <2>1. <<>> \in Seq(Classes)
    OBVIOUS
  <2>2. literal \in Literal
    BY <1>2, LiteralsTried
  <2> QED
    BY <1>1, <1>2, <2>1, <2>2 DEF PolicyInv
<1>3. CASE /\ literal = [parts |-> <<Empty, Empty, 1>>, suffix |-> NoSuffix]
           /\ names \in BoundedSeq(Classes, MaxAddresses)
  <2>1. names \in Seq(Classes)
    <3>1. names \in UNION { [1 .. m -> Classes] : m \in 0 .. MaxAddresses }
      BY <1>3 DEF BoundedSeq, SeqOf
    <3>2. PICK m \in 0 .. MaxAddresses : names \in [1 .. m -> Classes]
      BY <3>1
    <3>3. m \in Nat
      BY <3>2, ValuesTried
    <3> HIDE DEF Classes
    <3> QED
      BY <3>2, <3>3
  <2>2. Empty \in Part /\ 1 \in Part
    BY DEF Part, Group
  <2>3. <<Empty, Empty, 1>> \in Seq(Part)
    <3> HIDE DEF Empty, Part
    <3> QED
      BY <2>2
  <2>4. literal \in Literal
    BY <1>3, <2>3 DEF Literal, Suffix
  <2> QED
    BY <1>1, <2>1, <2>4 DEF PolicyInv
<1> QED
  BY <1>2, <1>3 DEF YInit

\* Asking keeps it.
LEMMA AskKeeps == PolicyInv /\ [YNext]_yvars => PolicyInv'
<1> SUFFICES ASSUME PolicyInv, [YNext]_yvars PROVE PolicyInv'
  OBVIOUS
<1>1. CASE Ask
  <2>1. literal' = literal /\ names' = names /\ privateAllowed' = privateAllowed
    BY <1>1 DEF Ask
  <2>2. Parse(literal)' = Parse(literal) /\ Resolved(names)' = Resolved(names)
    BY <2>1, Zenon DEF Resolved, Allowed
  <2>3. verdict' = [ class |-> ClassOf(Parse(literal)), chosen |-> Resolved(names) ]
    BY <1>1 DEF Ask
  <2> QED
    BY <2>1, <2>2, <2>3 DEF PolicyInv
<1>2. CASE UNCHANGED yvars
  <2>1. literal' = literal /\ names' = names /\ privateAllowed' = privateAllowed /\ verdict' = verdict
    BY <1>2 DEF yvars
  <2>2. Parse(literal)' = Parse(literal) /\ Resolved(names)' = Resolved(names)
    BY <2>1, Zenon DEF Resolved, Allowed
  <2> QED
    BY <2>1, <2>2 DEF PolicyInv
<1> QED
  BY <1>1, <1>2 DEF YNext

\* However many parts a literal and addresses a name have, a well formed literal is
\* expanded where its "::" is, its class is its network's, and a name with an address
\* that is not allowed is refused (assertSshHostAllowedAsync).
THEOREM NamesStayClassed == YSpec => []NamesAreClassed
<1>1. YInit => PolicyInv
  BY PolicyBegins
<1>2. PolicyInv /\ [YNext]_yvars => PolicyInv'
  BY AskKeeps
<1>3. PolicyInv => NamesAreClassed
  BY LiteralsAreExpanded, ClassesAreOfTheNetwork, NamesAreAlwaysVetted DEF NamesAreClassed
<1> QED
  BY <1>1, <1>2, <1>3, PTL DEF YSpec
=============================================================================
