---------------------- MODULE TerminalSessions_proofs ----------------------
(***************************************************************************)
(* Theorems about TerminalSessions, for any number of connections, any     *)
(* dashboard sessions and hosts behind them and any limits.  A step moves  *)
(* one connection, or all of them the same way at the shutdown: what holds *)
(* of each connection is proved of the one that moved, what is counted     *)
(* (slots and places) from how the counted set changes.                    *)
(*                                                                         *)
(* And about TerminalFlow, for any sizes of chunks, buffers and windows:   *)
(* what the shell printed is one line of chunks, each beginning where the  *)
(* one before it ends, of which the socket has sent some, holds some and   *)
(* the queue the rest; flush and the callbacks move its divisions only.    *)
(***************************************************************************)
EXTENDS TerminalSessions, TerminalFlow, FiniteSetTheorems, SequenceTheorems,
        WellFoundedInduction, TLAPS

\* What is kept of each connection.
ConnSound(c) ==
  /\ conn[c].pc \in {"none", "lookup", "greeting", "stranded"} =>
       conn[c].state = "new" /\ conn[c].shell = "none" /\ c \notin registry
  /\ conn[c].state = "new" =>
       conn[c].pc \in {"none", "lookup", "greeting", "stranded", "done"}
  /\ conn[c].pc = "greeting" \/ conn[c].state \in {"opening", "ready"} =>
       conn[c].socket # "closed"
  /\ conn[c].state = "opening" /\ conn[c].pc \in {"target", "dialling"} => c \in registry
  /\ conn[c].state = "ready" => c \in registry
  /\ stop = "done" /\ conn[c].pc # "none" => conn[c].socket # "open"
  /\ conn[c].shell = "live" =>
       /\ conn[c].state = "ready" /\ conn[c].socket # "closed"
       /\ c \in registry
  /\ c \in registry /\ conn[c].state = "closed" => conn[c].late

AllSound == \A c \in Conns : ConnSound(c)

\* What a step keeps; the rest of ShellsAreAccounted follows from it.
PlacesAndSlots == TerminalTypeOK /\ AllSound /\ PlacesWithinLimits /\ SlotsAreAccounted

\* A step of one connection.
ConnStep(c) ==
  \/ Upgrade(c) \/ LookedUp(c) \/ BadGreeting(c) \/ Greeting(c)
  \/ Authenticate(c) \/ AdmitTerminal(c) \/ Target(c) \/ Dialled(c)
  \/ Wire(c) \/ FailOpen(c)
  \/ SocketClosed(c) \/ OpenTimeout(c) \/ SessionEnds(c)
  \/ LifetimeOver(c) \/ RevocationPoll(c)

Slots == { c \in Conns : conn[c].pc \in SlotSteps }

-----------------------------------------------------------------------------
(* The clean-up *)

\* The clean-up leaves a closed session without shell, whose socket is not open,
\* and touches neither where its opening stands nor how it was admitted.
LEMMA CleanedConn ==
  ASSUME NEW s \in Connection
  PROVE  /\ Cleaned(s) \in Connection
         /\ Cleaned(s).pc = s.pc /\ Cleaned(s).late = s.late
         /\ Cleaned(s).state = "closed"
         /\ s.state # "closed" => Cleaned(s).shell # "live" /\ Cleaned(s).socket # "open"
         /\ s.socket # "open" => Cleaned(s).socket # "open"
         /\ s.shell # "live" => Cleaned(s).shell # "live"
BY DEF Cleaned, Connection

-----------------------------------------------------------------------------
(* What is counted *)

LEMMA RegistryFinite == TerminalTypeOK => IsFiniteSet(registry)
BY TerminalAssumption, FS_Subset DEF TerminalTypeOK

\* Fewer places are within the limits.
LEMMA FewerPlaces ==
  ASSUME TerminalTypeOK, PlacesWithinLimits, registry' \subseteq registry
  PROVE  PlacesWithinLimits'
<1>1. IsFiniteSet(registry)
  BY RegistryFinite
<1>2. \A S : S \in SUBSET registry => IsFiniteSet(S) /\ Cardinality(S) \in Nat
  BY <1>1, FS_Subset, FS_CardinalityType
<1>3. \A S, T : S \in SUBSET registry /\ T \in SUBSET S => Cardinality(T) <= Cardinality(S)
  BY <1>2, FS_Subset
<1>4. /\ Cardinality(registry') \in Nat /\ Cardinality(registry) \in Nat
      /\ Cardinality(registry') <= Cardinality(registry)
  BY <1>2, <1>3
<1>5. Cardinality(registry') <= GlobalLimit
  BY <1>4, TerminalAssumption DEF PlacesWithinLimits
<1>6. ASSUME NEW c \in Conns
      PROVE  /\ Cardinality({ r \in registry' : Dash[r] = Dash[c] }) <= DashLimit
             /\ Cardinality({ r \in registry' : Host[r] = Host[c] }) <= HostLimit
  <2> DEFINE D == { r \in registry : Dash[r] = Dash[c] }
             E == { r \in registry' : Dash[r] = Dash[c] }
             H == { r \in registry : Host[r] = Host[c] }
             I == { r \in registry' : Host[r] = Host[c] }
  <2>1. D \in SUBSET registry /\ E \in SUBSET D /\ H \in SUBSET registry /\ I \in SUBSET H
    OBVIOUS
  <2>2. Cardinality(D) <= DashLimit /\ Cardinality(H) <= HostLimit
    BY DEF PlacesWithinLimits
  <2> HIDE DEF D, E, H, I
  <2>3. E \in SUBSET registry /\ I \in SUBSET registry
    BY <2>1
  <2>4. {Cardinality(D), Cardinality(E), Cardinality(H), Cardinality(I)} \subseteq Nat
    BY <1>2, <2>1, <2>3
  <2>5. Cardinality(E) <= Cardinality(D) /\ Cardinality(I) <= Cardinality(H)
    BY <1>3, <2>1
  <2>6. Cardinality(E) <= DashLimit /\ Cardinality(I) <= HostLimit
    BY <2>2, <2>4, <2>5, TerminalAssumption
  <2> QED
    BY <2>6 DEF E, I
<1> QED
  BY <1>5, <1>6 DEF PlacesWithinLimits

\* One more place is, when the registry was not full for it.
LEMMA OneMorePlace ==
  ASSUME TerminalTypeOK, PlacesWithinLimits, NEW c \in Conns, ~ Full(c),
         registry' = registry \cup {c}
  PROVE  PlacesWithinLimits'
<1>1. \A S : S \in SUBSET registry =>
        /\ Cardinality(S) \in Nat
        /\ Cardinality(S \cup {c}) \in Nat /\ Cardinality(S \cup {c}) <= Cardinality(S) + 1
  <2> SUFFICES ASSUME NEW S \in SUBSET registry
               PROVE  /\ Cardinality(S) \in Nat
                      /\ Cardinality(S \cup {c}) \in Nat
                      /\ Cardinality(S \cup {c}) <= Cardinality(S) + 1
    OBVIOUS
  <2>1. IsFiniteSet(S) /\ Cardinality(S) \in Nat
    BY RegistryFinite, FS_Subset, FS_CardinalityType
  <2>2. /\ IsFiniteSet(S \cup {c})
        /\ Cardinality(S \cup {c}) = IF c \in S THEN Cardinality(S) ELSE Cardinality(S) + 1
    BY <2>1, FS_AddElement
  <2> QED
    BY <2>1, <2>2
<1>2. Cardinality(registry') <= GlobalLimit
  <2>1. Cardinality(registry) \in Nat /\ ~ (Cardinality(registry) >= GlobalLimit)
    BY <1>1 DEF Full
  <2>2. Cardinality(registry') \in Nat /\ Cardinality(registry') <= Cardinality(registry) + 1
    BY <1>1
  <2> QED
    BY <2>1, <2>2, TerminalAssumption
<1>3. ASSUME NEW d \in Conns PROVE Cardinality({ r \in registry' : Dash[r] = Dash[d] }) <= DashLimit
  <2> DEFINE D == { r \in registry : Dash[r] = Dash[d] }
             E == { r \in registry' : Dash[r] = Dash[d] }
  <2>1. Cardinality(D) \in Nat /\ Cardinality(D) <= DashLimit
    BY <1>1 DEF PlacesWithinLimits
  <2>2. CASE Dash[c] = Dash[d]
    <3>1. E = D \cup {c}
      BY <2>2
    <3>2. ~ (Cardinality(D) >= DashLimit)
      BY <2>2 DEF Full
    <3>3. Cardinality(E) \in Nat /\ Cardinality(E) <= Cardinality(D) + 1
      BY <1>1, <3>1
    <3> HIDE DEF D, E
    <3>4. Cardinality(E) <= DashLimit
      BY <2>1, <3>2, <3>3, TerminalAssumption
    <3> QED
      BY <3>4 DEF E
  <2>3. CASE Dash[c] # Dash[d]
    <3>1. E = D
      BY <2>3
    <3> QED
      BY <2>1, <3>1
  <2> QED
    BY <2>2, <2>3
<1>4. ASSUME NEW d \in Conns PROVE Cardinality({ r \in registry' : Host[r] = Host[d] }) <= HostLimit
  <2> DEFINE D == { r \in registry : Host[r] = Host[d] }
             E == { r \in registry' : Host[r] = Host[d] }
  <2>1. Cardinality(D) \in Nat /\ Cardinality(D) <= HostLimit
    BY <1>1 DEF PlacesWithinLimits
  <2>2. CASE Host[c] = Host[d]
    <3>1. E = D \cup {c}
      BY <2>2
    <3>2. ~ (Cardinality(D) >= HostLimit)
      BY <2>2 DEF Full
    <3>3. Cardinality(E) \in Nat /\ Cardinality(E) <= Cardinality(D) + 1
      BY <1>1, <3>1
    <3> HIDE DEF D, E
    <3>4. Cardinality(E) <= HostLimit
      BY <2>1, <3>2, <3>3, TerminalAssumption
    <3> QED
      BY <3>4 DEF E
  <2>3. CASE Host[c] # Host[d]
    <3>1. E = D
      BY <2>3
    <3> QED
      BY <2>1, <3>1
  <2> QED
    BY <2>2, <2>3
<1> QED
  BY <1>2, <1>3, <1>4 DEF PlacesWithinLimits

LEMMA SlotsFinite == IsFiniteSet(Slots) /\ Cardinality(Slots) \in Nat
<1>1. IsFiniteSet(Conns) /\ Slots \in SUBSET Conns
  BY TerminalAssumption DEF Slots
<1> QED
  BY <1>1, FS_Subset, FS_CardinalityType

\* The counter follows the upgrades that hold a slot: one comes, one goes, or
\* neither.
LEMMA SlotsFollow ==
  ASSUME TerminalTypeOK, SlotsAreAccounted, NEW c \in Conns, NEW s \in Connection, Set(c, s),
         \/ conn[c].pc \notin SlotSteps /\ s.pc \in SlotSteps /\ pending' = pending + 1
         \/ conn[c].pc \in SlotSteps /\ s.pc \notin SlotSteps /\ pending' = pending - 1
         \/ (conn[c].pc \in SlotSteps <=> s.pc \in SlotSteps) /\ pending' = pending
  PROVE  SlotsAreAccounted' /\ pending' \in Nat
<1>1. \A d \in Conns : conn'[d] = IF d = c THEN s ELSE conn[d]
  BY DEF Set, TerminalTypeOK
<1>2. pending = Cardinality(Slots) /\ pending \in Nat /\ IsFiniteSet(Slots)
  BY SlotsFinite DEF SlotsAreAccounted, Slots
<1>3. SlotsAreAccounted' <=> pending' = Cardinality(Slots')
  BY DEF SlotsAreAccounted, Slots
<1>4. CASE conn[c].pc \notin SlotSteps /\ s.pc \in SlotSteps /\ pending' = pending + 1
  <2>1. Slots' = Slots \cup {c} /\ c \notin Slots
    BY <1>1, <1>4 DEF Slots
  <2>2. Cardinality(Slots') = Cardinality(Slots) + 1
    BY <1>2, <2>1, FS_AddElement
  <2> QED
    BY <1>2, <1>3, <1>4, <2>2
<1>5. CASE conn[c].pc \in SlotSteps /\ s.pc \notin SlotSteps /\ pending' = pending - 1
  <2>1. Slots' = Slots \ {c} /\ c \in Slots
    BY <1>1, <1>5 DEF Slots
  <2>2. Cardinality(Slots') = Cardinality(Slots) - 1 /\ IsFiniteSet(Slots')
    BY <1>2, <2>1, FS_RemoveElement
  <2>3. Cardinality(Slots') \in Nat
    BY <2>2, FS_CardinalityType
  <2> QED
    BY <1>2, <1>3, <1>5, <2>2, <2>3
<1>6. CASE (conn[c].pc \in SlotSteps <=> s.pc \in SlotSteps) /\ pending' = pending
  <2>1. Slots' = Slots
    BY <1>1, <1>6 DEF Slots
  <2> QED
    BY <1>2, <1>3, <1>6, <2>1
<1> QED
  BY <1>4, <1>5, <1>6

-----------------------------------------------------------------------------
(* What one connection does to the others *)

\* A step that moves one connection keeps what holds of each, when it keeps what
\* holds of that one.
LEMMA OneMoves ==
  ASSUME PlacesAndSlots, NEW c \in Conns, NEW s \in Connection, Set(c, s),
         registry' \in {registry, registry \ {c}, registry \cup {c}},
         UNCHANGED <<alive, stop>>, pending' \in 0 .. PendingLimit, ConnSound(c)'
  PROVE  TerminalTypeOK' /\ AllSound'
<1>1. TerminalTypeOK'
  BY DEF PlacesAndSlots, TerminalTypeOK, Set
<1>2. ASSUME NEW d \in Conns, d # c PROVE ConnSound(d)'
  <2>1. /\ conn'[d] = conn[d] /\ stop' = stop
        /\ d \in registry' <=> d \in registry
    BY <1>2 DEF PlacesAndSlots, TerminalTypeOK, Set
  <2>2. ConnSound(d)
    BY DEF PlacesAndSlots, AllSound
  <2> QED
    BY <2>1, <2>2 DEF ConnSound
<1>3. AllSound'
  BY <1>2 DEF AllSound
<1> QED
  BY <1>1, <1>3

\* The same of a step that does not touch the registry and the slots.
LEMMA OneGoesOn ==
  ASSUME PlacesAndSlots, NEW c \in Conns, NEW s \in Connection, Set(c, s),
         conn[c].pc \in SlotSteps <=> s.pc \in SlotSteps,
         UNCHANGED <<pending, registry, alive, stop>>, ConnSound(c)'
  PROVE  PlacesAndSlots'
<1>1. TerminalTypeOK' /\ AllSound'
  BY OneMoves DEF PlacesAndSlots, TerminalTypeOK
<1>2. SlotsAreAccounted'
  BY SlotsFollow DEF PlacesAndSlots
<1>3. PlacesWithinLimits'
  BY FewerPlaces DEF PlacesAndSlots
<1> QED
  BY <1>1, <1>2, <1>3 DEF PlacesAndSlots

\* The same of the clean-up.
LEMMA OneCleansUp ==
  ASSUME PlacesAndSlots, NEW c \in Conns, conn[c].state \in {"opening", "ready"},
         CleanUp(c), UNCHANGED <<pending, alive, stop>>
  PROVE  PlacesAndSlots'
<1> DEFINE s == Cleaned(conn[c])
<1>1. conn[c] \in Connection /\ ConnSound(c)
  BY DEF PlacesAndSlots, AllSound, TerminalTypeOK
<1>2. /\ s \in Connection /\ s.pc = conn[c].pc /\ s.state = "closed"
      /\ s.shell # "live" /\ s.socket # "open"
  BY <1>1, CleanedConn
<1>3. Set(c, s) /\ registry' = registry \ {c}
  BY DEF CleanUp
<1> HIDE DEF s
<1>4. conn'[c] = s
  BY <1>3 DEF Set, PlacesAndSlots, TerminalTypeOK
<1>5. ConnSound(c)'
  BY <1>1, <1>2, <1>3, <1>4 DEF ConnSound
<1>6. TerminalTypeOK' /\ AllSound'
  BY <1>2, <1>3, <1>5, OneMoves DEF PlacesAndSlots, TerminalTypeOK
<1>7. SlotsAreAccounted'
  BY <1>2, <1>3, SlotsFollow DEF PlacesAndSlots
<1>8. PlacesWithinLimits'
  BY <1>3, FewerPlaces DEF PlacesAndSlots
<1> QED
  BY <1>6, <1>7, <1>8 DEF PlacesAndSlots

\* The socket of a connection without session goes.
LEMMA OneSocketGoes ==
  ASSUME PlacesAndSlots, NEW c \in Conns, NEW s \in Connection, Set(c, s),
         conn[c].state \notin {"opening", "ready"},
         s.socket = "closed", s.state = conn[c].state, s.shell = conn[c].shell,
         s.late = conn[c].late, s.pc = "done" \/ (s.pc = conn[c].pc /\ s.pc # "greeting"),
         UNCHANGED <<registry, alive, stop>>,
         \/ conn[c].pc \in SlotSteps /\ s.pc = "done" /\ pending' = pending - 1
         \/ (conn[c].pc \notin SlotSteps \/ s.pc = conn[c].pc) /\ pending' = pending
  PROVE  PlacesAndSlots'
<1>1. /\ conn[c] \in Connection /\ ConnSound(c)
      /\ PendingLimit \in Nat /\ pending \in 0 .. PendingLimit
  BY TerminalAssumption DEF PlacesAndSlots, AllSound, TerminalTypeOK
<1>2. conn'[c] = s
  BY DEF Set, PlacesAndSlots, TerminalTypeOK
<1>3. ConnSound(c)'
  BY <1>1, <1>2 DEF ConnSound
<1>4. "done" \notin SlotSteps
  BY DEF SlotSteps
<1>5. SlotsAreAccounted' /\ pending' \in Nat
  BY <1>4, SlotsFollow DEF PlacesAndSlots
<1>6. pending' \in 0 .. PendingLimit
  BY <1>1, <1>5
<1>7. TerminalTypeOK' /\ AllSound'
  BY <1>3, <1>6, OneMoves
<1>8. PlacesWithinLimits'
  BY FewerPlaces DEF PlacesAndSlots
<1> QED
  BY <1>5, <1>7, <1>8 DEF PlacesAndSlots

\* A socket that is closed before a session was opened on it.
LEMMA UpgradeEnds ==
  ASSUME PlacesAndSlots, NEW c \in Conns, conn[c].state = "new",
         Set(c, [conn[c] EXCEPT !.pc = "done", !.socket = "closed"]),
         UNCHANGED <<registry, alive, stop>>,
         \/ conn[c].pc \in SlotSteps /\ pending' = pending - 1
         \/ conn[c].pc \notin SlotSteps /\ pending' = pending
  PROVE  PlacesAndSlots'
<1> DEFINE s == [conn[c] EXCEPT !.pc = "done", !.socket = "closed"]
<1>1. conn[c] \in Connection
  BY DEF PlacesAndSlots, TerminalTypeOK
<1>2. /\ s \in Connection /\ s.pc = "done" /\ s.socket = "closed" /\ s.state = conn[c].state
      /\ s.shell = conn[c].shell /\ s.late = conn[c].late
  BY <1>1 DEF Connection, Steps
<1>3. Set(c, s)
  OBVIOUS
<1> HIDE DEF s
<1> QED
  BY <1>2, <1>3, OneSocketGoes

-----------------------------------------------------------------------------
(* The upgrade *)

LEMMA UpgradeKeeps ==
  ASSUME PlacesAndSlots, NEW c \in Conns, Upgrade(c)
  PROVE  PlacesAndSlots'
<1>1. conn[c] \in Connection /\ ConnSound(c) /\ pending \in 0 .. PendingLimit
  BY DEF PlacesAndSlots, AllSound, TerminalTypeOK
<1>2. CASE stop # "no" \/ pending >= PendingLimit
  <2>1. Set(c, [conn[c] EXCEPT !.pc = "done", !.socket = "closed"]) /\ pending' = pending
    BY <1>2 DEF Upgrade
  <2>2. conn[c].pc = "none" /\ "none" \notin SlotSteps
    BY DEF Upgrade, ConnAt, SlotSteps
  <2>3. conn[c].state = "new"
    BY <1>1, <2>2 DEF ConnSound
  <2> QED
    BY <2>1, <2>2, <2>3, UpgradeEnds DEF Upgrade
<1>3. CASE ~ (stop # "no" \/ pending >= PendingLimit)
  <2> DEFINE s == [conn[c] EXCEPT !.pc = "lookup"]
  <2>1. /\ s \in Connection /\ s.pc = "lookup" /\ s.socket = conn[c].socket
        /\ s.state = conn[c].state /\ s.shell = conn[c].shell
    BY <1>1 DEF Connection, Steps
  <2>2. Set(c, s) /\ pending' = pending + 1 /\ conn[c].pc = "none"
    BY <1>3 DEF Upgrade, ConnAt
  <2> HIDE DEF s
  <2>3. conn'[c] = s /\ UNCHANGED <<registry, alive, stop>>
    BY <2>2 DEF Upgrade, Set, PlacesAndSlots, TerminalTypeOK
  <2>4. ConnSound(c)'
    BY <1>1, <1>3, <2>1, <2>2, <2>3 DEF ConnSound
  <2>5. SlotsAreAccounted' /\ pending' \in Nat
    BY <2>1, <2>2, SlotsFollow DEF PlacesAndSlots, SlotSteps
  <2>6. pending' \in 0 .. PendingLimit
    BY <1>1, <1>3, <2>2, TerminalAssumption
  <2>7. TerminalTypeOK' /\ AllSound'
    BY <2>1, <2>2, <2>3, <2>4, <2>6, OneMoves
  <2>8. PlacesWithinLimits'
    BY <2>3, FewerPlaces DEF PlacesAndSlots
  <2> QED
    BY <2>5, <2>7, <2>8 DEF PlacesAndSlots
<1> QED
  BY <1>2, <1>3

LEMMA LookedUpKeeps ==
  ASSUME PlacesAndSlots, NEW c \in Conns, LookedUp(c)
  PROVE  PlacesAndSlots'
<1>1. conn[c] \in Connection /\ ConnSound(c) /\ pending \in Nat /\ conn[c].pc = "lookup"
  BY TerminalAssumption DEF PlacesAndSlots, AllSound, TerminalTypeOK, LookedUp, ConnAt
<1>2. CASE Set(c, [conn[c] EXCEPT !.pc = "done", !.socket = "closed"]) /\ pending' = pending - 1
  <2>1. conn[c].pc \in SlotSteps /\ conn[c].state = "new"
    BY <1>1 DEF SlotSteps, ConnSound
  <2> QED
    BY <1>2, <2>1, UpgradeEnds DEF LookedUp
<1>3. CASE /\ stop = "no" /\ pending' = pending
           /\ Set(c, [conn[c] EXCEPT !.pc = IF conn[c].socket = "open"
                                            THEN "greeting" ELSE "stranded"])
  <2> DEFINE s == [conn[c] EXCEPT !.pc = IF conn[c].socket = "open"
                                         THEN "greeting" ELSE "stranded"]
  <2>1. /\ s \in Connection /\ s.pc \in {"greeting", "stranded"}
        /\ s.pc = "greeting" => conn[c].socket = "open"
        /\ s.socket = conn[c].socket
        /\ s.state = conn[c].state /\ s.shell = conn[c].shell
    BY <1>1 DEF Connection, Steps
  <2>2. Set(c, s)
    BY <1>3
  <2> HIDE DEF s
  <2>3. conn'[c] = s /\ UNCHANGED <<registry, alive, stop, pending>>
    BY <1>3, <2>2 DEF LookedUp, Set, PlacesAndSlots, TerminalTypeOK
  <2>4. ConnSound(c)'
    BY <1>1, <1>3, <2>1, <2>3 DEF ConnSound
  <2> QED
    BY <1>1, <2>1, <2>2, <2>3, <2>4, OneGoesOn DEF SlotSteps
<1> QED
  BY <1>2, <1>3 DEF LookedUp

LEMMA BadGreetingKeeps ==
  ASSUME PlacesAndSlots, NEW c \in Conns, BadGreeting(c)
  PROVE  PlacesAndSlots'
<1>1. /\ ConnSound(c) /\ pending \in Nat /\ conn[c].pc = "greeting"
      /\ Set(c, [conn[c] EXCEPT !.pc = "done", !.socket = "closed"])
      /\ pending' = pending - 1 /\ UNCHANGED <<registry, alive, stop>>
  BY TerminalAssumption DEF PlacesAndSlots, AllSound, TerminalTypeOK, BadGreeting, ConnAt
<1>2. conn[c].pc \in SlotSteps /\ conn[c].state = "new"
  BY <1>1 DEF SlotSteps, ConnSound
<1> QED
  BY <1>1, <1>2, UpgradeEnds

LEMMA GreetingKeeps ==
  ASSUME PlacesAndSlots, NEW c \in Conns, Greeting(c)
  PROVE  PlacesAndSlots'
<1> DEFINE s == [conn[c] EXCEPT !.pc = "requested", !.state = "opening"]
<1>1. conn[c] \in Connection /\ ConnSound(c) /\ pending \in 0 .. PendingLimit
  BY DEF PlacesAndSlots, AllSound, TerminalTypeOK
<1>2. /\ s \in Connection /\ s.pc = "requested" /\ s.state = "opening"
      /\ s.socket = conn[c].socket /\ s.shell = conn[c].shell
  BY <1>1 DEF Connection, Steps
<1>3. /\ conn[c].pc = "greeting" /\ Set(c, s) /\ pending' = pending - 1
      /\ UNCHANGED <<registry, alive, stop>>
  BY DEF Greeting, ConnAt
<1> HIDE DEF s
<1>4. conn'[c] = s
  BY <1>3 DEF Set, PlacesAndSlots, TerminalTypeOK
<1>5. ConnSound(c)'
  BY <1>1, <1>2, <1>3, <1>4 DEF ConnSound
<1>6. SlotsAreAccounted' /\ pending' \in Nat
  BY <1>2, <1>3, SlotsFollow DEF PlacesAndSlots, SlotSteps
<1>7. pending' \in 0 .. PendingLimit
  BY <1>1, <1>3, <1>6, TerminalAssumption
<1>8. TerminalTypeOK' /\ AllSound'
  BY <1>2, <1>3, <1>5, <1>7, OneMoves
<1>9. PlacesWithinLimits'
  BY <1>3, FewerPlaces DEF PlacesAndSlots
<1> QED
  BY <1>6, <1>8, <1>9 DEF PlacesAndSlots

-----------------------------------------------------------------------------
(* The opening *)

LEMMA AuthenticateKeeps ==
  ASSUME PlacesAndSlots, NEW c \in Conns, Authenticate(c)
  PROVE  PlacesAndSlots'
<1> DEFINE k == Dash[c] \in alive
           s == [conn[c] EXCEPT !.pc = "auth", !.known = k]
<1>1. conn[c] \in Connection /\ ConnSound(c)
  BY DEF PlacesAndSlots, AllSound, TerminalTypeOK
<1>2. /\ s \in Connection /\ s.pc = "auth" /\ s.state = conn[c].state
      /\ s.socket = conn[c].socket /\ s.shell = conn[c].shell /\ s.late = conn[c].late
  <2>1. k \in BOOLEAN
    OBVIOUS
  <2> HIDE DEF k
  <2> QED
    BY <1>1, <2>1 DEF Connection, Steps
<1>3. conn[c].pc = "requested" /\ Set(c, s) /\ UNCHANGED <<pending, registry, alive, stop>>
  BY DEF Authenticate, ConnAt
<1> HIDE DEF s
<1>4. conn'[c] = s
  BY <1>3 DEF Set, PlacesAndSlots, TerminalTypeOK
<1>5. ConnSound(c)'
  BY <1>1, <1>2, <1>3, <1>4 DEF ConnSound
<1> QED
  BY <1>2, <1>3, <1>5, OneGoesOn DEF SlotSteps

LEMMA AdmitTerminalKeeps ==
  ASSUME PlacesAndSlots, NEW c \in Conns, AdmitTerminal(c)
  PROVE  PlacesAndSlots'
<1>1. /\ conn[c] \in Connection /\ ConnSound(c) /\ conn[c].pc = "auth"
      /\ UNCHANGED <<pending, alive, stop>>
  BY DEF PlacesAndSlots, AllSound, TerminalTypeOK, AdmitTerminal, ConnAt
<1>2. CASE ~ conn[c].known \/ Full(c)
  <2> DEFINE s == [conn[c] EXCEPT !.pc = "failing"]
  <2>1. /\ s \in Connection /\ s.pc = "failing" /\ s.state = conn[c].state
        /\ s.socket = conn[c].socket /\ s.shell = conn[c].shell /\ s.late = conn[c].late
    BY <1>1 DEF Connection, Steps
  <2>2. Set(c, s) /\ UNCHANGED registry
    BY <1>2 DEF AdmitTerminal
  <2> HIDE DEF s
  <2>3. conn'[c] = s
    BY <2>2 DEF Set, PlacesAndSlots, TerminalTypeOK
  <2>4. ConnSound(c)'
    BY <1>1, <2>1, <2>2, <2>3 DEF ConnSound
  <2> QED
    BY <1>1, <2>1, <2>2, <2>4, OneGoesOn DEF SlotSteps
<1>3. CASE conn[c].known /\ ~ Full(c)
  <2> DEFINE s == [conn[c] EXCEPT !.pc = "target", !.timer = TRUE,
                                  !.late = conn[c].state = "closed"]
  <2>1. /\ s \in Connection /\ s.pc = "target" /\ s.state = conn[c].state
        /\ s.socket = conn[c].socket /\ s.shell = conn[c].shell
        /\ s.late = (conn[c].state = "closed")
    BY <1>1 DEF Connection, Steps
  <2>2. Set(c, s) /\ registry' = registry \cup {c}
    BY <1>3 DEF AdmitTerminal
  <2> HIDE DEF s
  <2>3. conn'[c] = s
    BY <2>2 DEF Set, PlacesAndSlots, TerminalTypeOK
  <2>4. ConnSound(c)'
    BY <1>1, <2>1, <2>2, <2>3 DEF ConnSound
  <2>5. TerminalTypeOK' /\ AllSound'
    BY <1>1, <2>1, <2>2, <2>4, OneMoves DEF PlacesAndSlots, TerminalTypeOK
  <2>6. SlotsAreAccounted'
    BY <1>1, <2>1, <2>2, SlotsFollow DEF PlacesAndSlots, SlotSteps
  <2>7. PlacesWithinLimits'
    BY <1>3, <2>2, OneMorePlace DEF PlacesAndSlots
  <2> QED
    BY <2>5, <2>6, <2>7 DEF PlacesAndSlots
<1> QED
  BY <1>2, <1>3

LEMMA TargetKeeps ==
  ASSUME PlacesAndSlots, NEW c \in Conns, Target(c)
  PROVE  PlacesAndSlots'
<1>1. /\ conn[c] \in Connection /\ ConnSound(c) /\ conn[c].pc = "target"
      /\ UNCHANGED <<pending, registry, alive, stop>>
  BY DEF PlacesAndSlots, AllSound, TerminalTypeOK, Target, ConnAt
<1>2. PICK p \in {"failing", "done", "dialling"} :
        /\ Set(c, [conn[c] EXCEPT !.pc = p])
        /\ p = "dialling" => conn[c].state = "opening"
  BY DEF Target
<1> DEFINE s == [conn[c] EXCEPT !.pc = p]
<1>3. conn[c].state # "new"
  BY <1>1 DEF ConnSound
<1>4. /\ s \in Connection /\ s.pc = p /\ s.state = conn[c].state
      /\ s.socket = conn[c].socket /\ s.shell = conn[c].shell /\ s.late = conn[c].late
  BY <1>1 DEF Connection, Steps
<1>5. Set(c, s)
  BY <1>2
<1> HIDE DEF s
<1>6. conn'[c] = s
  BY <1>5 DEF Set, PlacesAndSlots, TerminalTypeOK
<1>7. ConnSound(c)'
  BY <1>1, <1>2, <1>3, <1>4, <1>6 DEF ConnSound
<1> QED
  BY <1>1, <1>4, <1>5, <1>7, OneGoesOn DEF SlotSteps

LEMMA DialledKeeps ==
  ASSUME PlacesAndSlots, NEW c \in Conns, Dialled(c)
  PROVE  PlacesAndSlots'
<1>1. /\ conn[c] \in Connection /\ ConnSound(c) /\ conn[c].pc = "dialling"
      /\ UNCHANGED <<pending, registry, alive, stop>>
  BY DEF PlacesAndSlots, AllSound, TerminalTypeOK, Dialled, ConnAt
<1>2. conn[c].state # "new"
  BY <1>1 DEF ConnSound
<1>3. CASE Set(c, [conn[c] EXCEPT !.pc = "failing"])
  <2> DEFINE s == [conn[c] EXCEPT !.pc = "failing"]
  <2>1. /\ s \in Connection /\ s.pc = "failing" /\ s.state = conn[c].state
        /\ s.socket = conn[c].socket /\ s.shell = conn[c].shell /\ s.late = conn[c].late
    BY <1>1 DEF Connection, Steps
  <2>2. Set(c, s)
    BY <1>3
  <2> HIDE DEF s
  <2>3. conn'[c] = s
    BY <2>2 DEF Set, PlacesAndSlots, TerminalTypeOK
  <2>4. ConnSound(c)'
    BY <1>1, <1>2, <2>1, <2>3 DEF ConnSound
  <2> QED
    BY <1>1, <2>1, <2>2, <2>4, OneGoesOn DEF SlotSteps
<1>4. CASE /\ conn[c].state = "opening"
           /\ Set(c, [conn[c] EXCEPT !.pc = "opened", !.state = "ready",
                                     !.shell = "live", !.timer = FALSE])
  <2> DEFINE s == [conn[c] EXCEPT !.pc = "opened", !.state = "ready",
                                  !.shell = "live", !.timer = FALSE]
  <2>1. /\ s \in Connection /\ s.pc = "opened" /\ s.state = "ready"
        /\ s.socket = conn[c].socket /\ s.shell = "live" /\ s.late = conn[c].late
    BY <1>1 DEF Connection, Steps
  <2>2. Set(c, s)
    BY <1>4
  <2> HIDE DEF s
  <2>3. conn'[c] = s
    BY <2>2 DEF Set, PlacesAndSlots, TerminalTypeOK
  <2>4. ConnSound(c)'
    BY <1>1, <1>4, <2>1, <2>3 DEF ConnSound
  <2> QED
    BY <1>1, <2>1, <2>2, <2>4, OneGoesOn DEF SlotSteps
<1>5. CASE /\ conn[c].state # "opening"
           /\ Set(c, [conn[c] EXCEPT !.pc = "done", !.shell = "closed"])
  <2> DEFINE s == [conn[c] EXCEPT !.pc = "done", !.shell = "closed"]
  <2>1. /\ s \in Connection /\ s.pc = "done" /\ s.state = conn[c].state
        /\ s.socket = conn[c].socket /\ s.shell = "closed" /\ s.late = conn[c].late
    BY <1>1 DEF Connection, Steps
  <2>2. Set(c, s)
    BY <1>5
  <2> HIDE DEF s
  <2>3. conn'[c] = s
    BY <2>2 DEF Set, PlacesAndSlots, TerminalTypeOK
  <2>4. ConnSound(c)'
    BY <1>1, <1>2, <2>1, <2>3 DEF ConnSound
  <2> QED
    BY <1>1, <2>1, <2>2, <2>4, OneGoesOn DEF SlotSteps
<1> QED
  BY <1>3, <1>4, <1>5 DEF Dialled

LEMMA WireKeeps ==
  ASSUME PlacesAndSlots, NEW c \in Conns, Wire(c)
  PROVE  PlacesAndSlots'
<1> DEFINE s == [conn[c] EXCEPT !.pc = "running", !.polls = TRUE]
<1>1. conn[c] \in Connection /\ ConnSound(c)
  BY DEF PlacesAndSlots, AllSound, TerminalTypeOK
<1>2. /\ s \in Connection /\ s.pc = "running" /\ s.state = conn[c].state
      /\ s.socket = conn[c].socket /\ s.shell = conn[c].shell /\ s.late = conn[c].late
  BY <1>1 DEF Connection, Steps
<1>3. conn[c].pc = "opened" /\ Set(c, s) /\ UNCHANGED <<pending, registry, alive, stop>>
  BY DEF Wire, ConnAt
<1> HIDE DEF s
<1>4. conn'[c] = s
  BY <1>3 DEF Set, PlacesAndSlots, TerminalTypeOK
<1>5. ConnSound(c)'
  BY <1>1, <1>2, <1>3, <1>4 DEF ConnSound
<1> QED
  BY <1>2, <1>3, <1>5, OneGoesOn DEF SlotSteps

LEMMA FailOpenKeeps ==
  ASSUME PlacesAndSlots, NEW c \in Conns, FailOpen(c)
  PROVE  PlacesAndSlots'
<1> DEFINE s == [conn[c] EXCEPT !.pc = "done",
                                !.socket = IF @ = "open" THEN "closing" ELSE @]
<1>1. conn[c] \in Connection /\ ConnSound(c)
  BY DEF PlacesAndSlots, AllSound, TerminalTypeOK
<1>2. /\ s \in Connection /\ s.pc = "done" /\ s.state = conn[c].state
      /\ s.socket # "open" /\ s.shell = conn[c].shell /\ s.late = conn[c].late
      /\ conn[c].socket # "closed" => s.socket # "closed"
  BY <1>1 DEF Connection, Steps
<1>3. conn[c].pc = "failing" /\ Set(c, s) /\ UNCHANGED <<pending, registry, alive, stop>>
  BY DEF FailOpen, ConnAt
<1> HIDE DEF s
<1>4. conn'[c] = s
  BY <1>3 DEF Set, PlacesAndSlots, TerminalTypeOK
<1>5. ConnSound(c)'
  BY <1>1, <1>2, <1>3, <1>4 DEF ConnSound
<1> QED
  BY <1>2, <1>3, <1>5, OneGoesOn DEF SlotSteps

-----------------------------------------------------------------------------
(* The ends of a session *)

LEMMA SocketClosedKeeps ==
  ASSUME PlacesAndSlots, NEW c \in Conns, SocketClosed(c)
  PROVE  PlacesAndSlots'
<1> DEFINE gone == [conn[c] EXCEPT !.socket = "closed"]
<1>1. /\ conn[c] \in Connection /\ ConnSound(c) /\ pending \in 0 .. PendingLimit
      /\ UNCHANGED <<alive, stop>>
  BY DEF PlacesAndSlots, AllSound, TerminalTypeOK, SocketClosed
<1>2. CASE conn[c].pc = "greeting"
  <2>1. /\ Set(c, [gone EXCEPT !.pc = "done"]) /\ pending' = pending - 1 /\ UNCHANGED registry
    BY <1>2 DEF SocketClosed, ConnAt
  <2>2. [gone EXCEPT !.pc = "done"] = [conn[c] EXCEPT !.pc = "done", !.socket = "closed"]
    BY <1>1 DEF Connection
  <2>3. conn[c].pc \in SlotSteps /\ conn[c].state = "new"
    BY <1>1, <1>2 DEF SlotSteps, ConnSound
  <2> HIDE DEF gone
  <2> QED
    BY <1>1, <2>1, <2>2, <2>3, UpgradeEnds
<1>3. CASE conn[c].pc # "greeting" /\ conn[c].state \in {"opening", "ready"}
  <2> DEFINE s == Cleaned(gone)
  <2>1. /\ gone \in Connection /\ gone.pc = conn[c].pc /\ gone.state = conn[c].state
        /\ gone.socket = "closed"
    BY <1>1 DEF Connection
  <2>2. Set(c, s) /\ registry' = registry \ {c} /\ pending' = pending
    BY <1>3 DEF SocketClosed, ConnAt
  <2> HIDE DEF gone
  <2>3. s \in Connection /\ s.pc = conn[c].pc /\ s.state = "closed" /\ s.shell # "live"
        /\ s.socket # "open"
    BY <1>3, <2>1, CleanedConn
  <2> HIDE DEF s
  <2>4. conn'[c] = s
    BY <2>2 DEF Set, PlacesAndSlots, TerminalTypeOK
  <2>5. ConnSound(c)'
    BY <1>1, <1>3, <2>2, <2>3, <2>4 DEF ConnSound
  <2>6. TerminalTypeOK' /\ AllSound'
    BY <1>1, <2>2, <2>3, <2>5, OneMoves
  <2>7. SlotsAreAccounted'
    BY <2>2, <2>3, SlotsFollow DEF PlacesAndSlots
  <2>8. PlacesWithinLimits'
    BY <2>2, FewerPlaces DEF PlacesAndSlots
  <2> QED
    BY <2>6, <2>7, <2>8 DEF PlacesAndSlots
<1>4. CASE conn[c].pc # "greeting" /\ conn[c].state \notin {"opening", "ready"}
  <2>1. Set(c, gone) /\ UNCHANGED <<pending, registry>>
    BY <1>4 DEF SocketClosed, ConnAt
  <2>2. /\ gone \in Connection /\ gone.pc = conn[c].pc /\ gone.socket = "closed"
        /\ gone.state = conn[c].state /\ gone.shell = conn[c].shell
        /\ gone.late = conn[c].late
    BY <1>1 DEF Connection
  <2> HIDE DEF gone
  <2> QED
    BY <1>1, <1>4, <2>1, <2>2, OneSocketGoes
<1> QED
  BY <1>2, <1>3, <1>4

LEMMA CleanUpKeeps ==
  ASSUME PlacesAndSlots, NEW c \in Conns,
         OpenTimeout(c) \/ SessionEnds(c) \/ LifetimeOver(c) \/ RevocationPoll(c)
  PROVE  PlacesAndSlots'
<1>1. conn[c].state \in {"opening", "ready"} /\ CleanUp(c) /\ UNCHANGED <<pending, alive, stop>>
  BY DEF OpenTimeout, SessionEnds, LifetimeOver, RevocationPoll
<1> QED
  BY <1>1, OneCleansUp

LEMMA RevokeKeeps ==
  ASSUME PlacesAndSlots, NEW d \in Dashes, Revoke(d)
  PROVE  PlacesAndSlots'
BY DEF PlacesAndSlots, TerminalTypeOK, AllSound, ConnSound, PlacesWithinLimits,
       SlotsAreAccounted, Revoke

-----------------------------------------------------------------------------
(* The shutdown *)

\* Every connection moves, none to another step of its upgrade.
LEMMA AllMove ==
  ASSUME PlacesAndSlots, conn' \in [Conns -> Connection],
         \A c \in Conns : conn'[c].pc = conn[c].pc /\ ConnSound(c)',
         registry' \subseteq registry, UNCHANGED <<pending, alive>>,
         stop' \in {"no", "closing", "done"}
  PROVE  PlacesAndSlots'
<1>1. TerminalTypeOK'
  BY DEF PlacesAndSlots, TerminalTypeOK
<1>2. AllSound'
  BY DEF AllSound
<1>3. PlacesWithinLimits'
  BY FewerPlaces DEF PlacesAndSlots
<1>4. Slots' = Slots
  BY DEF Slots
<1>5. SlotsAreAccounted'
  BY <1>4 DEF PlacesAndSlots, SlotsAreAccounted, Slots
<1> QED
  BY <1>1, <1>2, <1>3, <1>5 DEF PlacesAndSlots

LEMMA ShutDownKeeps ==
  ASSUME PlacesAndSlots, ShutDown
  PROVE  PlacesAndSlots'
<1>1. registry' = {} /\ UNCHANGED <<pending, alive>> /\ stop' = "closing"
  BY DEF ShutDown
<1>2. ASSUME NEW c \in Conns
      PROVE  conn'[c] \in Connection /\ conn'[c].pc = conn[c].pc /\ ConnSound(c)'
  <2>1. conn[c] \in Connection /\ ConnSound(c)
    BY DEF PlacesAndSlots, AllSound, TerminalTypeOK
  <2>2. CASE c \in registry
    <3> DEFINE s == Cleaned(conn[c])
    <3>1. conn'[c] = s
      BY <2>2 DEF ShutDown
    <3>2. /\ s \in Connection /\ s.pc = conn[c].pc /\ s.state = "closed"
          /\ s.shell # "live"
      BY <2>1, CleanedConn DEF ConnSound
    <3> HIDE DEF s
    <3> QED
      BY <1>1, <2>1, <2>2, <3>1, <3>2 DEF ConnSound
  <2>3. CASE c \notin registry /\ conn[c].pc = "lookup"
    <3> DEFINE s == [conn[c] EXCEPT !.socket = "closed"]
    <3>1. conn'[c] = s
      BY <2>3 DEF ShutDown, ConnAt
    <3>2. /\ s \in Connection /\ s.pc = conn[c].pc /\ s.state = conn[c].state
          /\ s.shell = conn[c].shell
      BY <2>1 DEF Connection
    <3> HIDE DEF s
    <3> QED
      BY <1>1, <2>1, <2>3, <3>1, <3>2 DEF ConnSound
  <2>4. CASE c \notin registry /\ conn[c].pc # "lookup"
    <3>1. conn'[c] = conn[c]
      BY <2>4 DEF ShutDown, ConnAt
    <3> QED
      BY <1>1, <2>1, <2>4, <3>1 DEF ConnSound
  <2> QED
    BY <2>2, <2>3, <2>4
<1>3. conn' \in [Conns -> Connection]
  BY <1>2 DEF ShutDown
<1> QED
  BY <1>1, <1>2, <1>3, AllMove

LEMMA CloseClientsKeeps ==
  ASSUME PlacesAndSlots, CloseClients
  PROVE  PlacesAndSlots'
<1>1. UNCHANGED <<pending, registry, alive>> /\ stop' = "done"
  BY DEF CloseClients
<1>2. ASSUME NEW c \in Conns
      PROVE  conn'[c] \in Connection /\ conn'[c].pc = conn[c].pc /\ ConnSound(c)'
  <2>1. conn[c] \in Connection /\ ConnSound(c)
    BY DEF PlacesAndSlots, AllSound, TerminalTypeOK
  <2>2. CASE conn[c].pc = "none" \/ conn[c].socket # "open"
    <3>1. conn'[c] = conn[c]
      BY <2>2 DEF CloseClients, ConnAt
    <3> QED
      BY <1>1, <2>1, <2>2, <3>1 DEF ConnSound
  <2>3. CASE ~ (conn[c].pc = "none" \/ conn[c].socket # "open")
    <3> DEFINE s == [conn[c] EXCEPT !.socket = "closing"]
    <3>1. conn'[c] = s
      BY <2>3 DEF CloseClients, ConnAt
    <3>2. /\ s \in Connection /\ s.pc = conn[c].pc /\ s.state = conn[c].state
          /\ s.shell = conn[c].shell /\ s.socket = "closing" /\ s.late = conn[c].late
      BY <2>1 DEF Connection
    <3> HIDE DEF s
    <3> QED
      BY <1>1, <2>1, <2>3, <3>1, <3>2 DEF ConnSound
  <2> QED
    BY <2>2, <2>3
<1>3. conn' \in [Conns -> Connection]
  BY <1>2 DEF CloseClients
<1> QED
  BY <1>1, <1>2, <1>3, AllMove

-----------------------------------------------------------------------------
(* The invariant *)

LEMMA InitHolds == TInit => PlacesAndSlots
<1> SUFFICES ASSUME TInit PROVE PlacesAndSlots
  OBVIOUS
<1>1. Fresh \in Connection /\ Fresh.pc = "none" /\ Fresh.state = "new"
      /\ Fresh.shell = "none" /\ Fresh.socket = "open"
  BY DEF Fresh, Connection, Steps
<1>2. TerminalTypeOK
  BY <1>1, TerminalAssumption DEF TInit, TerminalTypeOK
<1>3. AllSound
  BY <1>1 DEF TInit, AllSound, ConnSound
<1>4. PlacesWithinLimits
  <2>1. Cardinality({}) = 0
    BY FS_EmptySet
  <2>2. \A c \in Conns : /\ { r \in registry : Dash[r] = Dash[c] } = {}
                         /\ { r \in registry : Host[r] = Host[c] } = {}
    BY DEF TInit
  <2> QED
    BY <2>1, <2>2, TerminalAssumption DEF TInit, PlacesWithinLimits
<1>5. SlotsAreAccounted
  <2>1. { c \in Conns : conn[c].pc \in SlotSteps } = {}
    BY <1>1 DEF TInit, SlotSteps
  <2> QED
    BY <2>1, FS_EmptySet DEF TInit, SlotsAreAccounted
<1> QED
  BY <1>2, <1>3, <1>4, <1>5 DEF PlacesAndSlots

LEMMA StepKeeps == PlacesAndSlots /\ [TNext]_tvars => PlacesAndSlots'
<1> SUFFICES ASSUME PlacesAndSlots, [TNext]_tvars PROVE PlacesAndSlots'
  OBVIOUS
<1>1. ASSUME NEW c \in Conns, ConnStep(c) PROVE PlacesAndSlots'
  BY <1>1, UpgradeKeeps, LookedUpKeeps, BadGreetingKeeps, GreetingKeeps, AuthenticateKeeps,
     AdmitTerminalKeeps, TargetKeeps, DialledKeeps, WireKeeps, FailOpenKeeps,
     SocketClosedKeeps, CleanUpKeeps DEF ConnStep
<1>2. CASE UNCHANGED tvars
  BY <1>2 DEF tvars, PlacesAndSlots, TerminalTypeOK, AllSound, ConnSound, PlacesWithinLimits,
              SlotsAreAccounted
<1> QED
  BY <1>1, <1>2, RevokeKeeps, ShutDownKeeps, CloseClientsKeeps DEF TNext, ConnStep

-----------------------------------------------------------------------------
(* The properties *)

\* Shells are of listed sessions, so they are within the limits of the list.
LEMMA ShellsCounted == PlacesAndSlots => ShellsWithinLimits
<1> SUFFICES ASSUME PlacesAndSlots PROVE ShellsWithinLimits
  OBVIOUS
<1>1. ASSUME NEW S, NEW R \in SUBSET registry, NEW n \in Nat, Cardinality(R) <= n,
             S \in SUBSET Conns, \A c \in S \cap registry : c \in R
      PROVE  Shells(S) <= n
  <2> DEFINE L == { c \in S : conn[c].shell = "live" }
  <2>1. L \subseteq R
    BY <1>1 DEF PlacesAndSlots, AllSound, ConnSound
  <2>2. IsFiniteSet(R)
    BY RegistryFinite, FS_Subset DEF PlacesAndSlots
  <2> HIDE DEF L
  <2>3. Cardinality(L) <= Cardinality(R) /\ Cardinality(L) \in Nat /\ Cardinality(R) \in Nat
    BY <2>1, <2>2, FS_Subset, FS_CardinalityType
  <2>4. Cardinality(L) <= n
    BY <1>1, <2>3
  <2> QED
    BY <2>4 DEF Shells, L
<1>2. {GlobalLimit, DashLimit, HostLimit} \subseteq Nat
  BY TerminalAssumption
<1>3. Shells(Conns) <= GlobalLimit
  BY <1>1, <1>2 DEF PlacesAndSlots, PlacesWithinLimits
<1>4. ASSUME NEW c \in Conns
      PROVE  /\ Shells({ x \in Conns : Dash[x] = Dash[c] }) <= DashLimit
             /\ Shells({ x \in Conns : Host[x] = Host[c] }) <= HostLimit
  <2>1. Shells({ x \in Conns : Dash[x] = Dash[c] }) <= DashLimit
    <3> DEFINE R == { r \in registry : Dash[r] = Dash[c] }
               S == { x \in Conns : Dash[x] = Dash[c] }
    <3>1. /\ R \in SUBSET registry /\ S \in SUBSET Conns
          /\ \A x \in S \cap registry : x \in R
          /\ Cardinality(R) <= DashLimit
      BY DEF PlacesAndSlots, PlacesWithinLimits
    <3> HIDE DEF R, S
    <3>2. Shells(S) <= DashLimit
      BY <1>1, <1>2, <3>1
    <3> QED
      BY <3>2 DEF S
  <2>2. Shells({ x \in Conns : Host[x] = Host[c] }) <= HostLimit
    <3> DEFINE R == { r \in registry : Host[r] = Host[c] }
               S == { x \in Conns : Host[x] = Host[c] }
    <3>1. /\ R \in SUBSET registry /\ S \in SUBSET Conns
          /\ \A x \in S \cap registry : x \in R
          /\ Cardinality(R) <= HostLimit
      BY DEF PlacesAndSlots, PlacesWithinLimits
    <3> HIDE DEF R, S
    <3>2. Shells(S) <= HostLimit
      BY <1>1, <1>2, <3>1
    <3> QED
      BY <3>2 DEF S
  <2> QED
    BY <2>1, <2>2
<1> QED
  BY <1>3, <1>4 DEF ShellsWithinLimits

\* However openings interleave with each other's awaits and clean-ups, with
\* revocations and the shutdown: shells are within the limits, none is left
\* without a listed session and an unclosed socket, the counter of slots is
\* right, and only a session admitted after its own clean-up keeps a place.
THEOREM ShellsStayAccounted == TSpec => []ShellsAreAccounted
<1>1. TInit => PlacesAndSlots
  BY InitHolds
<1>2. PlacesAndSlots /\ [TNext]_tvars => PlacesAndSlots'
  BY StepKeeps
<1>3. PlacesAndSlots => ShellsAreAccounted
  <2> SUFFICES ASSUME PlacesAndSlots PROVE ShellsAreAccounted
    OBVIOUS
  <2>1. OpeningsAreSound /\ NoOrphanShell /\ OnlyLateKeepPlaces
    <3>1. \A c \in Conns : ConnSound(c)
      BY DEF PlacesAndSlots, AllSound
    <3>2. OpeningsAreSound
      BY <3>1 DEF ConnSound, OpeningsAreSound
    <3>3. NoOrphanShell
      BY <3>1 DEF ConnSound, NoOrphanShell
    <3>4. OnlyLateKeepPlaces
      BY <3>1 DEF PlacesAndSlots, TerminalTypeOK, ConnSound, OnlyLateKeepPlaces
    <3> QED
      BY <3>2, <3>3, <3>4
  <2>2. StopLeavesNoShell
    <3> SUFFICES ASSUME stop = "done", NEW c \in Conns, conn[c].shell = "live"
                 PROVE  conn[c].socket = "closing"
      BY DEF StopLeavesNoShell
    <3>1. ConnSound(c) /\ conn[c] \in Connection
      BY DEF PlacesAndSlots, AllSound, TerminalTypeOK
    <3> QED
      BY <3>1 DEF ConnSound, Connection
  <2> QED
    BY <2>1, <2>2, ShellsCounted DEF PlacesAndSlots, ShellsAreAccounted
<1> QED
  BY <1>1, <1>2, <1>3, PTL DEF TSpec

-----------------------------------------------------------------------------
(* The data of one terminal: the invariant *)

Output == [ queue : Seq(Chunk), sending : Seq(Chunk), paused : BOOLEAN, held : BOOLEAN,
            slow : BOOLEAN, closing : BOOLEAN, drainTimer : BOOLEAN, upto : Nat ]

Incoming == [queue : Seq(1 .. MaxIn), held : 0 .. Window, blocked : BOOLEAN, taken : Nat]

\* What the socket holds and what waits for it.
Line(o) == o.sending \o o.queue

\* Each chunk begins where the one before it ends.
Placed(s) ==
  /\ \A i \in 1 .. Len(s) : Size(s[i]) \in Sizes
  /\ \A i, j \in 1 .. Len(s) : i < j => s[i].upto <= s[j].from
  /\ \A i \in 1 .. Len(s) - 1 : s[i + 1].from = s[i].upto

\* The output at any moment of a handler.
Moving(o) ==
  /\ o \in Output
  /\ Placed(Line(o))
  /\ Line(o) # <<>> => Line(o)[Len(Line(o))].upto = o.upto
  /\ Bytes(o.queue) <= High /\ Bytes(o.sending) <= Low + High
  /\ o.paused => o.held

\* The output between handlers: what waits, waits for a channel that is paused.
OutSound(o) == Moving(o) /\ (o.queue # <<>> => o.held)

\* p, in order, and d are the first m chunks of the channel.
Whole(p, d, m) ==
  /\ \A i, j \in 1 .. Len(p) : i < j => p[i].id < p[j].id
  /\ \A i \in 1 .. Len(p) : p[i].id <= m
  /\ \A c \in d : c.id <= m
  /\ \A n \in 1 .. m : (\E i \in 1 .. Len(p) : p[i].id = n) \/ (\E c \in d : c.id = n)
  /\ IsFiniteSet(d) /\ Len(p) + Cardinality(d) = m

InSound ==
  /\ in \in Incoming
  /\ Len(in.queue) <= InHigh + 1
  /\ live = "ready" => Len(in.queue) <= InHigh
  /\ live = "ready" /\ in.blocked => in.held > 0 \/ missed

\* What every step keeps.
FlowInv ==
  /\ live \in { "ready", "channel_closed", "drain_timeout", "slow_consumer",
                "socket_error", "input_overflow" }
  /\ wired \in BOOLEAN /\ missed \in BOOLEAN
  /\ made \in 0 .. MaxOut /\ typed \in 0 .. MaxIn
  /\ got \in Seq(Chunk) /\ \A i \in 1 .. Len(got) : Size(got[i]) \in Sizes
  /\ \A c \in dropped : c \in Chunk /\ Size(c) \in Sizes /\ Size(c) > High
  /\ OutSound(out) /\ Whole(got \o Line(out), dropped, made)
  /\ live = "channel_closed" => Line(out) = <<>>
  /\ InSound

\* Parts of a sequence that are joined again are the sequence.
LEMMA Joined ==
  ASSUME NEW S, NEW s \in Seq(S), NEW n \in 0 .. Len(s)
  PROVE  SubSeq(s, 1, n) \o SubSeq(s, n + 1, Len(s)) = s
<1>1. Len(s) \in Nat /\ 1 \in 1 .. Len(s) + 1 /\ n \in 1 - 1 .. Len(s) /\ Len(s) \in n .. Len(s)
  BY LenProperties
<1> QED
  BY <1>1, ConcatAdjacentSubSeq, SubSeqFull

\* What is under way and what waits are the two parts of the line.
LEMMA LineParts ==
  ASSUME NEW a \in Seq(Chunk), NEW b \in Seq(Chunk)
  PROVE  /\ a \o b \in Seq(Chunk) /\ Len(a \o b) = Len(a) + Len(b)
         /\ Len(a) \in Nat /\ Len(b) \in Nat
         /\ \A i \in 1 .. Len(a) : (a \o b)[i] = a[i]
         /\ \A i \in 1 .. Len(b) : (a \o b)[Len(a) + i] = b[i]
<1>1. Len(a) \in Nat /\ Len(b) \in Nat
  BY LenProperties
<1>2. /\ a \o b \in Seq(Chunk) /\ Len(a \o b) = Len(a) + Len(b)
      /\ \A i \in 1 .. Len(a) + Len(b) : (a \o b)[i] = IF i <= Len(a) THEN a[i] ELSE b[i - Len(a)]
  BY ConcatProperties
<1>3. ASSUME NEW i \in 1 .. Len(b) PROVE (a \o b)[Len(a) + i] = b[i]
  <2>1. Len(a) + i \in 1 .. Len(a) + Len(b) /\ ~ (Len(a) + i <= Len(a))
        /\ Len(a) + i - Len(a) = i
    BY <1>1
  <2> QED
    BY <1>2, <2>1
<1>4. ASSUME NEW i \in 1 .. Len(a) PROVE (a \o b)[i] = a[i]
  <2>1. i \in 1 .. Len(a) + Len(b) /\ i <= Len(a)
    BY <1>1
  <2> QED
    BY <1>2, <2>1
<1> QED
  BY <1>1, <1>2, <1>3, <1>4

\* The last element of a sequence is the head of what is left when the rest is gone;
\* the places of a chunk are numbers.
LEMMA ChunkAt ==
  ASSUME NEW s \in Seq(Chunk), NEW i \in 1 .. Len(s)
  PROVE  s[i] \in Chunk /\ s[i].from \in Nat /\ s[i].upto \in Nat /\ s[i].id \in 1 .. MaxOut
<1>1. s[i] \in Chunk
  BY ElementOfSeq
<1> QED
  BY <1>1 DEF Chunk

\* A prefix and the rest of a sequence, element by element.
LEMMA Cut ==
  ASSUME NEW S, NEW s \in Seq(S), NEW k \in 0 .. Len(s)
  PROVE  /\ SubSeq(s, 1, k) \in Seq(S) /\ Len(SubSeq(s, 1, k)) = k
         /\ \A i \in 1 .. k : SubSeq(s, 1, k)[i] = s[i]
         /\ SubSeq(s, k + 1, Len(s)) \in Seq(S)
         /\ Len(SubSeq(s, k + 1, Len(s))) = Len(s) - k
         /\ \A i \in 1 .. Len(s) - k : SubSeq(s, k + 1, Len(s))[i] = s[k + i]
<1>0. Len(s) \in Nat /\ k \in Nat /\ k <= Len(s)
  BY LenProperties
<1>1. \A i \in 1 .. Len(s) : s[i] \in S
  BY ElementOfSeq
<1>2. (\A i \in 1 .. k : s[i] \in S) /\ (\A i \in k + 1 .. Len(s) : s[i] \in S)
  BY <1>0, <1>1
<1>3. /\ SubSeq(s, 1, k) \in Seq(S)
      /\ Len(SubSeq(s, 1, k)) = IF 1 <= k THEN k - 1 + 1 ELSE 0
      /\ \A i \in 1 .. k - 1 + 1 : SubSeq(s, 1, k)[i] = s[1 + i - 1]
  BY <1>0, <1>2, SubSeqProperties
<1>4. /\ SubSeq(s, k + 1, Len(s)) \in Seq(S)
      /\ Len(SubSeq(s, k + 1, Len(s))) = IF k + 1 <= Len(s) THEN Len(s) - (k + 1) + 1 ELSE 0
      /\ \A i \in 1 .. Len(s) - (k + 1) + 1 : SubSeq(s, k + 1, Len(s))[i] = s[k + 1 + i - 1]
  <2>1. k + 1 \in Int /\ Len(s) \in Int
    BY <1>0
  <2> QED
    BY <1>2, <2>1, SubSeqProperties
<1>5. ASSUME NEW i \in 1 .. k PROVE SubSeq(s, 1, k)[i] = s[i]
  <2>1. i \in 1 .. k - 1 + 1 /\ 1 + i - 1 = i
    BY <1>0
  <2> QED
    BY <1>3, <2>1
<1>6. ASSUME NEW i \in 1 .. Len(s) - k PROVE SubSeq(s, k + 1, Len(s))[i] = s[k + i]
  <2>1. i \in 1 .. Len(s) - (k + 1) + 1 /\ k + 1 + i - 1 = k + i
    BY <1>0
  <2> QED
    BY <1>4, <2>1
<1> QED
  BY <1>0, <1>3, <1>4, <1>5, <1>6

-----------------------------------------------------------------------------
(* The steps of flush *)

\* The k-th chunk that waits goes: the socket holds little enough before it.
Goes(o, k) == Bytes(o.sending) + Bytes(SubSeq(o.queue, 1, k - 1)) <= Low

\* What chunks hold is a number; of chunks whose places follow one another, the
\* later ones lie further on.
LEMMA BytesAreNumbers ==
  ASSUME NEW s \in Seq(Chunk)
  PROVE  /\ Bytes(s) \in Int
         /\ s # <<>> => /\ Len(s) \in Nat \ {0} /\ 1 \in 1 .. Len(s) /\ Len(s) \in 1 .. Len(s)
                        /\ Bytes(s) = s[Len(s)].upto - s[1].from
<1>1. CASE s = <<>>
  BY <1>1 DEF Bytes
<1>2. CASE s # <<>>
  <2>1. Len(s) \in Nat \ {0}
    BY <1>2, EmptySeq
  <2>2. 1 \in 1 .. Len(s) /\ Len(s) \in 1 .. Len(s)
    BY <2>1
  <2>3. s[Len(s)].upto \in Nat /\ s[1].from \in Nat
    BY <2>2, ChunkAt
  <2> QED
    BY <1>2, <2>1, <2>2, <2>3 DEF Bytes
<1> QED
  BY <1>1, <1>2

\* A later chunk lies further on than an earlier one.
LEMMA PlacedRises ==
  ASSUME NEW s \in Seq(Chunk), Placed(s), NEW i \in 1 .. Len(s), NEW j \in 1 .. Len(s), i <= j
  PROVE  /\ s[i].from <= s[j].from /\ s[i].upto <= s[j].upto /\ s[i].from < s[i].upto
         /\ s[i].from \in Nat /\ s[i].upto \in Nat /\ s[j].from \in Nat /\ s[j].upto \in Nat
<1>1. /\ s[i].from \in Nat /\ s[i].upto \in Nat /\ s[j].from \in Nat /\ s[j].upto \in Nat
  BY ChunkAt
<1>2. Size(s[i]) \in Nat \ {0} /\ Size(s[j]) \in Nat \ {0}
  BY FlowAssumption DEF Placed
<1>3. s[i].from < s[i].upto /\ s[j].from < s[j].upto
  BY <1>1, <1>2 DEF Size
<1>4. i = j \/ s[i].upto <= s[j].from
  <2>1. i = j \/ i < j
    BY LenProperties
  <2> QED
    BY <2>1 DEF Placed
<1> QED
  BY <1>1, <1>3, <1>4

\* The parts of chunks that follow one another follow one another.
LEMMA PlacedParts ==
  ASSUME NEW a \in Seq(Chunk), NEW b \in Seq(Chunk), Placed(a \o b)
  PROVE  /\ Placed(a) /\ Placed(b)
         /\ a # <<>> /\ b # <<>> => b[1].from = a[Len(a)].upto
<1> DEFINE n == Len(a)  m == Len(b)  l == a \o b
<1>1. /\ n \in Nat /\ m \in Nat /\ Len(l) = n + m
      /\ \A i \in 1 .. n : l[i] = a[i]
      /\ \A i \in 1 .. m : l[n + i] = b[i]
  BY LineParts
<1>0. /\ \A i \in 1 .. Len(l) : Size(l[i]) \in Sizes
      /\ \A i, j \in 1 .. Len(l) : i < j => l[i].upto <= l[j].from
      /\ \A i \in 1 .. Len(l) - 1 : l[i + 1].from = l[i].upto
  BY DEF Placed
<1>2. a # <<>> => n > 0
  BY EmptySeq
<1>3. b # <<>> => m > 0
  BY EmptySeq
<1> HIDE DEF n, m, l
<1>4. Placed(a)
  <2>1. ASSUME NEW i \in 1 .. n PROVE Size(a[i]) \in Sizes
    <3>1. i \in 1 .. Len(l)
      BY <1>1
    <3> QED
      BY <1>0, <1>1, <3>1
  <2>2. ASSUME NEW i \in 1 .. n, NEW j \in 1 .. n, i < j PROVE a[i].upto <= a[j].from
    <3>1. i \in 1 .. Len(l) /\ j \in 1 .. Len(l)
      BY <1>1
    <3> QED
      BY <1>0, <1>1, <2>2, <3>1
  <2>3. ASSUME NEW i \in 1 .. n - 1 PROVE a[i + 1].from = a[i].upto
    <3>1. i \in 1 .. Len(l) - 1 /\ i \in 1 .. n /\ i + 1 \in 1 .. n
      BY <1>1
    <3> QED
      BY <1>0, <1>1, <3>1
  <2> QED
    BY <2>1, <2>2, <2>3 DEF Placed, n
<1>5. Placed(b)
  <2>1. ASSUME NEW i \in 1 .. m PROVE Size(b[i]) \in Sizes
    <3>1. n + i \in 1 .. Len(l)
      BY <1>1
    <3> QED
      BY <1>0, <1>1, <3>1
  <2>2. ASSUME NEW i \in 1 .. m, NEW j \in 1 .. m, i < j PROVE b[i].upto <= b[j].from
    <3>1. n + i \in 1 .. Len(l) /\ n + j \in 1 .. Len(l) /\ n + i < n + j
      BY <1>1, <2>2
    <3>2. l[n + i].upto <= l[n + j].from
      BY <1>0, <3>1
    <3> QED
      BY <1>1, <3>2
  <2>3. ASSUME NEW i \in 1 .. m - 1 PROVE b[i + 1].from = b[i].upto
    <3>1. n + i \in 1 .. Len(l) - 1 /\ i \in 1 .. m /\ i + 1 \in 1 .. m /\ (n + i) + 1 = n + (i + 1)
      BY <1>1
    <3>2. l[(n + i) + 1].from = l[n + i].upto
      BY <1>0, <3>1
    <3> QED
      BY <1>1, <3>1, <3>2
  <2> QED
    BY <2>1, <2>2, <2>3 DEF Placed, m
<1>6. a # <<>> /\ b # <<>> => b[1].from = a[n].upto
  <2>1. HAVE a # <<>> /\ b # <<>>
  <2>2. n \in 1 .. n /\ 1 \in 1 .. m /\ n \in 1 .. Len(l) - 1
    BY <1>1, <1>2, <1>3, <2>1
  <2>3. l[n + 1].from = l[n].upto
    BY <1>0, <2>2
  <2> QED
    BY <1>1, <2>2, <2>3
<1> QED
  BY <1>4, <1>5, <1>6 DEF n

\* Fewer chunks, from either end, hold less.
LEMMA RestHoldsLess ==
  ASSUME NEW s \in Seq(Chunk), Placed(s), NEW k \in 0 .. Len(s), NEW h \in Nat, Bytes(s) <= h
  PROVE  Bytes(SubSeq(s, k + 1, Len(s))) <= h
<1> DEFINE b == SubSeq(s, k + 1, Len(s))
<1>1. /\ b \in Seq(Chunk) /\ Len(b) = Len(s) - k /\ Len(s) \in Nat /\ k \in Nat
      /\ \A i \in 1 .. Len(s) - k : b[i] = s[k + i]
  BY Cut, LenProperties
<1> HIDE DEF b
<1>2. CASE b = <<>>
  BY <1>2 DEF Bytes, b
<1>3. CASE b # <<>>
  <2>1. Bytes(b) = b[Len(b)].upto - b[1].from /\ Len(b) \in Nat \ {0}
    BY <1>1, <1>3, BytesAreNumbers
  <2>2. k + 1 \in 1 .. Len(s) /\ 1 \in 1 .. Len(s) - k /\ Len(b) \in 1 .. Len(s) - k
        /\ k + Len(b) = Len(s) /\ 1 \in 1 .. Len(s) /\ Len(s) \in 1 .. Len(s) /\ 1 <= k + 1
    BY <1>1, <2>1
  <2>3. b[Len(b)] = s[Len(s)] /\ b[1] = s[k + 1]
    BY <1>1, <2>2
  <2>4. s # <<>>
    BY <2>2, EmptySeq
  <2>5. Bytes(s) = s[Len(s)].upto - s[1].from
    BY <2>4, BytesAreNumbers
  <2>6. /\ s[1].from <= s[k + 1].from
        /\ s[1].from \in Nat /\ s[k + 1].from \in Nat /\ s[Len(s)].upto \in Nat
    BY <2>2, PlacedRises, ChunkAt
  <2>7. Bytes(b) <= h
    BY <2>1, <2>3, <2>5, <2>6
  <2> QED
    BY <2>7 DEF b
<1> QED
  BY <1>2, <1>3

\* What goes to the socket makes it hold little more than the low mark: the last
\* chunk found it below, and is no larger than the queue.
LEMMA SentHolds ==
  ASSUME NEW o \in Output, Placed(Line(o)), NEW k \in 1 .. Len(o.queue), Goes(o, k),
         Bytes(o.queue) <= High
  PROVE  Bytes(o.sending \o SubSeq(o.queue, 1, k)) <= Low + High
<1> DEFINE a == o.sending  q == o.queue  p == SubSeq(q, 1, k)  t == SubSeq(q, 1, k - 1)
<1>1. a \in Seq(Chunk) /\ q \in Seq(Chunk)
  BY DEF Output
<1>2. Placed(a) /\ Placed(q) /\ (a # <<>> /\ q # <<>> => q[1].from = a[Len(a)].upto)
  BY <1>1, PlacedParts DEF Line
<1>3. Bytes(a) + Bytes(t) <= Low /\ Bytes(q) <= High
  BY DEF Goes
<1>4. Len(q) \in Nat /\ k \in Nat /\ k >= 1 /\ k <= Len(q)
  BY <1>1, LenProperties
<1>5. /\ p \in Seq(Chunk) /\ Len(p) = k /\ \A i \in 1 .. k : p[i] = q[i]
  <2>1. k \in 0 .. Len(q)
    BY <1>4
  <2> QED
    BY <1>1, <2>1, Cut
<1>6. /\ t \in Seq(Chunk) /\ Len(t) = k - 1 /\ \A i \in 1 .. k - 1 : t[i] = q[i]
  <2>1. k - 1 \in 0 .. Len(q)
    BY <1>4
  <2> QED
    BY <1>1, <2>1, Cut
<1> HIDE DEF a, q, p, t
<1>7. 1 \in 1 .. Len(q) /\ k \in 1 .. Len(q) /\ Len(q) \in 1 .. Len(q) /\ 1 <= k /\ k <= Len(q)
  BY <1>4
<1>8. /\ q[1].from \in Nat /\ q[k].from \in Nat /\ q[k].upto \in Nat /\ q[Len(q)].upto \in Nat
      /\ q[1].from <= q[k].from /\ q[k].upto <= q[Len(q)].upto
  BY <1>1, <1>2, <1>7, PlacedRises
<1>9. q # <<>> /\ Bytes(q) = q[Len(q)].upto - q[1].from
  <2>1. q # <<>>
    BY <1>4, EmptySeq
  <2> QED
    BY <1>1, <2>1, BytesAreNumbers
<1>10. Bytes(t) = q[k].from - q[1].from
  <2>1. CASE k = 1
    <3>1. t = <<>>
      BY <1>6, <2>1, EmptySeq
    <3> QED
      BY <1>8, <2>1, <3>1 DEF Bytes
  <2>2. CASE k # 1
    <3>1. k - 1 \in 1 .. k - 1 /\ 1 \in 1 .. k - 1 /\ k - 1 \in 1 .. Len(q) - 1 /\ k - 1 + 1 = k
      BY <1>4, <2>2
    <3>2. t # <<>>
      BY <1>6, <3>1, EmptySeq
    <3>3. Bytes(t) = t[k - 1].upto - t[1].from
      BY <1>6, <3>2, BytesAreNumbers
    <3>4. q[k - 1 + 1].from = q[k - 1].upto
      BY <1>2, <3>1 DEF Placed
    <3> QED
      BY <1>6, <3>1, <3>3, <3>4
  <2> QED
    BY <2>1, <2>2
<1>11. /\ a \o p \in Seq(Chunk) /\ Len(a \o p) = Len(a) + k /\ Len(a) \in Nat
       /\ \A i \in 1 .. Len(a) : (a \o p)[i] = a[i]
       /\ \A i \in 1 .. k : (a \o p)[Len(a) + i] = p[i]
  BY <1>1, <1>5, LineParts
<1>12. /\ a \o p # <<>>
       /\ Bytes(a \o p) = (a \o p)[Len(a) + k].upto - (a \o p)[1].from
       /\ (a \o p)[Len(a) + k] = q[k]
  <2>1. Len(a \o p) # 0
    BY <1>4, <1>11
  <2>2. a \o p # <<>>
    BY <1>11, <2>1, EmptySeq
  <2>3. k \in 1 .. k
    BY <1>4
  <2> QED
    BY <1>5, <1>11, <2>2, <2>3, BytesAreNumbers
<1>13. Bytes(a \o p) = Bytes(a) + Bytes(t) + (q[k].upto - q[k].from)
  <2>1. CASE a = <<>>
    <3>1. Len(a) = 0
      BY <2>1
    <3>2. (a \o p)[1] = q[1]
      <4>1. 1 \in 1 .. k /\ Len(a) + 1 = 1
        BY <1>4, <3>1
      <4> QED
        BY <1>5, <1>11, <4>1
    <3>3. Bytes(a) = 0
      BY <2>1 DEF Bytes
    <3>4. Bytes(a \o p) = q[k].upto - q[1].from
      BY <1>12, <3>2
    <3> QED
      BY <1>8, <1>10, <3>3, <3>4
  <2>2. CASE a # <<>>
    <3>1. /\ Bytes(a) = a[Len(a)].upto - a[1].from /\ 1 \in 1 .. Len(a) /\ Len(a) \in 1 .. Len(a)
      BY <1>1, <2>2, BytesAreNumbers
    <3>2. a[Len(a)].upto \in Nat /\ a[1].from \in Nat
      BY <1>1, <3>1, ChunkAt
    <3>3. (a \o p)[1] = a[1]
      BY <1>11, <3>1
    <3>4. q[1].from = a[Len(a)].upto
      BY <1>2, <1>9, <2>2
    <3>5. Bytes(a \o p) = q[k].upto - a[1].from
      BY <1>12, <3>3
    <3>6. Bytes(a) = q[1].from - a[1].from
      BY <3>1, <3>4
    <3> QED
      BY <1>8, <1>10, <3>2, <3>5, <3>6
  <2> QED
    BY <2>1, <2>2
<1>14. Bytes(a) \in Int /\ Bytes(t) \in Int
  BY <1>1, <1>6, BytesAreNumbers
<1>15. Low \in Int /\ High \in Nat
  BY FlowAssumption DEF Low
<1>16. Bytes(a \o p) <= Low + High
  <2>1. q[k].upto - q[k].from <= High /\ q[k].upto - q[k].from \in Int
    BY <1>3, <1>8, <1>9, <1>15
  <2> QED
    BY <1>3, <1>13, <1>14, <1>15, <2>1
<1> QED
  BY <1>16 DEF a, q, p

\* flush sends a prefix of the queue, every chunk of it while the socket holds
\* no more than the low mark: it stops at the first that would not go.
LEMMA MovedGoes ==
  ASSUME NEW o \in Output
  PROVE  Moved(o) \in 0 .. Len(o.queue) /\ \A i \in 1 .. Moved(o) : Goes(o, i)
<1> DEFINE S == { k \in 0 .. Len(o.queue) : ~ (k < Len(o.queue) /\ Goes(o, k + 1)) }
           R == {ss \in Nat \X Nat : ss[1] < ss[2]}
<1>1. Len(o.queue) \in Nat
  BY LenProperties DEF Output
<1>2. S \subseteq Nat /\ Len(o.queue) \in S
  BY <1>1
<1>3. IsWellFoundedOn(R, Nat)
  BY NatLessThanWellFounded DEF OpToRel
<1> HIDE DEF R
<1>4. PICK k \in S : \A p \in S : ~ (<<p, k>> \in R)
  BY <1>2, <1>3, WFMin
<1>5. ASSUME NEW p \in 0 .. Len(o.queue), p < k PROVE p < Len(o.queue) /\ Goes(o, p + 1)
  <2>1. p \in Nat /\ k \in Nat
    BY <1>1, <1>2
  <2>2. <<p, k>> \in R
    BY <1>5, <2>1 DEF R
  <2> QED
    BY <1>4, <2>2
<1>6. k \in 0 .. Len(o.queue) /\ ~ (k < Len(o.queue) /\ Goes(o, k + 1))
  BY <1>4
<1> HIDE DEF S
<1>7. ASSUME NEW i \in 1 .. k PROVE Goes(o, i)
  <2>1. i - 1 \in 0 .. Len(o.queue) /\ i - 1 < k /\ (i - 1) + 1 = i
    BY <1>1, <1>6
  <2> QED
    BY <1>5, <2>1
<1>8. k < Len(o.queue) => Bytes(o.sending) + Bytes(SubSeq(o.queue, 1, k)) > Low
  <2>1. HAVE k < Len(o.queue)
  <2>2. k + 1 - 1 = k
    BY <1>6, <1>1
  <2>3. ~ (Bytes(o.sending) + Bytes(SubSeq(o.queue, 1, k)) <= Low)
    BY <1>6, <2>1, <2>2 DEF Goes
  <2>4. Bytes(o.sending) \in Int /\ Bytes(SubSeq(o.queue, 1, k)) \in Int
    <3>1. o.sending \in Seq(Chunk) /\ o.queue \in Seq(Chunk)
      BY DEF Output
    <3>2. SubSeq(o.queue, 1, k) \in Seq(Chunk)
      BY <3>1, <1>6, Cut
    <3>3. \A s \in Seq(Chunk) : Bytes(s) \in Int
      BY BytesAreNumbers
    <3> QED
      BY <3>1, <3>2, <3>3
  <2> QED
    BY <2>3, <2>4, FlowAssumption DEF Low
<1>9. \E j \in 0 .. Len(o.queue) :
        /\ \A i \in 1 .. j : Bytes(o.sending) + Bytes(SubSeq(o.queue, 1, i - 1)) <= Low
        /\ j < Len(o.queue) => Bytes(o.sending) + Bytes(SubSeq(o.queue, 1, j)) > Low
  BY <1>6, <1>7, <1>8 DEF Goes
<1> QED
  BY <1>9 DEF Moved, Goes

\* Sequences put together in either order.
LEMMA Chained ==
  ASSUME NEW S, NEW a \in Seq(S), NEW b \in Seq(S), NEW c \in Seq(S)
  PROVE  (a \o b) \o c = a \o (b \o c) /\ a \o b \in Seq(S)
<1>1. (a \o b) \o c = a \o (b \o c)
  BY ConcatAssociative, SMTT(30)
<1>2. a \o b \in Seq(S)
  BY ConcatProperties
<1> QED
  BY <1>1, <1>2

\* The same of chunks.
LEMMA ChunksChained ==
  \A a, b, c \in Seq(Chunk) : (a \o b) \o c = a \o (b \o c) /\ a \o b \in Seq(Chunk)
BY Chained

\* What flush does with queue and socket leaves the line as it is.
LEMMA MovedKeeps ==
  ASSUME NEW o, Moving(o), NEW k, k = Moved(o), NEW m,
         m = [o EXCEPT !.queue = SubSeq(@, k + 1, Len(@)),
                       !.sending = @ \o SubSeq(o.queue, 1, k)]
  PROVE  Moving(m) /\ Line(m) = Line(o)
<1>1. /\ o \in Output /\ Placed(Line(o)) /\ Bytes(o.queue) <= High
      /\ Bytes(o.sending) <= Low + High
      /\ o.queue \in Seq(Chunk) /\ o.sending \in Seq(Chunk)
  BY DEF Moving, Output
<1>2. k \in 0 .. Len(o.queue) /\ \A i \in 1 .. k : Goes(o, i)
  BY <1>1, MovedGoes
<1>3. /\ SubSeq(o.queue, 1, k) \in Seq(Chunk) /\ Len(SubSeq(o.queue, 1, k)) = k
      /\ SubSeq(o.queue, k + 1, Len(o.queue)) \in Seq(Chunk)
      /\ k \in Nat /\ Len(o.queue) \in Nat /\ k <= Len(o.queue)
  BY <1>1, <1>2, Cut, LenProperties
<1>4. /\ m.queue = SubSeq(o.queue, k + 1, Len(o.queue))
      /\ m.sending = o.sending \o SubSeq(o.queue, 1, k)
      /\ m.paused = o.paused /\ m.held = o.held /\ m.upto = o.upto
  BY <1>1 DEF Output
<1>5. m \in Output
  <2>1. m.queue \in Seq(Chunk) /\ m.sending \in Seq(Chunk)
    BY <1>1, <1>3, <1>4, ConcatProperties
  <2> QED
    BY <1>1, <1>4, <2>1 DEF Output
<1>6. Line(m) = Line(o)
  <2>1. SubSeq(o.queue, 1, k) \o SubSeq(o.queue, k + 1, Len(o.queue)) = o.queue
    BY <1>1, <1>2, Joined
  <2>2. /\ (o.sending \o SubSeq(o.queue, 1, k)) \o SubSeq(o.queue, k + 1, Len(o.queue))
             = o.sending \o (SubSeq(o.queue, 1, k) \o SubSeq(o.queue, k + 1, Len(o.queue)))
    BY <1>1, <1>3, ChunksChained
  <2> QED
    BY <1>4, <2>1, <2>2, Zenon DEF Line
<1>7. Bytes(m.sending) <= Low + High
  <2>1. CASE k = 0
    <3>1. SubSeq(o.queue, 1, k) = <<>>
      BY <1>3, <2>1, EmptySeq
    <3>2. m.sending = o.sending
      BY <1>1, <1>4, <3>1, ConcatEmptySeq
    <3> QED
      BY <1>1, <3>2
  <2>2. CASE k # 0
    <3>1. k \in 1 .. Len(o.queue) /\ k \in 1 .. k
      BY <1>2, <1>3, <2>2
    <3>2. Goes(o, k)
      BY <1>2, <3>1
    <3>3. Bytes(o.sending \o SubSeq(o.queue, 1, k)) <= Low + High
      BY <1>1, <3>1, <3>2, SentHolds
    <3> QED
      BY <1>4, <3>3
  <2> QED
    BY <2>1, <2>2
<1>8. Bytes(m.queue) <= High
  <2>1. Placed(o.queue)
    BY <1>1, PlacedParts DEF Line
  <2>2. High \in Nat
    BY FlowAssumption
  <2>3. Bytes(SubSeq(o.queue, k + 1, Len(o.queue))) <= High
    BY <1>1, <1>2, <2>1, <2>2, RestHoldsLess
  <2> QED
    BY <1>4, <2>3
<1> QED
  BY <1>4, <1>5, <1>6, <1>7, <1>8 DEF Moving

\* Only the flags of an output change.
SameLine(o, p) ==
  /\ p \in Output /\ p.queue = o.queue /\ p.sending = o.sending /\ p.upto = o.upto

\* Then the line stays and what is kept of it.
LEMMA FlagsOnly ==
  ASSUME NEW o, NEW p, Moving(o), SameLine(o, p), p.paused => p.held
  PROVE  Moving(p) /\ Line(p) = Line(o)
BY DEF Moving, SameLine, Line

\* resumeIfDrained resumes a channel only when nothing waits.
LEMMA ResumedKeeps ==
  ASSUME NEW o, OutSound(o)
  PROVE  OutSound(Resumed(o)) /\ Line(Resumed(o)) = Line(o)
<1> DEFINE p == [o EXCEPT !.paused = FALSE, !.slow = FALSE,
                          !.held = IF o.paused THEN FALSE ELSE @]
<1>1. CASE ~ (~ o.closing /\ o.queue = <<>> /\ Bytes(o.sending) <= Low)
  BY <1>1 DEF Resumed
<1>2. CASE ~ o.closing /\ o.queue = <<>> /\ Bytes(o.sending) <= Low
  <2>1. Resumed(o) = p
    BY <1>2 DEF Resumed
  <2>2. o \in Output /\ Moving(o)
    BY DEF OutSound, Moving
  <2>3. SameLine(o, p) /\ ~ p.paused
    BY <2>2 DEF SameLine, Output
  <2>4. p.queue = <<>>
    BY <1>2, <2>3 DEF SameLine
  <2> HIDE DEF p
  <2>5. Moving(p) /\ Line(p) = Line(o)
    BY <2>2, <2>3, FlagsOnly
  <2>6. OutSound(p)
    BY <2>4, <2>5 DEF OutSound
  <2> QED
    BY <2>1, <2>5, <2>6
<1> QED
  BY <1>1, <1>2

\* After flush what waits, waits for a channel that is paused.
LEMMA FlushedKeeps ==
  ASSUME NEW o, Moving(o)
  PROVE  OutSound(Flushed(o)) /\ Line(Flushed(o)) = Line(o)
<1> DEFINE k == Moved(o)
           m == [o EXCEPT !.queue = SubSeq(@, k + 1, Len(@)),
                          !.sending = @ \o SubSeq(o.queue, 1, k)]
           p == [m EXCEPT !.paused = TRUE, !.slow = TRUE, !.held = @ \/ ~ o.paused]
<1>1. Flushed(o) = IF m.queue # <<>> THEN p ELSE Resumed(m)
  BY DEF Flushed
<1>2. Moving(m) /\ Line(m) = Line(o)
  BY MovedKeeps
<1>3. o.paused => o.held
  BY DEF Moving
<1>4. o \in Output /\ m \in Output
  BY <1>2 DEF Moving
<1>5. m.held = o.held /\ o.held \in BOOLEAN /\ o.paused \in BOOLEAN
  BY <1>4 DEF Output
<1> HIDE DEF m
<1>6. CASE m.queue = <<>>
  <2>1. OutSound(m)
    BY <1>2, <1>6 DEF OutSound
  <2>2. OutSound(Resumed(m)) /\ Line(Resumed(m)) = Line(m)
    BY <2>1, ResumedKeeps
  <2> QED
    BY <1>1, <1>2, <1>6, <2>2
<1>7. CASE m.queue # <<>>
  <2>1. SameLine(m, p) /\ p.held
    BY <1>3, <1>4, <1>5 DEF SameLine, Output
  <2> HIDE DEF p
  <2>2. Moving(p) /\ Line(p) = Line(m)
    BY <1>2, <2>1, FlagsOnly
  <2>3. OutSound(p)
    BY <2>1, <2>2 DEF OutSound
  <2> QED
    BY <1>1, <1>2, <1>7, <2>2, <2>3
<1> QED
  BY <1>6, <1>7

\* A chunk the socket has sent leaves the line at its head.
LEMMA HeadGoes ==
  ASSUME NEW o, OutSound(o), o.sending # <<>>, NEW g \in Seq(Chunk), NEW p,
         p = [o EXCEPT !.sending = Tail(@), !.slow = FALSE]
  PROVE  /\ OutSound(p)
         /\ Head(o.sending) \in Chunk /\ Size(Head(o.sending)) \in Sizes
         /\ Append(g, Head(o.sending)) \o Line(p) = g \o Line(o)
<1> DEFINE s == o.sending  q == o.queue  h == Head(s)  t == Tail(s)
<1>1. /\ o \in Output /\ Placed(Line(o)) /\ s \in Seq(Chunk) /\ q \in Seq(Chunk)
      /\ Line(o) # <<>> => Line(o)[Len(Line(o))].upto = o.upto
      /\ Bytes(s) <= Low + High
  BY DEF OutSound, Moving, Output
<1>2. /\ h \in Chunk /\ t \in Seq(Chunk) /\ s = <<h>> \o t /\ h = s[1] /\ <<h>> \in Seq(Chunk)
      /\ Len(s) \in Nat \ {0}
  <2>1. Len(s) \in Nat \ {0} /\ h \in Chunk /\ t \in Seq(Chunk)
    BY <1>1, HeadTailProperties, EmptySeq
  <2>2. 1 \in 1 .. Len(s) /\ Len(s) \in 1 .. Len(s)
    BY <2>1
  <2>3. SubSeq(s, 1, Len(s)) = << s[1] >> \o SubSeq(s, 1 + 1, Len(s))
    BY <1>1, <2>2, SubSeqRecursiveFirst
  <2>4. t = SubSeq(s, 2, Len(s)) /\ s = SubSeq(s, 1, Len(s)) /\ h = s[1]
    BY <1>1, TailIsSubSeq, SubSeqFull
  <2> QED
    BY <2>1, <2>3, <2>4
<1>3. /\ p \in Output /\ p.queue = q /\ p.sending = t /\ p.upto = o.upto
      /\ p.paused = o.paused /\ p.held = o.held
  BY <1>1, <1>2 DEF Output
<1>u. PICK u \in Seq(Chunk) : u = <<h>> /\ Len(u) = 1
  <2>1. Len(<<h>>) = 1
    OBVIOUS
  <2> QED
    BY <1>2, <2>1
<1>v. s = u \o t /\ Append(g, h) = g \o u
  <2>1. Append(g, h) = g \o <<h>>
    BY <1>2, AppendIsConcat
  <2> QED
    BY <1>2, <1>u, <2>1
<1>4. Line(p) \in Seq(Chunk) /\ Line(o) = u \o Line(p)
  <2>1. (u \o t) \o q = u \o (t \o q)
    BY <1>1, <1>2, ChunksChained
  <2>2. t \o q \in Seq(Chunk)
    BY <1>1, <1>2, ChunksChained
  <2> QED
    BY <1>3, <1>v, <2>1, <2>2, Zenon DEF Line
<1> HIDE DEF h, t
<1>5. Append(g, h) \o Line(p) = g \o Line(o)
  <2>1. (g \o u) \o Line(p) = g \o (u \o Line(p))
    BY <1>4, ChunksChained
  <2> QED
    BY <1>v, <1>4, <2>1, Zenon
<1>6. Placed(Line(p)) /\ Placed(s)
  <2>1. Placed(s)
    BY <1>1, PlacedParts DEF Line
  <2>2. Placed(u \o Line(p))
    BY <1>1, <1>4
  <2> QED
    BY <1>4, <2>1, <2>2, PlacedParts
<1>7. Line(p) # <<>> => Line(p)[Len(Line(p))].upto = p.upto
  <2>1. HAVE Line(p) # <<>>
  <2>2. Len(Line(p)) \in Nat \ {0}
    BY <1>4, <2>1, EmptySeq
  <2>3. /\ Len(Line(o)) = 1 + Len(Line(p))
        /\ \A i \in 1 .. Len(Line(p)) : Line(o)[1 + i] = Line(p)[i]
        /\ Line(o) \in Seq(Chunk)
    BY <1>u, <1>4, LineParts
  <2>4. Len(Line(p)) \in 1 .. Len(Line(p)) /\ Len(Line(o)) # 0
    BY <2>2, <2>3
  <2>5. Line(o) # <<>>
    BY <2>3, <2>4, EmptySeq
  <2>6. Line(o)[Len(Line(o))] = Line(p)[Len(Line(p))]
    BY <2>3, <2>4
  <2> QED
    BY <1>1, <1>3, <2>5, <2>6
<1>8. Bytes(p.sending) <= Low + High
  <2>1. Low + High \in Nat
    BY FlowAssumption DEF Low
  <2>2. 1 \in 0 .. Len(s) /\ 1 + 1 = 2
    BY <1>2
  <2>3. Bytes(SubSeq(s, 1 + 1, Len(s))) <= Low + High
    BY <1>1, <1>6, <2>1, <2>2, RestHoldsLess
  <2>4. t = SubSeq(s, 2, Len(s))
    BY <1>1, TailIsSubSeq DEF t
  <2> QED
    BY <1>3, <2>2, <2>3, <2>4
<1>9. Size(h) \in Sizes
  <2>1. 1 \in 1 .. Len(s)
    BY <1>2
  <2> QED
    BY <1>2, <1>6, <2>1 DEF Placed
<1>10. OutSound(p)
  BY <1>3, <1>6, <1>7, <1>8 DEF OutSound, Moving
<1> QED
  BY <1>2, <1>5, <1>9, <1>10 DEF h

\* A chunk for which the queue has room joins the line.
LEMMA ChunkJoins ==
  ASSUME NEW o, OutSound(o), NEW c \in Chunk, c.from = o.upto, Size(c) \in Sizes,
         Bytes(o.queue) + Size(c) <= High, NEW p,
         p = [o EXCEPT !.queue = Append(@, c), !.upto = c.upto]
  PROVE  Moving(p) /\ Line(p) = Append(Line(o), c)
<1> DEFINE s == o.sending  q == o.queue  l == Line(o)  r == Append(q, c)
<1>1. /\ o \in Output /\ Placed(l) /\ s \in Seq(Chunk) /\ q \in Seq(Chunk)
      /\ l # <<>> => l[Len(l)].upto = o.upto
      /\ Bytes(s) <= Low + High /\ o.upto \in Nat /\ (o.paused => o.held)
  BY DEF OutSound, Moving, Output
<1>2. c.from \in Nat /\ c.upto \in Nat /\ Size(c) \in Nat \ {0} /\ c.upto = c.from + Size(c)
  BY FlowAssumption DEF Chunk, Size
<1>3. /\ r \in Seq(Chunk) /\ Len(r) = Len(q) + 1 /\ Len(q) \in Nat
      /\ \A i \in 1 .. Len(q) : r[i] = q[i]
      /\ r[Len(q) + 1] = c /\ r # <<>>
  BY <1>1, AppendProperties, LenProperties
<1>4. /\ p \in Output /\ p.queue = r /\ p.sending = s /\ p.upto = c.upto
      /\ p.paused = o.paused /\ p.held = o.held
  BY <1>1, <1>2, <1>3 DEF Output
<1> HIDE DEF r
<1>5. l \in Seq(Chunk) /\ Line(p) = Append(l, c)
  <2>1. l \in Seq(Chunk)
    BY <1>1, ConcatProperties DEF Line
  <2>u. PICK u \in Seq(Chunk) : u = <<c>>
    <3>1. <<c>> \in Seq(Chunk)
      OBVIOUS
    <3> QED
      BY <3>1
  <2>2. r = q \o u /\ Append(l, c) = l \o u
    BY <1>1, <2>1, <2>u, AppendIsConcat DEF r
  <2>3. (s \o q) \o u = s \o (q \o u)
    <3>1. s \in Seq(Chunk) /\ q \in Seq(Chunk)
      BY <1>1
    <3> HIDE DEF s, q
    <3> QED
      BY <3>1, ChunksChained
  <2> QED
    BY <1>4, <2>1, <2>2, <2>3, Zenon DEF Line
<1>6. /\ Append(l, c) \in Seq(Chunk) /\ Len(Append(l, c)) = Len(l) + 1 /\ Len(l) \in Nat
      /\ \A i \in 1 .. Len(l) : Append(l, c)[i] = l[i]
      /\ Append(l, c)[Len(l) + 1] = c
  BY <1>5, AppendProperties, LenProperties
<1>7. l # <<>> => Len(l) \in 1 .. Len(l) /\ l[Len(l)].upto = c.from
  <2>1. HAVE l # <<>>
  <2>2. Len(l) # 0
    BY <1>5, <2>1, EmptySeq
  <2> QED
    BY <1>1, <1>6, <2>1, <2>2
<1> DEFINE w == Append(l, c)
<1>8. Placed(w)
  <2>1. \A i \in 1 .. Len(w) :
          (i \in 1 .. Len(l) /\ w[i] = l[i]) \/ (i = Len(l) + 1 /\ w[i] = c)
    BY <1>6
  <2>2. ASSUME NEW i \in 1 .. Len(w) PROVE Size(w[i]) \in Sizes
    BY <1>1, <2>1 DEF Placed
  <2>3. ASSUME NEW i \in 1 .. Len(w), NEW j \in 1 .. Len(w), i < j
        PROVE  w[i].upto <= w[j].from
    <3>1. i \in 1 .. Len(l) /\ w[i] = l[i]
      BY <1>6, <2>1, <2>3
    <3>2. CASE j \in 1 .. Len(l) /\ w[j] = l[j]
      BY <1>1, <2>3, <3>1, <3>2 DEF Placed
    <3>3. CASE j = Len(l) + 1 /\ w[j] = c
      <4>1. Len(l) \in 1 .. Len(l) /\ i <= Len(l) /\ l # <<>>
        BY <1>6, <3>1, EmptySeq
      <4>2. l[i].upto <= l[Len(l)].upto
        BY <1>1, <1>5, <3>1, <4>1, PlacedRises
      <4> QED
        BY <1>7, <3>1, <3>3, <4>1, <4>2
    <3> QED
      BY <2>1, <3>2, <3>3
  <2>4. ASSUME NEW i \in 1 .. Len(w) - 1 PROVE w[i + 1].from = w[i].upto
    <3>1. i \in 1 .. Len(l) /\ w[i] = l[i]
      BY <1>6
    <3>2. CASE i + 1 \in 1 .. Len(l)
      <4>1. w[i + 1] = l[i + 1] /\ i \in 1 .. Len(l) - 1
        BY <1>6, <3>1, <3>2
      <4> QED
        BY <1>1, <3>1, <4>1 DEF Placed
    <3>3. CASE i = Len(l)
      <4>1. w[i + 1] = c /\ l # <<>>
        BY <1>6, <3>1, <3>3, EmptySeq
      <4> QED
        BY <1>7, <3>1, <3>3, <4>1
    <3> QED
      BY <1>6, <3>1, <3>2, <3>3
  <2> QED
    BY <2>2, <2>3, <2>4 DEF Placed
<1>9. w[Len(w)].upto = c.upto
  BY <1>6
<1>10. Bytes(r) <= High
  <2>1. Bytes(r) = c.upto - r[1].from
    <3>1. Bytes(r) = r[Len(r)].upto - r[1].from
      BY <1>3, BytesAreNumbers
    <3> QED
      BY <1>3, <3>1
  <2>2. CASE q = <<>>
    <3>1. Len(q) = 0 /\ Bytes(q) = 0
      BY <2>2 DEF Bytes
    <3>2. r[1] = c
      BY <1>3, <3>1
    <3> QED
      BY <1>2, <2>1, <3>1, <3>2
  <2>3. CASE q # <<>>
    <3>1. /\ Len(q) \in Nat \ {0} /\ 1 \in 1 .. Len(q) /\ Len(q) \in 1 .. Len(q)
          /\ Bytes(q) = q[Len(q)].upto - q[1].from
      BY <1>1, <2>3, BytesAreNumbers
    <3>2. l # <<>> /\ l[Len(l)] = q[Len(q)]
      <4>1. /\ Len(l) = Len(s) + Len(q) /\ Len(s) \in Nat
            /\ \A i \in 1 .. Len(q) : l[Len(s) + i] = q[i]
        BY <1>1, LineParts DEF Line
      <4>2. Len(q) \in Nat \ {0} /\ Len(q) \in 1 .. Len(q)
        BY <3>1
      <4>3. l[Len(s) + Len(q)] = q[Len(q)]
        BY <4>1, <4>2, Zenon
      <4>4. Len(l) # 0
        <5> HIDE DEF l, s, q, w
        <5>1. Len(l) = Len(s) + Len(q) /\ Len(s) \in Nat
          BY <4>1
        <5> QED
          BY <4>2, <5>1
      <4>5. l[Len(l)] = q[Len(q)]
        BY <4>1, <4>3, Zenon
      <4> QED
        BY <4>4, <4>5, <1>5, EmptySeq
    <3>3. q[Len(q)].upto = c.from
      BY <1>7, <3>2
    <3>4. r[1] = q[1] /\ q[1].from \in Nat
      BY <1>1, <1>3, <3>1, ChunkAt
    <3>5. Bytes(q) = c.from - q[1].from /\ Bytes(r) = c.upto - q[1].from
      BY <2>1, <3>1, <3>3, <3>4
    <3>6. High \in Nat
      BY FlowAssumption
    <3> QED
      BY <1>2, <3>4, <3>5, <3>6
  <2> QED
    BY <2>2, <2>3
<1>11. Moving(p)
  <2>1. Placed(Line(p)) /\ Line(p)[Len(Line(p))].upto = p.upto
    BY <1>4, <1>5, <1>8, <1>9
  <2> QED
    BY <1>1, <1>4, <1>10, <2>1 DEF Moving
<1> QED
  BY <1>5, <1>11

-----------------------------------------------------------------------------
(* What is counted *)

\* One more chunk, taken: it comes after the others.
LEMMA WholeTakes ==
  ASSUME NEW p \in Seq(Chunk), NEW d \in SUBSET Chunk, NEW m \in Nat, Whole(p, d, m),
         NEW c \in Chunk, c.id = m + 1
  PROVE  Whole(Append(p, c), d, m + 1)
<1> DEFINE w == Append(p, c)
<1>1. /\ w \in Seq(Chunk) /\ Len(w) = Len(p) + 1 /\ Len(p) \in Nat
      /\ \A i \in 1 .. Len(p) : w[i] = p[i]
      /\ w[Len(p) + 1] = c
  BY AppendProperties, LenProperties
<1> HIDE DEF w
<1>2. /\ \A i, j \in 1 .. Len(p) : i < j => p[i].id < p[j].id
      /\ \A i \in 1 .. Len(p) : p[i].id <= m
      /\ \A x \in d : x.id <= m
      /\ \A n \in 1 .. m : (\E i \in 1 .. Len(p) : p[i].id = n) \/ (\E x \in d : x.id = n)
      /\ IsFiniteSet(d) /\ Len(p) + Cardinality(d) = m
  BY DEF Whole
<1>3. \A i \in 1 .. Len(w) :
        (i \in 1 .. Len(p) /\ w[i] = p[i]) \/ (i = Len(p) + 1 /\ w[i] = c)
  BY <1>1
<1>4. \A i \in 1 .. Len(p) : p[i].id \in Nat
  BY ChunkAt
<1>5. ASSUME NEW i \in 1 .. Len(w), NEW j \in 1 .. Len(w), i < j PROVE w[i].id < w[j].id
  <2>1. i \in 1 .. Len(p) /\ w[i] = p[i]
    BY <1>1, <1>3, <1>5
  <2>2. CASE j \in 1 .. Len(p) /\ w[j] = p[j]
    BY <1>2, <1>5, <2>1, <2>2
  <2>3. CASE j = Len(p) + 1 /\ w[j] = c
    BY <1>2, <1>4, <2>1, <2>3
  <2> QED
    BY <1>3, <2>2, <2>3
<1>6. ASSUME NEW i \in 1 .. Len(w) PROVE w[i].id <= m + 1
  BY <1>2, <1>3, <1>4
<1>7. ASSUME NEW x \in d PROVE x.id <= m + 1
  <2>1. x.id <= m /\ x.id \in Nat
    BY <1>2 DEF Chunk
  <2> QED
    BY <2>1
<1>8. ASSUME NEW n \in 1 .. m + 1
      PROVE  (\E i \in 1 .. Len(w) : w[i].id = n) \/ (\E x \in d : x.id = n)
  <2>1. CASE n = m + 1
    <3>1. Len(p) + 1 \in 1 .. Len(w) /\ w[Len(p) + 1].id = n
      BY <1>1, <2>1
    <3> QED
      BY <3>1
  <2>2. CASE n # m + 1
    <3>1. n \in 1 .. m
      BY <2>2
    <3>2. CASE \E i \in 1 .. Len(p) : p[i].id = n
      <4>1. PICK i \in 1 .. Len(p) : p[i].id = n
        BY <3>2
      <4>2. i \in 1 .. Len(w) /\ w[i].id = n
        BY <1>1, <4>1
      <4> QED
        BY <4>2
    <3> QED
      BY <1>2, <3>1, <3>2
  <2> QED
    BY <2>1, <2>2
<1>9. Len(w) + Cardinality(d) = m + 1
  <2>1. Cardinality(d) \in Nat /\ Len(p) \in Nat
    BY <1>1, <1>2, FS_CardinalityType
  <2>2. Len(p) + Cardinality(d) = m /\ Len(w) = Len(p) + 1
    BY <1>1, <1>2
  <2> QED
    BY <2>1, <2>2
<1>10. Whole(w, d, m + 1)
  BY <1>2, <1>5, <1>6, <1>7, <1>8, <1>9 DEF Whole
<1> QED
  BY <1>10 DEF w

\* One more chunk, dropped.
LEMMA WholeDrops ==
  ASSUME NEW p \in Seq(Chunk), NEW d \in SUBSET Chunk, NEW m \in Nat, Whole(p, d, m),
         NEW c \in Chunk, c.id = m + 1
  PROVE  Whole(p, d \cup {c}, m + 1)
<1>2. /\ \A i, j \in 1 .. Len(p) : i < j => p[i].id < p[j].id
      /\ \A i \in 1 .. Len(p) : p[i].id <= m
      /\ \A x \in d : x.id <= m
      /\ \A n \in 1 .. m : (\E i \in 1 .. Len(p) : p[i].id = n) \/ (\E x \in d : x.id = n)
      /\ IsFiniteSet(d) /\ Len(p) + Cardinality(d) = m
  BY DEF Whole
<1>3. \A i \in 1 .. Len(p) : p[i].id \in Nat
  BY ChunkAt
<1>4. \A x \in d : x.id \in Nat
  BY DEF Chunk
<1>5. c \notin d
  BY <1>2, <1>4
<1>6. /\ IsFiniteSet(d \cup {c}) /\ Cardinality(d \cup {c}) = Cardinality(d) + 1
      /\ Cardinality(d) \in Nat
  BY <1>2, <1>5, FS_AddElement, FS_CardinalityType
<1>7. Len(p) + Cardinality(d \cup {c}) = m + 1
  <2>1. Len(p) \in Nat
    BY LenProperties
  <2>2. Len(p) + Cardinality(d) = m
    BY <1>2
  <2>3. Cardinality(d \cup {c}) = Cardinality(d) + 1 /\ Cardinality(d) \in Nat
    BY <1>6
  <2> QED
    BY <2>1, <2>2, <2>3
<1>8. /\ \A i \in 1 .. Len(p) : p[i].id <= m + 1
      /\ \A x \in d \cup {c} : x.id <= m + 1
  BY <1>2, <1>3, <1>4
<1>9. ASSUME NEW n \in 1 .. m + 1
      PROVE  (\E i \in 1 .. Len(p) : p[i].id = n) \/ (\E x \in d \cup {c} : x.id = n)
  <2>1. n \in 1 .. m \/ n = m + 1
    OBVIOUS
  <2> QED
    BY <1>2, <2>1
<1> QED
  BY <1>2, <1>6, <1>7, <1>8, <1>9 DEF Whole

-----------------------------------------------------------------------------
(* Input *)

\* drainInput writes a prefix of what waits.
LEMMA WrittenKeeps ==
  ASSUME NEW i \in Incoming, NEW w, w = Written(i)
  PROVE  /\ w \in Incoming /\ Len(w.queue) <= Len(i.queue)
         /\ w.blocked => w.held = Window
<1> DEFINE most == IF Len(i.queue) <= Window - i.held THEN Len(i.queue) ELSE Window - i.held
           k == CHOOSE n \in 0 .. Len(i.queue) :
                  /\ n <= Window - i.held
                  /\ n = Len(i.queue) \/ n = Window - i.held
<1>1. /\ i.queue \in Seq(1 .. MaxIn) /\ Len(i.queue) \in Nat /\ i.held \in 0 .. Window
      /\ i.blocked \in BOOLEAN /\ i.taken \in Nat /\ Window \in Nat
  <2>1. i.queue \in Seq(1 .. MaxIn) /\ i.held \in 0 .. Window /\ i.blocked \in BOOLEAN
        /\ i.taken \in Nat
    BY DEF Incoming
  <2> QED
    BY <2>1, LenProperties, FlowAssumption
<1>2. /\ most \in 0 .. Len(i.queue) /\ most <= Window - i.held
      /\ most = Len(i.queue) \/ most = Window - i.held
  BY <1>1
<1> HIDE DEF most
<1>3. /\ k \in 0 .. Len(i.queue) /\ k <= Window - i.held
      /\ k = Len(i.queue) \/ k = Window - i.held
  BY <1>2
<1>4. w = [i EXCEPT !.queue = SubSeq(@, k + 1, Len(@)), !.held = @ + k,
                    !.blocked = k > 0 /\ i.held + k = Window]
  BY DEF Written
<1> HIDE DEF k
<1>5. /\ SubSeq(i.queue, k + 1, Len(i.queue)) \in Seq(1 .. MaxIn)
      /\ Len(SubSeq(i.queue, k + 1, Len(i.queue))) = Len(i.queue) - k
  BY <1>1, <1>3, Cut
<1>6. i.held + k \in 0 .. Window /\ Len(i.queue) - k <= Len(i.queue)
  BY <1>1, <1>3
<1>7. /\ w.queue = SubSeq(i.queue, k + 1, Len(i.queue)) /\ w.held = i.held + k
      /\ w.blocked = (k > 0 /\ i.held + k = Window) /\ w.taken = i.taken
  BY <1>1, <1>4 DEF Incoming
<1>8. w \in Incoming
  <2>1. (k > 0 /\ i.held + k = Window) \in BOOLEAN
    OBVIOUS
  <2> QED
    BY <1>1, <1>4, <1>5, <1>6, <2>1 DEF Incoming
<1> QED
  BY <1>5, <1>6, <1>7, <1>8

\* The input is left alone.
LEMMA InputStays ==
  ASSUME InSound, in' = in, missed' = missed, live' = "ready" => live = "ready"
  PROVE  InSound'
BY DEF InSound

-----------------------------------------------------------------------------
(* The data of one terminal: the steps *)

\* What is kept, part by part.
LEMMA FlowParts ==
  ASSUME FlowInv
  PROVE  /\ live \in { "ready", "channel_closed", "drain_timeout", "slow_consumer",
                       "socket_error", "input_overflow" }
         /\ wired \in BOOLEAN /\ missed \in BOOLEAN
         /\ made \in Nat /\ made \in 0 .. MaxOut /\ typed \in 0 .. MaxIn
         /\ got \in Seq(Chunk) /\ \A i \in 1 .. Len(got) : Size(got[i]) \in Sizes
         /\ dropped \in SUBSET Chunk
         /\ \A c \in dropped : c \in Chunk /\ Size(c) \in Sizes /\ Size(c) > High
         /\ OutSound(out) /\ Moving(out) /\ out \in Output
         /\ out.queue \in Seq(Chunk) /\ out.sending \in Seq(Chunk)
         /\ Line(out) \in Seq(Chunk) /\ got \o Line(out) \in Seq(Chunk)
         /\ Whole(got \o Line(out), dropped, made)
         /\ live = "channel_closed" => Line(out) = <<>>
         /\ InSound
<1>1. /\ OutSound(out) /\ got \in Seq(Chunk)
      /\ \A c \in dropped : c \in Chunk /\ Size(c) \in Sizes /\ Size(c) > High
      /\ made \in 0 .. MaxOut
  BY DEF FlowInv
<1>2. Moving(out) /\ out \in Output
  BY <1>1 DEF OutSound, Moving
<1>3. out.queue \in Seq(Chunk) /\ out.sending \in Seq(Chunk)
  BY <1>2 DEF Output
<1>4. Line(out) \in Seq(Chunk)
  BY <1>3, LineParts DEF Line
<1>5. got \o Line(out) \in Seq(Chunk)
  BY <1>1, <1>4, LineParts
<1>6. made \in Nat /\ dropped \in SUBSET Chunk
  BY <1>1, FlowAssumption
<1> QED
  BY <1>1, <1>2, <1>3, <1>4, <1>5, <1>6 DEF FlowInv

\* A handler that ends in flush leaves an output that is sound: the session is
\* closed if the channel was and nothing is left.
LEMMA SettleKeeps ==
  ASSUME FlowInv, live = "ready", NEW o, OutSound(o), Settle(o),
         got' \in Seq(Chunk), \A i \in 1 .. Len(got') : Size(got'[i]) \in Sizes,
         \A c \in dropped' : c \in Chunk /\ Size(c) \in Sizes /\ Size(c) > High,
         made' \in 0 .. MaxOut, Whole(got' \o Line(o), dropped', made'),
         UNCHANGED <<wired, in, typed, missed>>
  PROVE  FlowInv'
<1>1. out' = o /\ live' = IF Drained(o) THEN "channel_closed" ELSE live
  BY DEF Settle
<1>2. Drained(o) => Line(o) = <<>>
  <2>1. HAVE Drained(o)
  <2>2. o.sending = <<>> /\ o.queue = <<>>
    BY <2>1 DEF Drained
  <2>3. <<>> \in Seq(Chunk)
    OBVIOUS
  <2> QED
    BY <2>2, <2>3, ConcatEmptySeq DEF Line
<1>3. /\ live' \in { "ready", "channel_closed" }
      /\ live' = "channel_closed" => Line(out') = <<>>
      /\ live' = "ready" => live = "ready"
  BY <1>1, <1>2
<1>4. InSound'
  BY <1>3, FlowParts, InputStays
<1>5. wired' \in BOOLEAN /\ missed' \in BOOLEAN /\ typed' \in 0 .. MaxIn
  BY FlowParts
<1> QED
  BY <1>1, <1>3, <1>4, <1>5 DEF FlowInv

\* onData: the chunk is dropped, which only one larger than the buffer can be while
\* the channel is not paused, or it joins the line.
LEMMA DataKeeps ==
  ASSUME FlowInv, NEW size \in Sizes, Data(size)
  PROVE  FlowInv'
<1> DEFINE c == [id |-> made + 1, from |-> out.upto, upto |-> out.upto + size]
           p == [out EXCEPT !.queue = Append(@, c), !.upto = c.upto]
           h == [out EXCEPT !.paused = TRUE, !.held = TRUE, !.slow = TRUE]
<1>1. /\ live = "ready" /\ ~ out.held /\ made < MaxOut /\ made' = made + 1
      /\ UNCHANGED <<wired, got, in, typed, missed>>
      /\ IF Bytes(out.queue) + size > High
         THEN out' = h /\ dropped' = dropped \cup {c} /\ UNCHANGED live
         ELSE Settle(Flushed(p)) /\ UNCHANGED dropped
  BY DEF Data
<1>2. /\ made \in Nat /\ got \in Seq(Chunk) /\ OutSound(out) /\ out \in Output
      /\ Line(out) \in Seq(Chunk) /\ got \o Line(out) \in Seq(Chunk)
      /\ Whole(got \o Line(out), dropped, made) /\ Moving(out)
      /\ out.upto \in Nat /\ made' \in 0 .. MaxOut /\ dropped \in SUBSET Chunk
      /\ size \in Nat /\ High \in Nat /\ Bytes(out.queue) \in Int
  <2>1. out.upto \in Nat
    BY FlowParts DEF Output
  <2>2. made' \in 0 .. MaxOut
    BY <1>1, FlowParts, FlowAssumption
  <2>3. Bytes(out.queue) \in Int
    BY FlowParts, BytesAreNumbers
  <2> QED
    BY <2>1, <2>2, <2>3, FlowParts, FlowAssumption
<1>3. /\ c \in Chunk /\ c.id = made + 1 /\ c.from = out.upto /\ Size(c) = size
      /\ c.upto = out.upto + size
  BY <1>1, <1>2, FlowAssumption DEF Chunk, Size
<1> HIDE DEF c
<1>4. CASE Bytes(out.queue) + size > High
  <2>1. out' = h /\ dropped' = dropped \cup {c} /\ live' = live
    BY <1>1, <1>4
  <2>2. SameLine(out, h) /\ h.held
    BY <1>2 DEF SameLine, Output
  <2> HIDE DEF h
  <2>3. OutSound(h) /\ Line(h) = Line(out)
    BY <1>2, <2>2, FlagsOnly DEF OutSound
  <2>4. out.queue = <<>>
    BY <1>1, <1>2 DEF OutSound
  <2>5. Size(c) > High
    BY <1>2, <1>3, <1>4, <2>4 DEF Bytes
  <2>6. Whole(got \o Line(out), dropped \cup {c}, made + 1)
    BY <1>2, <1>3, WholeDrops
  <2>7. \A x \in dropped' : x \in Chunk /\ Size(x) \in Sizes /\ Size(x) > High
    BY <1>3, <2>1, <2>5, FlowParts
  <2>8. InSound'
    BY <1>1, <2>1, FlowParts, InputStays
  <2>9. /\ live' \in { "ready", "channel_closed", "drain_timeout", "slow_consumer",
                       "socket_error", "input_overflow" }
        /\ wired' \in BOOLEAN /\ missed' \in BOOLEAN /\ typed' \in 0 .. MaxIn
        /\ got' \in Seq(Chunk) /\ \A i \in 1 .. Len(got') : Size(got'[i]) \in Sizes
    BY <1>1, <2>1, FlowParts
  <2>10. OutSound(out') /\ Whole(got' \o Line(out'), dropped', made')
    BY <1>1, <2>1, <2>3, <2>6
  <2> QED
    BY <1>1, <1>2, <2>1, <2>7, <2>8, <2>9, <2>10 DEF FlowInv
<1>5. CASE ~ (Bytes(out.queue) + size > High)
  <2>1. Settle(Flushed(p)) /\ dropped' = dropped
    BY <1>1, <1>5
  <2>2. Bytes(out.queue) + Size(c) <= High
    BY <1>2, <1>3, <1>5
  <2>3. Moving(p) /\ Line(p) = Append(Line(out), c)
    BY <1>2, <1>3, <2>2, ChunkJoins
  <2> HIDE DEF p
  <2>4. OutSound(Flushed(p)) /\ Line(Flushed(p)) = Append(Line(out), c)
    BY <2>3, FlushedKeeps
  <2>5. got' \o Append(Line(out), c) = Append(got \o Line(out), c)
    <3>1. PICK u \in Seq(Chunk) : u = <<c>>
      <4>1. <<c>> \in Seq(Chunk)
        BY <1>3
      <4> QED
        BY <4>1
    <3>2. Append(Line(out), c) = Line(out) \o u /\ Append(got \o Line(out), c) = (got \o Line(out)) \o u
      BY <1>2, <1>3, <3>1, AppendIsConcat
    <3>3. (got \o Line(out)) \o u = got \o (Line(out) \o u)
      BY <1>2, <3>1, ChunksChained
    <3> QED
      BY <1>1, <3>2, <3>3
  <2>6. Whole(got' \o Line(Flushed(p)), dropped', made')
    <3>1. Whole(Append(got \o Line(out), c), dropped, made + 1)
      BY <1>2, <1>3, WholeTakes
    <3> QED
      BY <1>1, <2>1, <2>4, <2>5, <3>1
  <2>7. /\ got' \in Seq(Chunk) /\ \A i \in 1 .. Len(got') : Size(got'[i]) \in Sizes
        /\ \A x \in dropped' : x \in Chunk /\ Size(x) \in Sizes /\ Size(x) > High
    BY <1>1, <2>1, FlowParts
  <2> QED
    BY <1>1, <1>2, <2>1, <2>4, <2>6, <2>7, SettleKeeps
<1> QED
  BY <1>4, <1>5

\* The callback of a send: the head of the line is sent.
LEMMA SendDoneKeeps ==
  ASSUME FlowInv, SendDone
  PROVE  FlowInv'
<1> DEFINE h == Head(out.sending)
           o == [out EXCEPT !.sending = Tail(@), !.slow = FALSE]
<1>1. /\ out.sending # <<>> /\ got' = Append(got, h)
      /\ UNCHANGED <<wired, made, dropped, in, typed, missed>>
      /\ IF live # "ready" THEN out' = o /\ UNCHANGED live
         ELSE IF Drained(o) THEN Settle(o)
         ELSE Settle(Flushed(Resumed(o)))
  BY DEF SendDone
<1>2. /\ OutSound(out) /\ got \in Seq(Chunk) /\ Whole(got \o Line(out), dropped, made)
      /\ out.sending \in Seq(Chunk) /\ out.queue \in Seq(Chunk)
      /\ \A c \in dropped : c \in Chunk /\ Size(c) \in Sizes /\ Size(c) > High
      /\ made \in 0 .. MaxOut
  BY FlowParts
<1>3. /\ OutSound(o) /\ h \in Chunk /\ Size(h) \in Sizes
      /\ Append(got, h) \o Line(o) = got \o Line(out)
  BY <1>1, <1>2, HeadGoes
<1> HIDE DEF o, h
<1>4. got' \in Seq(Chunk) /\ \A i \in 1 .. Len(got') : Size(got'[i]) \in Sizes
  <2>1. /\ got' \in Seq(Chunk) /\ Len(got') = Len(got) + 1 /\ Len(got) \in Nat
        /\ \A i \in 1 .. Len(got) : got'[i] = got[i]
        /\ got'[Len(got) + 1] = h
    BY <1>1, <1>2, <1>3, AppendProperties, LenProperties
  <2>2. \A i \in 1 .. Len(got') : i \in 1 .. Len(got) \/ i = Len(got) + 1
    BY <2>1
  <2>3. \A i \in 1 .. Len(got) : Size(got[i]) \in Sizes
    BY FlowParts
  <2> QED
    BY <1>3, <2>1, <2>2, <2>3
<1>5. Whole(got' \o Line(o), dropped', made') /\ made' \in 0 .. MaxOut
      /\ \A c \in dropped' : c \in Chunk /\ Size(c) \in Sizes /\ Size(c) > High
  BY <1>1, <1>2, <1>3
<1>6. UNCHANGED <<wired, in, typed, missed>>
  BY <1>1
<1>7. CASE live # "ready"
  <2>1. out' = o /\ live' = live
    BY <1>1, <1>7
  <2>2. live # "channel_closed"
    <3>1. SUFFICES ASSUME Line(out) = <<>> PROVE FALSE
      BY FlowParts
    <3>2. Len(out.sending) = 0
      <4>1. Len(Line(out)) = Len(out.sending) + Len(out.queue)
            /\ Len(out.sending) \in Nat /\ Len(out.queue) \in Nat
        BY <1>2, LineParts DEF Line
      <4>2. Len(Line(out)) = 0
        BY <3>1
      <4>3. Len(out.sending) + Len(out.queue) = 0
        BY <4>1, <4>2
      <4>4. \A x, y \in Nat : x + y = 0 => x = 0
        OBVIOUS
      <4> QED
        BY <4>1, <4>3, <4>4, Zenon
    <3> QED
      BY <1>1, <1>2, <3>2, EmptySeq
  <2>3. InSound'
    BY <1>6, <2>1, FlowParts, InputStays
  <2>4. /\ live' \in { "ready", "channel_closed", "drain_timeout", "slow_consumer",
                       "socket_error", "input_overflow" }
        /\ wired' \in BOOLEAN /\ missed' \in BOOLEAN /\ typed' \in 0 .. MaxIn
    BY <1>6, <2>1, FlowParts
  <2> QED
    BY <1>3, <1>4, <1>5, <2>1, <2>2, <2>3, <2>4 DEF FlowInv
<1>8. CASE live = "ready" /\ Drained(o)
  <2>1. Settle(o)
    BY <1>1, <1>8
  <2> QED
    BY <1>3, <1>4, <1>5, <1>6, <1>8, <2>1, SettleKeeps
<1>9. CASE live = "ready" /\ ~ Drained(o)
  <2>1. Settle(Flushed(Resumed(o)))
    BY <1>1, <1>9
  <2>2. OutSound(Resumed(o)) /\ Line(Resumed(o)) = Line(o)
    BY <1>3, ResumedKeeps
  <2>3. OutSound(Flushed(Resumed(o))) /\ Line(Flushed(Resumed(o))) = Line(o)
    BY <2>2, FlushedKeeps DEF OutSound
  <2>4. Whole(got' \o Line(Flushed(Resumed(o))), dropped', made')
    BY <1>5, <2>3
  <2> QED
    BY <1>4, <1>5, <1>6, <1>9, <2>1, <2>3, <2>4, SettleKeeps
<1> QED
  BY <1>7, <1>8, <1>9

\* The interval.
LEMMA PollOutputKeeps ==
  ASSUME FlowInv, PollOutput
  PROVE  FlowInv'
<1>1. live = "ready" /\ Settle(Resumed(Flushed(out)))
      /\ UNCHANGED <<wired, got, made, dropped, in, typed, missed>>
  BY DEF PollOutput
<1>2. Moving(out) /\ Whole(got \o Line(out), dropped, made)
  BY FlowParts
<1>3. OutSound(Flushed(out)) /\ Line(Flushed(out)) = Line(out)
  BY <1>2, FlushedKeeps
<1>4. OutSound(Resumed(Flushed(out))) /\ Line(Resumed(Flushed(out))) = Line(out)
  BY <1>3, ResumedKeeps
<1>5. /\ got' \in Seq(Chunk) /\ \A i \in 1 .. Len(got') : Size(got'[i]) \in Sizes
      /\ \A c \in dropped' : c \in Chunk /\ Size(c) \in Sizes /\ Size(c) > High
      /\ made' \in 0 .. MaxOut
  BY <1>1, FlowParts
<1>6. Whole(got' \o Line(Resumed(Flushed(out))), dropped', made')
  BY <1>1, <1>2, <1>4
<1>7. UNCHANGED <<wired, in, typed, missed>>
  BY <1>1
<1> QED
  BY <1>1, <1>4, <1>5, <1>6, <1>7, SettleKeeps

\* onClose of the channel: what is queued stays in the line.
LEMMA ChannelClosesKeeps ==
  ASSUME FlowInv, ChannelCloses
  PROVE  FlowInv'
<1> DEFINE x == [out EXCEPT !.closing = TRUE, !.held = TRUE]
           o == Flushed(x)
           p == [o EXCEPT !.drainTimer = ~ Drained(o)]
<1>1. live = "ready" /\ Settle(p)
      /\ UNCHANGED <<wired, got, made, dropped, in, typed, missed>>
  BY DEF ChannelCloses
<1>2. Moving(out) /\ Whole(got \o Line(out), dropped, made) /\ out \in Output
  BY FlowParts
<1>3. SameLine(out, x) /\ x.held
  BY <1>2 DEF SameLine, Output
<1> HIDE DEF x
<1>4. Moving(x) /\ Line(x) = Line(out)
  BY <1>2, <1>3, FlagsOnly
<1>5. OutSound(o) /\ Line(o) = Line(out)
  BY <1>4, FlushedKeeps
<1> HIDE DEF o
<1>6. o \in Output /\ Moving(o)
  BY <1>5 DEF OutSound, Moving
<1>7. SameLine(o, p) /\ p.paused = o.paused /\ p.held = o.held
  BY <1>6 DEF SameLine, Output, Drained
<1> HIDE DEF p
<1>8. OutSound(p) /\ Line(p) = Line(out)
  <2>1. p.paused => p.held
    BY <1>6, <1>7 DEF Moving
  <2>2. Moving(p) /\ Line(p) = Line(o)
    BY <1>6, <1>7, <2>1, FlagsOnly
  <2>3. p.queue # <<>> => p.held
    BY <1>5, <1>7 DEF OutSound, SameLine
  <2> QED
    BY <1>5, <2>2, <2>3 DEF OutSound
<1>9. /\ got' \in Seq(Chunk) /\ \A i \in 1 .. Len(got') : Size(got'[i]) \in Sizes
      /\ \A c \in dropped' : c \in Chunk /\ Size(c) \in Sizes /\ Size(c) > High
      /\ made' \in 0 .. MaxOut
  BY <1>1, FlowParts
<1>10. Whole(got' \o Line(p), dropped', made') /\ UNCHANGED <<wired, in, typed, missed>>
  BY <1>1, <1>2, <1>8
<1> QED
  BY <1>1, <1>8, <1>9, <1>10, SettleKeeps

\* The output is left alone.
LEMMA OutputStays ==
  ASSUME FlowInv, UNCHANGED <<out, got, made, dropped>>,
         live' \in { "ready", "drain_timeout", "slow_consumer", "socket_error",
                     "input_overflow" } \/ live' = live,
         wired' \in BOOLEAN, missed' \in BOOLEAN, typed' \in 0 .. MaxIn, InSound'
  PROVE  FlowInv'
<1>1. /\ live' \in { "ready", "channel_closed", "drain_timeout", "slow_consumer",
                     "socket_error", "input_overflow" }
      /\ live' = "channel_closed" => Line(out) = <<>>
  BY FlowParts
<1> QED
  BY <1>1 DEF FlowInv

\* An input message waits or is written.
LEMMA InputKeeps ==
  ASSUME FlowInv, Input
  PROVE  FlowInv'
<1> DEFINE i == [in EXCEPT !.queue = Append(@, typed + 1)]
<1>1. /\ live = "ready" /\ typed < MaxIn /\ typed' = typed + 1
      /\ UNCHANGED <<wired, out, got, made, dropped, missed>>
      /\ IF Len(i.queue) > InHigh
         THEN in' = i /\ live' = "input_overflow"
         ELSE in' = (IF i.blocked THEN i ELSE Written(i)) /\ UNCHANGED live
  BY DEF Input
<1>2. /\ in \in Incoming /\ Len(in.queue) <= InHigh
      /\ in.blocked => in.held > 0 \/ missed
      /\ typed \in 0 .. MaxIn /\ MaxIn \in Nat /\ InHigh \in Nat
  BY <1>1, FlowParts, FlowAssumption DEF InSound
<1>3. typed' \in 0 .. MaxIn /\ typed + 1 \in 1 .. MaxIn
  BY <1>1, <1>2
<1>4. in.queue \in Seq(1 .. MaxIn)
  BY <1>2 DEF Incoming
<1>5. /\ Append(in.queue, typed + 1) \in Seq(1 .. MaxIn)
      /\ Len(Append(in.queue, typed + 1)) = Len(in.queue) + 1 /\ Len(in.queue) \in Nat
  BY <1>3, <1>4, AppendProperties, LenProperties
<1>6. /\ i \in Incoming /\ Len(i.queue) = Len(in.queue) + 1
      /\ i.blocked = in.blocked /\ i.held = in.held
  BY <1>2, <1>5 DEF Incoming
<1> HIDE DEF i
<1>7. InSound' /\ (live' = "ready" \/ live' = "input_overflow")
  <2>1. CASE Len(i.queue) > InHigh
    <3>1. in' = i /\ live' = "input_overflow"
      BY <1>1, <2>1
    <3>2. Len(i.queue) <= InHigh + 1
      BY <1>2, <1>5, <1>6
    <3> QED
      BY <1>6, <3>1, <3>2 DEF InSound
  <2>2. CASE ~ (Len(i.queue) > InHigh)
    <3>1. in' = (IF i.blocked THEN i ELSE Written(i)) /\ live' = "ready" /\ missed' = missed
      BY <1>1, <2>2
    <3>2. Len(i.queue) <= InHigh /\ Len(i.queue) \in Nat
      BY <1>2, <1>5, <1>6, <2>2
    <3>3. CASE i.blocked
      <4>1. in' = i
        BY <3>1, <3>3
      <4>2. Len(i.queue) <= InHigh + 1
        BY <1>2, <3>2
      <4> QED
        BY <1>2, <1>6, <3>1, <3>2, <3>3, <4>1, <4>2 DEF InSound
    <3>4. CASE ~ i.blocked
      <4>1. in' = Written(i)
        BY <3>1, <3>4
      <4>2. /\ Written(i) \in Incoming /\ Len(Written(i).queue) <= Len(i.queue)
            /\ Written(i).blocked => Written(i).held = Window
        BY <1>6, WrittenKeeps
      <4>3. Len(Written(i).queue) \in Nat
        <5>1. Written(i).queue \in Seq(1 .. MaxIn)
          BY <4>2 DEF Incoming
        <5> QED
          BY <5>1, LenProperties
      <4>4. Len(Written(i).queue) <= InHigh /\ Len(Written(i).queue) <= InHigh + 1
        BY <1>2, <3>2, <4>2, <4>3
      <4>5. Written(i).blocked => Written(i).held > 0
        BY <4>2, FlowAssumption
      <4> QED
        BY <3>1, <4>1, <4>2, <4>4, <4>5 DEF InSound
    <3> QED
      BY <3>3, <3>4
  <2> QED
    BY <2>1, <2>2, <1>1
<1>8. wired' \in BOOLEAN /\ missed' \in BOOLEAN
  BY <1>1, FlowParts
<1> QED
  BY <1>1, <1>3, <1>7, <1>8, OutputStays

\* The channel takes a message: emptied while nobody listens, its `drain' is missed.
LEMMA ChannelTakesKeeps ==
  ASSUME FlowInv, ChannelTakes
  PROVE  FlowInv'
<1> DEFINE i == [in EXCEPT !.held = @ - 1, !.taken = @ + 1]
           empty == i.held = 0 /\ i.blocked
<1>1. /\ in.held > 0
      /\ in' = IF empty /\ wired /\ live = "ready" THEN Written(i) ELSE i
      /\ missed' = (missed \/ (empty /\ ~ wired))
      /\ UNCHANGED <<live, wired, out, got, made, dropped, typed>>
  BY DEF ChannelTakes
<1>2. /\ in \in Incoming /\ Len(in.queue) <= InHigh + 1
      /\ live = "ready" => Len(in.queue) <= InHigh
      /\ live = "ready" /\ in.blocked => in.held > 0 \/ missed
      /\ wired \in BOOLEAN /\ missed \in BOOLEAN /\ InHigh \in Nat /\ Window \in Nat
  BY FlowParts, FlowAssumption DEF InSound
<1>3. in.held - 1 \in 0 .. Window /\ in.taken + 1 \in Nat /\ Len(in.queue) \in Nat
  <2>1. in.queue \in Seq(1 .. MaxIn) /\ in.held \in 0 .. Window /\ in.taken \in Nat
    BY <1>2 DEF Incoming
  <2> QED
    BY <1>1, <1>2, <2>1, LenProperties
<1>4. /\ i \in Incoming /\ i.queue = in.queue /\ i.blocked = in.blocked /\ i.held = in.held - 1
      /\ i.held \in 0 .. Window
  BY <1>2, <1>3 DEF Incoming
<1> HIDE DEF i
<1>5. missed' \in BOOLEAN
  BY <1>1, <1>2
<1>6. InSound'
  <2>1. CASE empty /\ wired /\ live = "ready"
    <3>1. in' = Written(i) /\ live' = live
      BY <1>1, <2>1
    <3>2. /\ Written(i) \in Incoming /\ Len(Written(i).queue) <= Len(i.queue)
          /\ Written(i).blocked => Written(i).held = Window
      BY <1>4, WrittenKeeps
    <3>3. Len(Written(i).queue) \in Nat
      <4>1. Written(i).queue \in Seq(1 .. MaxIn)
        BY <3>2 DEF Incoming
      <4> QED
        BY <4>1, LenProperties
    <3>4. Len(Written(i).queue) <= InHigh /\ Len(Written(i).queue) <= InHigh + 1
      BY <1>2, <1>3, <1>4, <2>1, <3>2, <3>3
    <3>5. Written(i).blocked => Written(i).held > 0
      BY <3>2, FlowAssumption
    <3> QED
      BY <3>1, <3>2, <3>4, <3>5 DEF InSound
  <2>2. CASE ~ (empty /\ wired /\ live = "ready")
    <3>1. in' = i /\ live' = live
      BY <1>1, <2>2
    <3>2. live = "ready" /\ i.blocked => i.held > 0 \/ missed'
      <4>1. HAVE live = "ready" /\ i.blocked
      <4>2. CASE i.held = 0
        BY <1>1, <2>2, <4>1, <4>2
      <4>3. CASE i.held # 0
        <5>1. i.held \in 0 .. Window
          BY <1>4
        <5>2. i.held > 0
          BY <1>2, <4>3, <5>1
        <5> QED
          BY <5>2
      <4> QED
        BY <4>2, <4>3
    <3> QED
      BY <1>2, <1>4, <3>1, <3>2 DEF InSound
  <2> QED
    BY <2>1, <2>2
<1>7. wired' \in BOOLEAN /\ typed' \in 0 .. MaxIn
  BY <1>1, FlowParts
<1> QED
  BY <1>1, <1>5, <1>6, <1>7, OutputStays

\* The other steps close the session or attach the handlers.
LEMMA OthersKeep ==
  ASSUME FlowInv, Attach \/ DrainTimeout \/ SlowConsumer \/ SendFails
  PROVE  FlowInv'
<1>1. /\ UNCHANGED <<out, got, made, dropped, in, typed, missed>>
      /\ live' \in { "drain_timeout", "slow_consumer", "socket_error" } \/ live' = live
      /\ wired' = wired \/ wired' = TRUE
  BY DEF Attach, DrainTimeout, SlowConsumer, SendFails, Ends
<1>2. live' = "ready" => live = "ready"
  BY <1>1
<1>3. InSound'
  BY <1>1, <1>2, FlowParts, InputStays
<1>4. wired' \in BOOLEAN /\ missed' \in BOOLEAN /\ typed' \in 0 .. MaxIn
  BY <1>1, FlowParts
<1> QED
  BY <1>1, <1>3, <1>4, OutputStays

\* An opened terminal begins with nothing.
LEMMA FlowBegins == FInit => FlowInv
<1> SUFFICES ASSUME FInit PROVE FlowInv
  OBVIOUS
<1>1. /\ live = "ready" /\ wired = FALSE /\ got = <<>> /\ made = 0 /\ dropped = {}
      /\ typed = 0 /\ missed = FALSE
      /\ out = [ queue |-> <<>>, sending |-> <<>>, paused |-> FALSE, held |-> FALSE,
                 slow |-> FALSE, closing |-> FALSE, drainTimer |-> FALSE, upto |-> 0 ]
      /\ in = [queue |-> <<>>, held |-> 0, blocked |-> FALSE, taken |-> 0]
  BY DEF FInit
<1>2. <<>> \in Seq(Chunk) /\ Len(<<>>) = 0 /\ <<>> \in Seq(1 .. MaxIn)
  OBVIOUS
<1>3. out \in Output /\ out.sending = <<>> /\ out.queue = <<>>
  BY <1>1, <1>2 DEF Output
<1>4. Line(out) = <<>> /\ got \o Line(out) = <<>>
  BY <1>1, <1>2, <1>3, ConcatEmptySeq DEF Line
<1>5. Bytes(<<>>) = 0
  BY DEF Bytes
<1>6. Low + High \in Nat /\ High \in Nat /\ 0 <= Low + High
  BY FlowAssumption DEF Low
<1>7. Placed(<<>>)
  BY <1>2 DEF Placed
<1>8. OutSound(out)
  <2>1. ~ out.paused
    BY <1>1
  <2> QED
    BY <1>3, <1>4, <1>5, <1>6, <1>7, <2>1 DEF OutSound, Moving
<1>9. Whole(<<>>, {}, 0)
  BY <1>2, FS_EmptySet DEF Whole
<1>10. InSound
  BY <1>1, <1>2, FlowAssumption DEF InSound, Incoming
<1>11. made \in 0 .. MaxOut /\ typed \in 0 .. MaxIn
  BY <1>1, FlowAssumption
<1>12. Whole(got \o Line(out), dropped, made)
  BY <1>1, <1>4, <1>9
<1>13. got \in Seq(Chunk) /\ \A i \in 1 .. Len(got) : Size(got[i]) \in Sizes
  BY <1>1, <1>2
<1> QED
  BY <1>1, <1>8, <1>10, <1>11, <1>12, <1>13 DEF FlowInv

\* Every step keeps what is kept.
LEMMA FlowGoesOn == FlowInv /\ [FNext]_fvars => FlowInv'
<1> SUFFICES ASSUME FlowInv, [FNext]_fvars PROVE FlowInv'
  OBVIOUS
<1>1. CASE UNCHANGED fvars
  BY <1>1 DEF fvars, FlowInv, InSound
<1>2. ASSUME NEW size \in Sizes, Data(size) PROVE FlowInv'
  BY <1>2, DataKeeps
<1>3. CASE SendDone
  BY <1>3, SendDoneKeeps
<1>4. CASE PollOutput
  BY <1>4, PollOutputKeeps
<1>5. CASE Input
  BY <1>5, InputKeeps
<1>6. CASE ChannelTakes
  BY <1>6, ChannelTakesKeeps
<1>7. CASE ChannelCloses
  BY <1>7, ChannelClosesKeeps
<1>8. CASE Attach \/ DrainTimeout \/ SlowConsumer \/ SendFails
  BY <1>8, OthersKeep
<1> QED
  BY <1>1, <1>2, <1>3, <1>4, <1>5, <1>6, <1>7, <1>8 DEF FNext

\* From what is kept: the types and the order of the output.
LEMMA FlowInvIsExact == FlowInv => FlowIsExact
<1> SUFFICES ASSUME FlowInv PROVE FlowIsExact
  OBVIOUS
<1> DEFINE all == got \o out.sending \o out.queue
<1>1. /\ got \in Seq(Chunk) /\ out.sending \in Seq(Chunk) /\ out.queue \in Seq(Chunk)
      /\ all = got \o Line(out) /\ all \in Seq(Chunk)
      /\ Line(out) \in Seq(Chunk)
  <2>1. got \in Seq(Chunk) /\ out.sending \in Seq(Chunk) /\ out.queue \in Seq(Chunk)
        /\ Line(out) \in Seq(Chunk) /\ got \o Line(out) \in Seq(Chunk)
    BY FlowParts
  <2>2. PICK g, s, q \in Seq(Chunk) : g = got /\ s = out.sending /\ q = out.queue
    BY <2>1
  <2>3. (g \o s) \o q = g \o (s \o q)
    BY ChunksChained
  <2>4. all = (g \o s) \o q /\ got \o Line(out) = g \o (s \o q)
    BY <2>2 DEF Line
  <2> QED
    BY <2>1, <2>3, <2>4
<1>2. /\ \A i, j \in 1 .. Len(all) : i < j => all[i].id < all[j].id
      /\ \A i \in 1 .. Len(all) : all[i].id <= made
      /\ \A c \in dropped : c.id <= made
      /\ \A n \in 1 .. made : (\E i \in 1 .. Len(all) : all[i].id = n)
                                \/ (\E c \in dropped : c.id = n)
      /\ IsFiniteSet(dropped) /\ Len(all) + Cardinality(dropped) = made
  <2>1. Whole(got \o Line(out), dropped, made)
    BY FlowParts
  <2> QED
    BY <1>1, <2>1 DEF Whole
<1>3. DOMAIN all = 1 .. Len(all) /\ Len(all) \in Nat
  BY <1>1, LenProperties
<1>4. \A i \in 1 .. Len(all) : all[i] \in Chunk /\ all[i].id \in Nat /\ all[i].id >= 1
  BY <1>1, ChunkAt
<1> HIDE DEF all
<1>5. OutputInOrder
  <2> DEFINE ids == IdsOf(all)
  <2>1. DOMAIN ids = 1 .. Len(all) /\ \A i \in 1 .. Len(all) : ids[i] = all[i].id
    BY <1>3 DEF IdsOf
  <2>2. ToSet(ids) = { all[i].id : i \in 1 .. Len(all) }
    BY <2>1 DEF ToSet
  <2> HIDE DEF ids
  <2>3. \A c \in dropped : c.id \in Nat /\ c.id >= 1
    BY FlowParts DEF Chunk
  <2>4. \A n \in ToSet(ids) \cup { c.id : c \in dropped } : n \in 1 .. made
    <3>1. made \in Nat
      BY FlowParts
    <3> QED
      BY <1>2, <1>4, <2>2, <2>3, <3>1
  <2>5. \A n \in 1 .. made : n \in ToSet(ids) \cup { c.id : c \in dropped }
    BY <1>2, <2>2
  <2>6. ToSet(ids) \cup { c.id : c \in dropped } = 1 .. made
    BY <2>4, <2>5
  <2>7. \A i, j \in DOMAIN ids : i < j => ids[i] < ids[j]
    BY <1>2, <2>1
  <2> QED
    BY <2>6, <2>7 DEF OutputInOrder, ids, all
<1>6. FlowTypeOK
  <2>1. \A c \in ToSet(all) \cup dropped : c \in Chunk /\ Size(c) \in Sizes
    <3>1. \A i \in 1 .. Len(all) : Size(all[i]) \in Sizes
      <4>1. /\ Len(all) = Len(got) + Len(Line(out)) /\ Len(got) \in Nat /\ Len(Line(out)) \in Nat
            /\ \A i \in 1 .. Len(got) : all[i] = got[i]
            /\ \A i \in 1 .. Len(Line(out)) : all[Len(got) + i] = Line(out)[i]
        BY <1>1, LineParts
      <4>2. /\ \A i \in 1 .. Len(got) : Size(got[i]) \in Sizes
            /\ \A i \in 1 .. Len(Line(out)) : Size(Line(out)[i]) \in Sizes
        BY FlowParts DEF Moving, Placed
      <4>3. ASSUME NEW i \in 1 .. Len(all), ~ (i <= Len(got)) PROVE Size(all[i]) \in Sizes
        <5>1. PICK j \in 1 .. Len(Line(out)) : i = Len(got) + j
          <6>1. i - Len(got) \in 1 .. Len(Line(out)) /\ i = Len(got) + (i - Len(got))
            BY <4>1, <4>3
          <6> QED
            BY <6>1
        <5> QED
          BY <4>1, <4>2, <5>1
      <4>4. ASSUME NEW i \in 1 .. Len(all), i <= Len(got) PROVE Size(all[i]) \in Sizes
        <5>1. i \in 1 .. Len(got)
          BY <4>1, <4>4
        <5> QED
          BY <4>1, <4>2, <5>1
      <4> QED
        BY <4>3, <4>4
    <3>2. ToSet(all) = { all[i] : i \in 1 .. Len(all) }
      BY <1>3 DEF ToSet
    <3> QED
      BY <1>4, <3>1, <3>2, FlowParts
  <2>2. /\ {out.paused, out.held, out.slow, out.closing, out.drainTimer} \subseteq BOOLEAN
    BY FlowParts DEF Output
  <2>3. in.held \in 0 .. Window /\ Len(in.queue) <= InHigh + 1
    BY FlowParts DEF InSound, Incoming
  <2>4. /\ live \in { "ready", "channel_closed", "drain_timeout", "slow_consumer",
                      "socket_error", "input_overflow" }
        /\ made \in 0 .. MaxOut /\ typed \in 0 .. MaxIn
        /\ {wired, missed} \subseteq BOOLEAN
    BY FlowParts
  <2> QED
    BY <2>1, <2>2, <2>3, <2>4 DEF FlowTypeOK, all
<1>7. OnlyOversizeIsDropped
  BY FlowParts DEF OnlyOversizeIsDropped
<1>8. BuffersAreBounded
  BY FlowParts DEF Moving, BuffersAreBounded
<1>9. TailIsSent
  <2>1. SUFFICES ASSUME live = "channel_closed"
                 PROVE  Len(got) + Cardinality(dropped) = made
    BY DEF TailIsSent
  <2>2. Line(out) = <<>>
    BY <2>1, FlowParts
  <2>3. all = got
    BY <1>1, <2>2, ConcatEmptySeq
  <2> QED
    BY <1>2, <2>3
<1>10. BlockedInputIsAwaited
  BY FlowParts DEF InSound, BlockedInputIsAwaited
<1> QED
  BY <1>5, <1>6, <1>7, <1>8, <1>9, <1>10 DEF FlowIsExact

\* Both directions of a terminal, for any sizes of chunks, any buffers and any
\* window of the channel: nothing the shell printed is lost, repeated or
\* reordered but a chunk larger than the whole buffer, what the socket and the
\* queue hold is bounded, a session closed with its channel has sent its tail,
\* and input waits only for a channel that will ask for more.
THEOREM FlowStaysExact == FSpec => []FlowIsExact
<1>1. FInit => FlowInv
  BY FlowBegins
<1>2. FlowInv /\ [FNext]_fvars => FlowInv'
  BY FlowGoesOn
<1>3. FlowInv => FlowIsExact
  BY FlowInvIsExact
<1> QED
  BY <1>1, <1>2, <1>3, PTL DEF FSpec
=============================================================================
