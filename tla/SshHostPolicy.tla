--------------------------- MODULE SshHostPolicy ---------------------------
(***************************************************************************)
(* Which addresses the API may open an SSH connection to: a literal is     *)
(* parsed and classified, a name is resolved and every address it has must *)
(* be allowed.  One behaviour is one input and its verdict.                *)
(*                                                                         *)
(* An IPv6 literal is the sequence of its parts between colons, the empty  *)
(* part being written Empty; its last 32 bits may be a dotted IPv4 suffix. *)
(* Groups and Octets are the values tried, Lengths the numbers of parts;   *)
(* the first group of a literal is of Firsts as well.                      *)
(***************************************************************************)
EXTENDS Integers, Sequences, FiniteSets, SequencesExt

CONSTANTS Groups, Firsts, Octets, Lengths, MaxAddresses

Hextets == 0 .. 65535

ASSUME PolicyAssumption ==
  /\ Groups \subseteq Hextets /\ Firsts \subseteq Hextets
  /\ Octets \subseteq 0 .. 255 /\ Lengths \subseteq Nat /\ MaxAddresses \in Nat

VARIABLES
  literal,  \* the parts of an IPv6 literal, and its suffix
  names,    \* the addresses a name resolves to, as their classes
  privateAllowed,  \* privateAllowed networks are allowed by the configuration
  verdict   \* what the policy says of the three, once it has been asked

yvars == <<literal, names, privateAllowed, verdict>>

Empty == -1
NoSuffix == <<>>
Invalid == <<>>
Unasked == [class |-> "none", chosen |-> 0]

-----------------------------------------------------------------------------
(* IPv4 *)

\* Is the address in the network of this base and length?  Networks of 8, 12
\* and 16 bits are compared group by group.
InRange4(a, base, bits) ==
  CASE bits = 8  -> a[1] = base[1]
    [] bits = 12 -> a[1] = base[1] /\ a[2] \div 16 = base[2] \div 16
    [] bits = 16 -> a[1] = base[1] /\ a[2] = base[2]

Classify4(a) ==
  CASE InRange4(a, <<127, 0>>, 8) -> "localhost"
    [] InRange4(a, <<169, 254>>, 16) -> "metadata"
    [] InRange4(a, <<0, 0>>, 8) -> "localhost"
    [] \/ InRange4(a, <<10, 0>>, 8)
       \/ InRange4(a, <<172, 16>>, 12)
       \/ InRange4(a, <<192, 168>>, 16) -> "private"
    [] OTHER -> "public"

-----------------------------------------------------------------------------
(* IPv6 *)

Zeros(n) == [i \in 1 .. n |-> 0]
Pair(s) == IF s = NoSuffix THEN <<>> ELSE << 256 * s[1] + s[2], 256 * s[3] + s[4] >>

\* An empty part counts as zero.
Values(parts) == [i \in DOMAIN parts |-> IF parts[i] = Empty THEN 0 ELSE parts[i]]

Empties(l) == { i \in DOMAIN l.parts : l.parts[i] = Empty }

\* The zeros the first empty part stands for.
Missing(l, first) ==
  8 - (first - 1) - (Len(l.parts) - first) - Len(Pair(l.suffix))

\* parseIpv6Hextets: the first empty part is expanded, any other is a zero.
Parse(l) ==
  LET first == Min(Empties(l))
      parts == IF Empties(l) = {} THEN Values(l.parts)
               ELSE Values(SubSeq(l.parts, 1, first - 1))
                    \o Zeros(Missing(l, first))
                    \o Values(SubSeq(l.parts, first + 1, Len(l.parts)))
  IN CASE Len(l.parts) \notin 2 .. 8 -> Invalid
       [] Empties(l) # {} /\ Missing(l, first) < 1 -> Invalid
       [] Empties(l) = {} /\ Len(l.parts) # 8 - Len(Pair(l.suffix)) -> Invalid
       [] OTHER -> parts \o Pair(l.suffix)

\* extractIpv4Mapped
Mapped(h) == Len(h) = 8 /\ SubSeq(h, 1, 5) = Zeros(5) /\ h[6] = 65535
Inner(h) == << h[7] \div 256, h[7] % 256, h[8] \div 256, h[8] % 256 >>

Classify6(h) ==
  CASE h = Invalid -> "invalid"
    [] h = Zeros(8) \/ h = Append(Zeros(7), 1) -> "localhost"
    [] h[1] \in 65152 .. 65215 -> "metadata"
    [] h[1] \in 64512 .. 65023 -> "private"
    [] OTHER -> "public"

\* The literal path of assertSshHostAllowedAsync.
ClassOf(h) == IF Mapped(h) THEN Classify4(Inner(h)) ELSE Classify6(h)

-----------------------------------------------------------------------------
(* The policy *)

\* assertClassificationAllowed
Allowed(class) == class = "public" \/ (class = "private" /\ privateAllowed)

\* Faulty: one allowed address is enough.
Resolved_Any(s) ==
  IF \A i \in DOMAIN s : ~ Allowed(s[i]) THEN 0
  ELSE CHOOSE i \in DOMAIN s : Allowed(s[i])

\* A name: every address must be allowed; the first public one is used, or the
\* first.  Zero refuses.
Resolved(s) ==
  IF s = <<>> \/ \E i \in DOMAIN s : ~ Allowed(s[i]) THEN 0
  ELSE LET public == { i \in DOMAIN s : s[i] = "public" }
       IN IF public = {} THEN 1 ELSE Min(public)

Ask ==
  /\ verdict = Unasked
  /\ verdict' = [ class |-> ClassOf(Parse(literal)), chosen |-> Resolved(names) ]
  /\ UNCHANGED <<literal, names, privateAllowed>>

Classes == {"localhost", "metadata", "private", "public", "invalid"}

\* The parts tried before an IPv4 suffix.
SuffixedParts ==
  { <<Empty, Empty, 65535>>, <<Empty, Empty>>, <<1, Empty>>, <<Empty>>,
    <<0, 0, 0, 0, 0, 65535>>, <<0, 0, 0, Empty, 65535>>, <<Empty, Empty, 1, 1, 1, 1, 1>> }

BareLiteral ==
  \E f \in Groups \cup Firsts \cup {Empty}, n \in Lengths :
    \E t \in [1 .. n - 1 -> Groups \cup {Empty}] :
      literal = [parts |-> <<f>> \o t, suffix |-> NoSuffix]

SuffixedLiteral ==
  \E p \in SuffixedParts, a \in Octets, b \in Octets, c \in {0, 1} :
    literal = [parts |-> p, suffix |-> <<a, b, c, 1>>]

YInit ==
  /\ verdict = Unasked
  /\ \/ (BareLiteral \/ SuffixedLiteral) /\ names = <<>> /\ privateAllowed = FALSE
     \/ /\ literal = [parts |-> <<Empty, Empty, 1>>, suffix |-> NoSuffix]
        /\ privateAllowed \in BOOLEAN /\ names \in BoundedSeq(Classes, MaxAddresses)

YNext == Ask

YSpec == YInit /\ [][YNext]_yvars

-----------------------------------------------------------------------------
(* Properties *)

\* What RFC 4291 makes of the parts: one "::" at most stands for the groups that
\* are missing; at an end it shows as two empty parts, before a suffix as one,
\* alone as three.
Gap == Empties(literal)

BeforeGap == SubSeq(literal.parts, 1, Min(Gap) - 1)
AfterGap == SubSeq(literal.parts, Max(Gap) + 1, Len(literal.parts))

\* The groups that are missing.
Abbreviated == 8 - Len(BeforeGap) - Len(AfterGap) - Len(Pair(literal.suffix))

WellFormed ==
  LET last == Len(literal.parts)
      bare == literal.suffix = NoSuffix IN
  \/ Gap = {} /\ last + Len(Pair(literal.suffix)) = 8
  \/ /\ \/ Gap = 1 .. 3 /\ last = 3 /\ bare
        \/ Gap = 1 .. 2 /\ (last > 2 \/ ~ bare)
        \/ Gap = {last - 1, last} /\ last > 2 /\ bare
        \/ Gap = {last} /\ last > 1 /\ ~ bare
        \/ \E i \in 2 .. last - 1 : Gap = {i}
     /\ Abbreviated >= 1

\* The expansion: as many zeros as are missing, where the gap is.
Expansion ==
  (IF Gap = {} THEN literal.parts ELSE BeforeGap \o Zeros(Abbreviated) \o AfterGap)
    \o Pair(literal.suffix)

\* The parts and the groups of the suffix.
Slots == Len(literal.parts) + Len(Pair(literal.suffix))

\* The parser gives a well formed literal the groups it stands for, with or
\* without an IPv4 suffix, wherever its "::" is; only one whose "::" at an end
\* stands for a single group, a part too many, is refused (parseIpv6Hextets).
ParserExpands ==
  WellFormed => Parse(literal) = IF Slots > 8 THEN Invalid ELSE Expansion

\* The classes are those of the addresses' networks, through a mapped address
\* too: link-local is fe80::/10, unique local fc00::/7, and so on.
ClassIsOfTheNetwork ==
  verdict # Unasked /\ WellFormed /\ Slots <= 8 =>
    LET e == Expansion IN
    CASE Mapped(e) -> verdict.class = Classify4(Inner(e))
      [] ~ Mapped(e) /\ e[1] \div 64 = 1018 -> verdict.class = "metadata"
      [] ~ Mapped(e) /\ e[1] \div 512 = 126 -> verdict.class = "private"
      [] OTHER -> verdict.class \in {"localhost", "public"}

\* A name is connected to at an address that is allowed, only if all are, and at
\* a public one if there is one.
NamesAreVetted ==
  verdict # Unasked /\ verdict.chosen # 0 =>
    /\ \A i \in DOMAIN names : Allowed(names[i])
    /\ "public" \in ToSet(names) => names[verdict.chosen] = "public"

\* An address is what its literal says, of its network's class, and chosen only
\* if allowed.
NamesAreClassed == ParserExpands /\ ClassIsOfTheNetwork /\ NamesAreVetted
=============================================================================
