------------------------------- MODULE Versions -------------------------------
(* How vina.core.vuln_intel orders versions and matches them against the    *)
(* constraints of a vulnerability.  A version string is split into runs of   *)
(* digits, which compare as numbers, and runs of other characters, which     *)
(* compare as text; of the text only its place in the character order        *)
(* matters: below every digit (".", "-", "+") or above them (letters, "~").  *)
EXTENDS Integers, Sequences

(* A part: <<"int", n>>, or <<"str", rank>> with a negative rank for text    *)
(* that sorts before the digits and a positive one for text after them.      *)
Part    == ({"int"} \X Nat) \cup ({"str"} \X (Int \ {0}))
Version == [epoch : Nat, upstream : Seq(Part), debian : Seq(Part)]

IsInt(p) == p[1] = "int"
Sign(d)  == IF d < 0 THEN -1 ELSE IF d > 0 THEN 1 ELSE 0

(* A missing part against a part: a number zero is as good as nothing.       *)
CmpMissing(p) == IF IsInt(p) /\ p[2] = 0 THEN 0 ELSE -1

CmpTyped(p, q) ==
  IF IsInt(p) = IsInt(q) THEN Sign(p[2] - q[2])
  ELSE IF IsInt(p) THEN Sign(-q[2])
  ELSE Sign(p[2])

\* mutant: a missing part counts as the smaller one on either side
CmpAtOneSided(a, b, i) ==
  IF i <= Len(a) /\ i <= Len(b) THEN CmpTyped(a[i], b[i])
  ELSE IF i <= Len(b) THEN CmpMissing(b[i])
  ELSE IF i <= Len(a) THEN CmpMissing(a[i])
  ELSE 0

(* The parts number i of two lists, either of which may have ended.          *)
CmpAt(a, b, i) ==
  IF i <= Len(a) /\ i <= Len(b) THEN CmpTyped(a[i], b[i])
  ELSE IF i <= Len(b) THEN CmpMissing(b[i])
  ELSE IF i <= Len(a) THEN -CmpMissing(a[i])
  ELSE 0

Differ(a, b) == {i \in 1..(Len(a) + Len(b)) : CmpAt(a, b, i) # 0}
First(D)     == CHOOSE i \in D : \A j \in D : i <= j

CompareParts(a, b) ==
  IF Differ(a, b) = {} THEN 0 ELSE CmpAt(a, b, First(Differ(a, b)))

(* What is left of a list without its trailing <<text, 0>> pairs.            *)
Stripped(s, n) ==
  /\ (Len(s) - n) % 2 = 0
  /\ \A i \in (n + 1)..Len(s) :
       IF (Len(s) - i) % 2 = 0 THEN IsInt(s[i]) /\ s[i][2] = 0 ELSE ~IsInt(s[i])
Normalize(s) == SubSeq(s, 1, First({n \in 0..Len(s) : Stripped(s, n)}))

Compare(u, v) ==
  IF u.epoch # v.epoch THEN (IF u.epoch < v.epoch THEN -1 ELSE 1)
  ELSE LET upstream == CompareParts(Normalize(u.upstream), Normalize(v.upstream))
       IN IF upstream # 0 THEN upstream
          ELSE CompareParts(Normalize(u.debian), Normalize(v.debian))

(* Text and numbers alternate in what _split_version_str returns. A usual     *)
(* version is one whose upstream part, and whose revision if there is one,    *)
(* begin with a digit or with text that sorts after the digits. Of the others *)
(* the order is not transitive: "-" is after nothing and before "0", which is *)
(* as good as nothing.                                                        *)
Alternating(r) == {s \in Seq(Part) : \A i \in 1 .. Len(s) : IsInt(s[i]) <=> i % 2 = r}
DigitLed  == Alternating(1)
LetterLed == {s \in Alternating(0) : Len(s) > 0 /\ s[1][2] > 0}
Usual == {v \in Version : {v.upstream, v.debian} \subseteq DigitLed \cup LetterLed}

-----------------------------------------------------------------------------
(* Constraints.                                                             *)
Operators == {"<", "<=", ">", ">=", "=", "!="}
Constraint == [operator : Operators, version : Version]

Satisfies(v, c) ==
  LET order == Compare(v, c.version) IN
    /\ c.operator = "<"  => order < 0
    /\ c.operator = "<=" => order <= 0
    /\ c.operator = ">"  => order > 0
    /\ c.operator = ">=" => order >= 0
    /\ c.operator = "="  => order = 0
    /\ c.operator = "!=" => order # 0

Dot == <<"str", -2>>

(* The version written as these numbers with dots between them.             *)
Dotted(ns) ==
  [epoch |-> 0, debian |-> <<>>,
   upstream |-> [i \in 1..(2 * Len(ns) - 1) |->
                   IF i % 2 = 1 THEN <<"int", ns[(i + 1) \div 2]>> ELSE Dot]]

(* A pattern as it is written: numbers then a wildcard, a range of two       *)
(* versions, or a comma list of operators and versions (a bare version is    *)
(* "=", the empty pattern the empty list).  Of a wildcard behind an operator  *)
(* or in a list, which no shipped pattern has, the code makes nothing or a    *)
(* ValueError: it has no form here.  In a wildcard pattern the last           *)
(* number that counts loses its place if it is zero: the text "3.0." is      *)
(* stripped of its dots and then of its zeros.                               *)
Counted(ns) == IF Len(ns) > 1 /\ ns[Len(ns)] = 0 THEN Len(ns) - 1
               ELSE IF ns = <<>> THEN 1 ELSE Len(ns)
WildcardToBase(ns) == ns \o <<0>>

ParseWildcard(ns) ==
  LET base == WildcardToBase(ns) IN
    {[operator |-> ">=", version |-> Dotted(base)],
     [operator |-> "<", version |-> Dotted([base EXCEPT ![Counted(ns)] = @ + 1])]}

ParsePattern(pattern) ==
  IF pattern.form = "wildcard" THEN ParseWildcard(pattern.numbers)
  ELSE IF pattern.form = "range"
       THEN {[operator |-> ">=", version |-> Dotted(pattern.from)],
             [operator |-> "<=", version |-> Dotted(pattern.to)]}
  ELSE pattern.constraints

VersionMatches(v, pattern) == \A c \in ParsePattern(pattern) : Satisfies(v, c)
=============================================================================
