-------------------------- MODULE VulnEngineProofs --------------------------
(* Proofs about the vulnerability engine. The comparison of versions is a     *)
(* total order up to equivalence on every usual version, however long, and a  *)
(* constraint therefore selects an interval of them. Selecting, dropping what *)
(* has the key of another, sorting, joining and adding up do to a sequence     *)
(* what they say; so the inventory, the lookups and the matches of a run hold  *)
(* what their parts hold, and every score is within its bounds.                *)
EXTENDS VulnEngine, SequenceTheorems, WellFoundedInduction, FiniteSetTheorems, TLAPS

(* Every set of naturals has a first element: what First chooses.            *)
NatLess == OpToRel(<, Nat)

LEMMA FirstIsLeast ==
  ASSUME NEW D \in SUBSET Nat, D # {}
  PROVE  First(D) \in D /\ \A j \in D : First(D) <= j
<1>1. IsWellFoundedOn(NatLess, Nat)
  BY NatLessThanWellFounded DEF NatLess
<1>2. PICK x \in D : \A y \in D : ~ (<<y, x>> \in NatLess)
  BY <1>1, WFMin
<1>3. \A y, z \in Nat : y < z => <<y, z>> \in NatLess
  BY DEF NatLess, OpToRel
<1>4. \A y \in D : ~ (y < x)
  BY <1>2, <1>3
<1>5. \A y \in D : x <= y
  BY <1>4, SMT
<1> QED
  BY <1>5, Zenon DEF First

-----------------------------------------------------------------------------
(* Parts. *)

LEMMA PartFacts ==
  ASSUME NEW p \in Part
  PROVE  /\ p[1] \in {"int", "str"} /\ p[2] \in Int
         /\ IsInt(p) => p[2] \in Nat
         /\ ~IsInt(p) => p[2] # 0
  BY DEF Part, IsInt

LEMMA CmpOneType ==
  ASSUME NEW p \in Part, NEW q \in Part
  PROVE  /\ CmpMissing(p) \in {-1, 0}
         /\ CmpTyped(p, q) \in {-1, 0, 1} /\ CmpTyped(p, q) = -CmpTyped(q, p)
<1>1. CmpMissing(p) \in {-1, 0}
  BY DEF CmpMissing
<1>2. p[2] \in Int /\ q[2] \in Int
  BY PartFacts
<1>3. \A d \in Int : Sign(d) \in {-1, 0, 1} /\ Sign(d) = -Sign(-d)
  BY DEF Sign
<1>4. CASE IsInt(p) = IsInt(q)
  <2>1. CmpTyped(p, q) = Sign(p[2] - q[2]) /\ CmpTyped(q, p) = Sign(q[2] - p[2])
    BY <1>4 DEF CmpTyped
  <2>2. q[2] - p[2] = -(p[2] - q[2]) /\ p[2] - q[2] \in Int
    BY <1>2
  <2> QED
    BY <1>1, <1>3, <2>1, <2>2
<1>5. CASE IsInt(p) /\ ~IsInt(q)
  <2>1. CmpTyped(p, q) = Sign(-q[2]) /\ CmpTyped(q, p) = Sign(q[2])
    BY <1>5 DEF CmpTyped, IsInt
  <2> QED
    BY <1>1, <1>2, <1>3, <2>1
<1>6. CASE ~IsInt(p) /\ IsInt(q)
  <2>1. CmpTyped(p, q) = Sign(p[2]) /\ CmpTyped(q, p) = Sign(-p[2])
    BY <1>6 DEF CmpTyped, IsInt
  <2> QED
    BY <1>1, <1>2, <1>3, <2>1
<1> QED
  BY <1>4, <1>5, <1>6 DEF IsInt

LEMMA CmpAtType ==
  ASSUME NEW a \in Seq(Part), NEW b \in Seq(Part), NEW i \in Nat \ {0}
  PROVE  /\ CmpAt(a, b, i) \in {-1, 0, 1}
         /\ CmpAt(a, b, i) = -CmpAt(b, a, i)
         /\ i > Len(a) + Len(b) => CmpAt(a, b, i) = 0
<1>1. Len(a) \in Nat /\ Len(b) \in Nat
  OBVIOUS
<1>2. i <= Len(a) => a[i] \in Part
  OBVIOUS
<1>3. i <= Len(b) => b[i] \in Part
  OBVIOUS
<1>4. CASE i <= Len(a) /\ i <= Len(b)
  BY <1>1, <1>2, <1>3, <1>4, CmpOneType DEF CmpAt
<1>5. CASE i > Len(a) /\ i <= Len(b)
  BY <1>1, <1>3, <1>5, CmpOneType DEF CmpAt
<1>6. CASE i <= Len(a) /\ i > Len(b)
  BY <1>1, <1>2, <1>6, CmpOneType DEF CmpAt
<1>7. CASE i > Len(a) /\ i > Len(b)
  BY <1>1, <1>7 DEF CmpAt
<1> QED
  BY <1>1, <1>4, <1>5, <1>6, <1>7

-----------------------------------------------------------------------------
(* Lists of parts: the first place where they differ decides.                *)

LEMMA DifferAreNumbers ==
  ASSUME NEW a \in Seq(Part), NEW b \in Seq(Part)
  PROVE  Differ(a, b) \in SUBSET Nat /\ Differ(a, b) \subseteq 1 .. (Len(a) + Len(b))
  BY DEF Differ

LEMMA FirstDifference ==
  ASSUME NEW a \in Seq(Part), NEW b \in Seq(Part), NEW i \in Nat \ {0},
         CmpAt(a, b, i) # 0, \A j \in 1 .. i - 1 : CmpAt(a, b, j) = 0
  PROVE  CompareParts(a, b) = CmpAt(a, b, i)
<1>1. i \in Differ(a, b)
  BY CmpAtType DEF Differ
<1>2. First(Differ(a, b)) \in Differ(a, b) /\ First(Differ(a, b)) <= i
  BY <1>1, DifferAreNumbers, FirstIsLeast
<1>3. First(Differ(a, b)) = i
  BY <1>2 DEF Differ
<1> QED
  BY <1>1, <1>3 DEF CompareParts

LEMMA NoDifference ==
  ASSUME NEW a \in Seq(Part), NEW b \in Seq(Part),
         \A i \in Nat \ {0} : CmpAt(a, b, i) = 0
  PROVE  CompareParts(a, b) = 0
<1>1. \A i \in 1 .. (Len(a) + Len(b)) : CmpAt(a, b, i) = 0
  OBVIOUS
<1> QED
  BY <1>1 DEF CompareParts, Differ

(* Two lists either agree everywhere or have a first difference.             *)
LEMMA AgreeOrDiffer ==
  ASSUME NEW a \in Seq(Part), NEW b \in Seq(Part)
  PROVE  \/ CompareParts(a, b) = 0 /\ \A i \in Nat \ {0} : CmpAt(a, b, i) = 0
         \/ \E i \in Nat \ {0} :
              /\ CmpAt(a, b, i) # 0 /\ CompareParts(a, b) = CmpAt(a, b, i)
              /\ \A j \in 1 .. i - 1 : CmpAt(a, b, j) = 0
<1>1. CASE Differ(a, b) = {}
  <2>1. \A i \in Nat \ {0} : CmpAt(a, b, i) = 0
    BY <1>1, CmpAtType DEF Differ
  <2> QED
    BY <2>1, NoDifference
<1>2. CASE Differ(a, b) # {}
  <2> DEFINE i == First(Differ(a, b))
  <2>1. i \in Differ(a, b) /\ \A j \in Differ(a, b) : i <= j
    BY <1>2, DifferAreNumbers, FirstIsLeast
  <2>2. i \in Nat \ {0} /\ i <= Len(a) + Len(b) /\ CmpAt(a, b, i) # 0
    BY <2>1 DEF Differ
  <2>3. \A j \in 1 .. i - 1 : CmpAt(a, b, j) = 0
    BY <2>1, <2>2 DEF Differ
  <2> QED
    BY <1>2, <2>2, <2>3 DEF CompareParts
<1> QED
  BY <1>1, <1>2

LEMMA ComparePartsAntisymmetric ==
  ASSUME NEW a \in Seq(Part), NEW b \in Seq(Part)
  PROVE  /\ CompareParts(a, b) \in {-1, 0, 1}
         /\ CompareParts(a, b) = -CompareParts(b, a)
<1>1. CASE \A i \in Nat \ {0} : CmpAt(a, b, i) = 0
  <2>1. \A i \in Nat \ {0} : CmpAt(b, a, i) = 0
    BY <1>1, CmpAtType
  <2> QED
    BY <1>1, <2>1, NoDifference
<1>2. ASSUME NEW i \in Nat \ {0},
             CmpAt(a, b, i) # 0, CompareParts(a, b) = CmpAt(a, b, i),
             \A j \in 1 .. i - 1 : CmpAt(a, b, j) = 0
      PROVE  /\ CompareParts(a, b) \in {-1, 0, 1}
             /\ CompareParts(a, b) = -CompareParts(b, a)
  <2>1. CmpAt(b, a, i) # 0 /\ CmpAt(a, b, i) \in {-1, 0, 1} /\ CmpAt(b, a, i) \in {-1, 0, 1}
        /\ CmpAt(a, b, i) = -CmpAt(b, a, i)
    BY <1>2, CmpAtType
  <2>2. \A j \in 1 .. i - 1 : CmpAt(b, a, j) = 0
    BY <1>2, CmpAtType
  <2>3. CompareParts(b, a) = CmpAt(b, a, i)
    BY <2>1, <2>2, FirstDifference
  <2> QED
    BY <1>2, <2>1, <2>3
<1> QED
  BY <1>1, <1>2, AgreeOrDiffer

-----------------------------------------------------------------------------
(* Lists in which numbers, in the places i with i % 2 = r, and text           *)
(* alternate. Of a number, one that is missing counts as zero.                 *)
Num(s, i) == IF i <= Len(s) THEN s[i][2] ELSE 0

LEMMA PartOf ==
  ASSUME NEW r \in {0, 1}, NEW s \in Alternating(r), NEW i \in Nat \ {0}, i <= Len(s)
  PROVE  s[i] \in Part /\ s[i][2] \in Int /\ (IsInt(s[i]) <=> i % 2 = r)
         /\ (i % 2 = r => s[i][2] \in Nat)
<1>1. s \in Seq(Part) /\ Len(s) \in Nat
  BY DEF Alternating
<1>2. i \in 1 .. Len(s)
  BY <1>1
<1>3. s[i] \in Part /\ (IsInt(s[i]) <=> i % 2 = r)
  BY <1>1, <1>2 DEF Alternating
<1> QED
  BY <1>3, PartFacts

LEMMA SignFacts ==
  ASSUME NEW x \in Int, NEW y \in Int
  PROVE  /\ Sign(x - y) \in {-1, 0, 1}
         /\ Sign(x - y) <= 0 <=> x <= y
         /\ Sign(x - y) < 0 <=> x < y
  BY DEF Sign

LEMMA NumberPlace ==
  ASSUME NEW r \in {0, 1}, NEW a \in Alternating(r), NEW b \in Alternating(r), NEW i \in Nat \ {0}, i % 2 = r
  PROVE  /\ Num(a, i) \in Nat /\ Num(b, i) \in Nat
         /\ CmpAt(a, b, i) = Sign(Num(a, i) - Num(b, i))
<1>1. Len(a) \in Nat /\ Len(b) \in Nat
  BY DEF Alternating
<1>2. i <= Len(a) => a[i] \in Part /\ IsInt(a[i]) /\ a[i][2] \in Nat
  BY <1>1, PartOf
<1>3. i <= Len(b) => b[i] \in Part /\ IsInt(b[i]) /\ b[i][2] \in Nat
  BY <1>1, PartOf
<1>4. CASE i <= Len(a) /\ i <= Len(b)
  BY <1>2, <1>3, <1>4 DEF CmpAt, Num, CmpTyped
<1>5. CASE i > Len(a) /\ i <= Len(b)
  BY <1>1, <1>3, <1>5 DEF CmpAt, Num, CmpMissing, Sign
<1>6. CASE i <= Len(a) /\ i > Len(b)
  BY <1>1, <1>2, <1>6 DEF CmpAt, Num, CmpMissing, Sign
<1>7. CASE i > Len(a) /\ i > Len(b)
  BY <1>1, <1>7 DEF CmpAt, Num, Sign
<1> QED
  BY <1>1, <1>4, <1>5, <1>6, <1>7

LEMMA TextPlace ==
  ASSUME NEW r \in {0, 1}, NEW a \in Alternating(r), NEW b \in Alternating(r), NEW i \in Nat \ {0}, i % 2 # r
  PROVE  /\ i <= Len(a) => a[i][2] \in Int
         /\ i <= Len(b) => b[i][2] \in Int
         /\ CmpAt(a, b, i) =
              IF i <= Len(a) /\ i <= Len(b) THEN Sign(a[i][2] - b[i][2])
              ELSE IF i <= Len(b) THEN -1 ELSE IF i <= Len(a) THEN 1 ELSE 0
<1>1. Len(a) \in Nat /\ Len(b) \in Nat
  BY DEF Alternating
<1>2. i <= Len(a) => a[i] \in Part /\ ~IsInt(a[i]) /\ a[i][2] \in Int
  BY <1>1, PartOf
<1>3. i <= Len(b) => b[i] \in Part /\ ~IsInt(b[i]) /\ b[i][2] \in Int
  BY <1>1, PartOf
<1>4. CASE i <= Len(a) /\ i <= Len(b)
  BY <1>2, <1>3, <1>4 DEF CmpAt, CmpTyped, IsInt
<1>5. CASE i > Len(a) /\ i <= Len(b)
  BY <1>1, <1>3, <1>5 DEF CmpAt, CmpMissing
<1>6. CASE i <= Len(a) /\ i > Len(b)
  BY <1>1, <1>2, <1>6 DEF CmpAt, CmpMissing
<1>7. CASE i > Len(a) /\ i > Len(b)
  BY <1>1, <1>7 DEF CmpAt
<1> QED
  BY <1>1, <1>2, <1>3, <1>4, <1>5, <1>6, <1>7

(* In each place the comparison is transitive.                               *)
LEMMA PlaceTransitive ==
  ASSUME NEW r \in {0, 1}, NEW a \in Alternating(r), NEW b \in Alternating(r), NEW c \in Alternating(r), NEW i \in Nat \ {0},
         CmpAt(a, b, i) <= 0, CmpAt(b, c, i) <= 0
  PROVE  /\ CmpAt(a, c, i) <= 0
         /\ CmpAt(a, b, i) < 0 \/ CmpAt(b, c, i) < 0 => CmpAt(a, c, i) < 0
<1>1. CASE i % 2 = r
  <2>1. Num(a, i) <= Num(b, i) /\ Num(b, i) <= Num(c, i)
    BY <1>1, NumberPlace DEF Sign
  <2> QED
    BY <1>1, <2>1, NumberPlace DEF Sign
<1>2. CASE i % 2 # r
  <2>1. Len(a) \in Nat /\ Len(b) \in Nat /\ Len(c) \in Nat
    BY DEF Alternating
  <2>2. CASE i <= Len(a) /\ i <= Len(b) /\ i <= Len(c)
    <3>1. a[i][2] \in Int /\ b[i][2] \in Int /\ c[i][2] \in Int
      BY <2>2, PartOf
    <3>2. /\ CmpAt(a, b, i) = Sign(a[i][2] - b[i][2])
          /\ CmpAt(b, c, i) = Sign(b[i][2] - c[i][2])
          /\ CmpAt(a, c, i) = Sign(a[i][2] - c[i][2])
      BY <1>2, <2>2, TextPlace
    <3> QED
      BY <3>1, <3>2, SignFacts
  <2>3. CASE ~(i <= Len(a) /\ i <= Len(b) /\ i <= Len(c))
    BY <1>2, <2>1, <2>3, TextPlace
  <2> QED
    BY <2>2, <2>3
<1> QED
  BY <1>1, <1>2

LEMMA PartsTransitive ==
  ASSUME NEW r \in {0, 1}, NEW a \in Alternating(r), NEW b \in Alternating(r), NEW c \in Alternating(r),
         CompareParts(a, b) <= 0, CompareParts(b, c) <= 0
  PROVE  /\ CompareParts(a, c) <= 0
         /\ CompareParts(a, b) < 0 \/ CompareParts(b, c) < 0 => CompareParts(a, c) < 0
<1>1. a \in Seq(Part) /\ b \in Seq(Part) /\ c \in Seq(Part)
  BY DEF Alternating
<1>2. ASSUME NEW j \in Nat \ {0}, CmpAt(a, b, j) = 0, CmpAt(b, c, j) = 0
      PROVE  CmpAt(a, c, j) = 0
  <2>1. CmpAt(b, a, j) = 0 /\ CmpAt(c, b, j) = 0
    BY <1>1, <1>2, CmpAtType
  <2>2. CmpAt(a, c, j) <= 0 /\ CmpAt(c, a, j) <= 0
    BY <1>2, <2>1, PlaceTransitive
  <2> QED
    BY <1>1, <2>2, CmpAtType, SMTT(30)
<1>3. ASSUME NEW k \in Nat \ {0},
             CmpAt(a, b, k) <= 0, CmpAt(b, c, k) <= 0, CmpAt(a, b, k) < 0 \/ CmpAt(b, c, k) < 0,
             \A j \in 1 .. k - 1 : CmpAt(a, b, j) = 0 /\ CmpAt(b, c, j) = 0
      PROVE  CompareParts(a, c) < 0
  <2>1. CmpAt(a, c, k) < 0
    BY <1>3, PlaceTransitive
  <2>2. \A j \in 1 .. k - 1 : CmpAt(a, c, j) = 0
    BY <1>2, <1>3
  <2>3. CmpAt(a, c, k) # 0
    BY <1>1, <2>1, CmpAtType
  <2> QED
    BY <1>1, <2>1, <2>2, <2>3, FirstDifference
<1>4. CASE \A i \in Nat \ {0} : CmpAt(a, b, i) = 0
  <2>1. CASE \A i \in Nat \ {0} : CmpAt(b, c, i) = 0
    BY <1>1, <1>2, <1>4, <2>1, NoDifference
  <2>2. ASSUME NEW k \in Nat \ {0}, CmpAt(b, c, k) # 0, CompareParts(b, c) = CmpAt(b, c, k),
               \A j \in 1 .. k - 1 : CmpAt(b, c, j) = 0
        PROVE  CompareParts(a, c) < 0
    <3>1. CmpAt(b, c, k) < 0
      BY <1>1, <2>2, CmpAtType, SMTT(30)
    <3> QED
      BY <1>3, <1>4, <2>2, <3>1
  <2> QED
    BY <1>1, <2>1, <2>2, AgreeOrDiffer, ComparePartsAntisymmetric, SMTT(30)
<1>5. ASSUME NEW i \in Nat \ {0}, CmpAt(a, b, i) # 0, CompareParts(a, b) = CmpAt(a, b, i),
             \A j \in 1 .. i - 1 : CmpAt(a, b, j) = 0
      PROVE  CompareParts(a, c) < 0
  <2>1. CmpAt(a, b, i) < 0
    BY <1>1, <1>5, CmpAtType
  <2>2. CASE \A j \in Nat \ {0} : CmpAt(b, c, j) = 0
    BY <1>3, <1>5, <2>1, <2>2
  <2>3. ASSUME NEW k \in Nat \ {0}, CmpAt(b, c, k) # 0, CompareParts(b, c) = CmpAt(b, c, k),
               \A j \in 1 .. k - 1 : CmpAt(b, c, j) = 0
        PROVE  CompareParts(a, c) < 0
    <3>1. CmpAt(b, c, k) < 0
      BY <1>1, <2>3, CmpAtType, SMTT(30)
    <3>2. CASE i <= k
      <4>1. CmpAt(b, c, i) <= 0
        BY <2>3, <3>1, <3>2
      <4> QED
        BY <1>3, <1>5, <2>1, <2>3, <3>2, <4>1
    <3>3. CASE k < i
      BY <1>3, <1>5, <2>3, <3>1, <3>3
    <3> QED
      BY <3>2, <3>3
  <2> QED
    BY <1>1, <2>2, <2>3, AgreeOrDiffer
<1> QED
  BY <1>1, <1>4, <1>5, AgreeOrDiffer, ComparePartsAntisymmetric, SMTT(30)

-----------------------------------------------------------------------------
(* Lists that begin with a digit, or with text that sorts after the digits.  *)
Led == DigitLed \cup LetterLed

LEMMA LedParts == Led \subseteq Seq(Part)
  BY DEF Led, DigitLed, LetterLed, Alternating

(* The first part decides between one of each.                               *)
LEMMA DigitsBeforeLetters ==
  ASSUME NEW a \in DigitLed, NEW b \in LetterLed
  PROVE  CompareParts(a, b) = -1 /\ CompareParts(b, a) = 1
<1>1. /\ a \in Seq(Part) /\ b \in Seq(Part) /\ Len(a) \in Nat /\ Len(b) \in Nat
      /\ b \in Alternating(0) /\ Len(b) > 0 /\ b[1][2] > 0
  BY DEF DigitLed, LetterLed, Alternating
<1>2. b[1] \in Part /\ ~IsInt(b[1]) /\ b[1][2] \in Int
  BY <1>1, PartOf
<1>3. CmpAt(a, b, 1) = -1
  <2>1. CASE Len(a) = 0
    BY <1>1, <1>2, <2>1 DEF CmpAt, CmpMissing
  <2>2. CASE Len(a) > 0
    <3>1. IsInt(a[1])
      BY <1>1, <2>2, PartOf DEF DigitLed
    <3>2. CmpAt(a, b, 1) = Sign(-b[1][2])
      BY <1>1, <1>2, <2>2, <3>1, SMT DEF CmpAt, CmpTyped, IsInt
    <3> QED
      BY <1>1, <1>2, <3>2 DEF Sign
  <2> QED
    BY <1>1, <2>1, <2>2
<1>4. CompareParts(a, b) = -1
  BY <1>1, <1>3, FirstDifference
<1> QED
  BY <1>1, <1>4, ComparePartsAntisymmetric

LEMMA LedTransitive ==
  ASSUME NEW a \in Led, NEW b \in Led, NEW c \in Led,
         CompareParts(a, b) <= 0, CompareParts(b, c) <= 0
  PROVE  /\ CompareParts(a, c) <= 0
         /\ CompareParts(a, b) < 0 \/ CompareParts(b, c) < 0 => CompareParts(a, c) < 0
<1>1. DigitLed = Alternating(1) /\ LetterLed \subseteq Alternating(0)
  BY DEF DigitLed, LetterLed
<1>2. CASE a \in LetterLed
  <2>1. b \in LetterLed /\ c \in LetterLed
    BY <1>2, DigitsBeforeLetters DEF Led
  <2> QED
    BY <1>1, <1>2, <2>1, PartsTransitive
<1>3. CASE a \in DigitLed /\ c \in LetterLed
  BY <1>3, DigitsBeforeLetters
<1>4. CASE a \in DigitLed /\ c \in DigitLed
  <2>1. b \in DigitLed
    BY <1>4, DigitsBeforeLetters DEF Led
  <2> QED
    BY <1>1, <1>4, <2>1, PartsTransitive
<1> QED
  BY <1>2, <1>3, <1>4 DEF Led

-----------------------------------------------------------------------------
(* Whole versions. *)

LEMMA NormalizeType ==
  ASSUME NEW s \in Seq(Part)
  PROVE  Normalize(s) \in Seq(Part) /\ (s \in Led => Normalize(s) \in Led)
<1> DEFINE kept == {n \in 0 .. Len(s) : Stripped(s, n)}
           n    == First(kept)
<1>1. Len(s) \in Nat
  OBVIOUS
<1>2. Len(s) \in kept
  <2>1. (Len(s) - Len(s)) % 2 = 0 /\ (Len(s) + 1) .. Len(s) = {}
    BY <1>1
  <2> QED
    BY <1>1, <2>1 DEF Stripped
<1>3. n \in 0 .. Len(s)
  <2>1. kept \in SUBSET Nat /\ kept # {}
    BY <1>2
  <2>2. n \in kept
    BY <2>1, FirstIsLeast
  <2> QED
    BY <2>2
<1> HIDE DEF n
<1>4. SubSeq(s, 1, n) \in Seq(Part) /\ Len(SubSeq(s, 1, n)) = n
      /\ \A i \in 1 .. n : SubSeq(s, 1, n)[i] = s[i]
  BY <1>1, <1>3, SubSeqProperties
<1>5. Normalize(s) = SubSeq(s, 1, n)
  BY DEF Normalize, n
<1>6. ASSUME s \in Led PROVE SubSeq(s, 1, n) \in Led
  <2> DEFINE t == SubSeq(s, 1, n)
  <2>1. t \in Seq(Part) /\ Len(t) = n /\ \A i \in 1 .. Len(t) : i \in 1 .. Len(s) /\ t[i] = s[i]
    BY <1>1, <1>3, <1>4
  <2> HIDE DEF t
  <2>2. \A r \in {0, 1} : s \in Alternating(r) => t \in Alternating(r)
    BY <2>1 DEF Alternating
  <2>3. s \in DigitLed => t \in DigitLed
    BY <2>2 DEF DigitLed
  <2>4. n = 0 => t \in DigitLed
    BY <2>1 DEF DigitLed, Alternating
  <2>5. s \in LetterLed /\ n > 0 => t \in LetterLed
    BY <1>3, <2>1, <2>2 DEF LetterLed
  <2>6. t \in Led
    BY <1>3, <1>6, <2>3, <2>4, <2>5 DEF Led
  <2> QED
    BY <2>6 DEF t
<1> QED
  BY <1>4, <1>5, <1>6

(* Comparing two versions either way round gives opposite answers, for all   *)
(* versions: exactly one of "<" and ">=" holds of a version and a bound.     *)
THEOREM CompareAntisymmetric ==
  ASSUME NEW u \in Version, NEW v \in Version
  PROVE  Compare(u, v) \in {-1, 0, 1} /\ Compare(u, v) = -Compare(v, u)
<1>1. /\ u.epoch \in Nat /\ u.upstream \in Seq(Part) /\ u.debian \in Seq(Part)
      /\ v.epoch \in Nat /\ v.upstream \in Seq(Part) /\ v.debian \in Seq(Part)
  BY DEF Version
<1>2. /\ Normalize(u.upstream) \in Seq(Part) /\ Normalize(u.debian) \in Seq(Part)
      /\ Normalize(v.upstream) \in Seq(Part) /\ Normalize(v.debian) \in Seq(Part)
  BY <1>1, NormalizeType
<1> QED
  BY <1>1, <1>2, ComparePartsAntisymmetric DEF Compare

(* Usual versions are totally preordered: a range that is checked at its     *)
(* ends is right in between.                                                  *)
THEOREM CompareTransitive ==
  ASSUME NEW u \in Usual, NEW v \in Usual, NEW w \in Usual,
         Compare(u, v) <= 0, Compare(v, w) <= 0
  PROVE  /\ Compare(u, w) <= 0
         /\ Compare(u, v) < 0 \/ Compare(v, w) < 0 => Compare(u, w) < 0
<1> DEFINE Up(x)  == Normalize(x.upstream)
           Deb(x) == Normalize(x.debian)
<1>1. \A x \in Usual : x.epoch \in Nat /\ Up(x) \in Led /\ Deb(x) \in Led
                      /\ Up(x) \in Seq(Part) /\ Deb(x) \in Seq(Part)
  BY LedParts, NormalizeType DEF Usual, Version, Led
<1>2. \A x, y \in Usual : Compare(x, y) =
        IF x.epoch # y.epoch THEN (IF x.epoch < y.epoch THEN -1 ELSE 1)
        ELSE IF CompareParts(Up(x), Up(y)) # 0 THEN CompareParts(Up(x), Up(y))
        ELSE CompareParts(Deb(x), Deb(y))
  BY DEF Compare
<1> HIDE DEF Up, Deb
<1>3. u.epoch <= v.epoch /\ v.epoch <= w.epoch
  <2>1. u.epoch # v.epoch => Compare(u, v) = IF u.epoch < v.epoch THEN -1 ELSE 1
    BY <1>2
  <2>2. v.epoch # w.epoch => Compare(v, w) = IF v.epoch < w.epoch THEN -1 ELSE 1
    BY <1>2
  <2> QED
    BY <1>1, <2>1, <2>2
<1>4. CASE u.epoch # v.epoch \/ v.epoch # w.epoch
  BY <1>1, <1>2, <1>3, <1>4, SMTT(30)
<1>5. CASE u.epoch = v.epoch /\ v.epoch = w.epoch
  <2>1. \A x, y \in Usual : /\ CompareParts(Up(x), Up(y)) \in {-1, 0, 1}
                           /\ CompareParts(Up(x), Up(y)) = -CompareParts(Up(y), Up(x))
                           /\ CompareParts(Deb(x), Deb(y)) \in {-1, 0, 1}
    BY <1>1, ComparePartsAntisymmetric
  <2>2. CompareParts(Up(u), Up(v)) <= 0 /\ CompareParts(Up(v), Up(w)) <= 0
    BY <1>2, <1>5, <2>1
  <2>3. CompareParts(Up(u), Up(w)) <= 0
    BY <1>1, <2>2, LedTransitive
  <2>4. CASE CompareParts(Up(u), Up(v)) < 0 \/ CompareParts(Up(v), Up(w)) < 0
    <3>1. CompareParts(Up(u), Up(w)) < 0
      BY <1>1, <2>2, <2>4, LedTransitive
    <3> QED
      BY <1>2, <1>5, <2>1, <3>1
  <2>5. CASE CompareParts(Up(u), Up(v)) = 0 /\ CompareParts(Up(v), Up(w)) = 0
    <3>1. CompareParts(Up(v), Up(u)) <= 0 /\ CompareParts(Up(w), Up(v)) <= 0
      BY <2>1, <2>5
    <3>2. CompareParts(Up(w), Up(u)) <= 0
      BY <1>1, <3>1, LedTransitive
    <3>3. CompareParts(Up(u), Up(w)) = 0
      BY <2>1, <2>3, <3>2
    <3>4. /\ Compare(u, v) = CompareParts(Deb(u), Deb(v))
          /\ Compare(v, w) = CompareParts(Deb(v), Deb(w))
          /\ Compare(u, w) = CompareParts(Deb(u), Deb(w))
      BY <1>2, <1>5, <2>5, <3>3
    <3> QED
      BY <1>1, <3>4, LedTransitive
  <2> QED
    BY <2>1, <2>2, <2>4, <2>5
<1> QED
  BY <1>4, <1>5

(* A constraint that holds at two versions holds at every version between    *)
(* them ("!=" excepted).                                                     *)
THEOREM ConstraintIsInterval ==
  ASSUME NEW u \in Usual, NEW v \in Usual, NEW w \in Usual, NEW c \in Constraint,
         c.version \in Usual, c.operator # "!=",
         Compare(u, v) <= 0, Compare(v, w) <= 0,
         Satisfies(u, c), Satisfies(w, c)
  PROVE  Satisfies(v, c)
<1> DEFINE b == c.version
<1>1. b \in Usual /\ b \in Version /\ u \in Version /\ v \in Version /\ w \in Version
  BY DEF Usual
<1>2. /\ Compare(u, b) \in {-1, 0, 1} /\ Compare(b, u) \in {-1, 0, 1} /\ Compare(u, b) = -Compare(b, u)
      /\ Compare(v, b) \in {-1, 0, 1} /\ Compare(b, v) \in {-1, 0, 1} /\ Compare(v, b) = -Compare(b, v)
      /\ Compare(w, b) \in {-1, 0, 1} /\ Compare(b, w) \in {-1, 0, 1} /\ Compare(w, b) = -Compare(b, w)
  BY <1>1, CompareAntisymmetric
(* Above: what bounds w bounds v.  Below: what u is at least, v is too.      *)
<1>3. /\ Compare(w, b) <= 0 => Compare(v, b) <= 0
      /\ Compare(w, b) < 0 => Compare(v, b) < 0
  BY <1>1, <1>2, CompareTransitive
<1>5. c.operator \in Operators
  BY DEF Constraint
<1> HIDE DEF b
<1>4. /\ Compare(b, u) <= 0 => Compare(b, v) <= 0
      /\ Compare(b, u) < 0 => Compare(b, v) < 0
  <2>1. ASSUME Compare(b, u) <= 0
        PROVE  Compare(b, v) <= 0 /\ (Compare(b, u) < 0 => Compare(b, v) < 0)
    BY <1>1, <2>1, CompareTransitive
  <2> QED
    BY <1>2, <2>1
<1>6. \A x : Satisfies(x, c) <=> /\ c.operator = "<"  => Compare(x, b) < 0
                                 /\ c.operator = "<=" => Compare(x, b) <= 0
                                 /\ c.operator = ">"  => Compare(x, b) > 0
                                 /\ c.operator = ">=" => Compare(x, b) >= 0
                                 /\ c.operator = "="  => Compare(x, b) = 0
                                 /\ c.operator = "!=" => Compare(x, b) # 0
  BY DEF Satisfies, b
<1>7. CASE c.operator \in {"<", "<="}
  BY <1>2, <1>3, <1>6, <1>7
<1>8. CASE c.operator \in {">", ">="}
  <2>1. c.operator = ">" => Compare(u, b) > 0
    BY <1>6
  <2>2. c.operator = ">=" => Compare(u, b) >= 0
    BY <1>6
  <2>3. Compare(v, b) >= 0 /\ (Compare(u, b) > 0 => Compare(v, b) > 0)
    BY <1>2, <1>4, <1>8, <2>1, <2>2
  <2> QED
    BY <1>6, <1>8, <2>1, <2>3
<1>9. CASE c.operator = "="
  <2>1. Compare(u, b) = 0 /\ Compare(w, b) = 0
    BY <1>6, <1>9
  <2>2. Compare(v, b) = 0
    BY <1>2, <1>3, <1>4, <2>1
  <2> QED
    BY <1>6, <1>9, <2>2
<1> QED
  BY <1>5, <1>7, <1>8, <1>9 DEF Operators

(* So does a whole pattern, of whatever form.                                *)
THEOREM PatternIsInterval ==
  ASSUME NEW u \in Usual, NEW v \in Usual, NEW w \in Usual, NEW pattern,
         \A c \in ParsePattern(pattern) :
           c \in Constraint /\ c.version \in Usual /\ c.operator # "!=",
         Compare(u, v) <= 0, Compare(v, w) <= 0,
         VersionMatches(u, pattern), VersionMatches(w, pattern)
  PROVE  VersionMatches(v, pattern)
  BY ConstraintIsInterval DEF VersionMatches

-----------------------------------------------------------------------------
(* Sequences: the operators of Findings, and those of SequencesExt.          *)

(* The places of a finite set that are all different, and no more than its   *)
(* elements, are all taken.                                                   *)
LEMMA PlacesAreTaken ==
  ASSUME NEW K, IsFiniteSet(K), NEW place \in [K -> 1 .. Cardinality(K)],
         \A i, j \in K : place[i] = place[j] => i = j
  PROVE  \A k \in 1 .. Cardinality(K) : \E i \in K : place[i] = k
<1>1. Cardinality(K) \in Nat
  BY FS_CardinalityType
<1>2. IsFiniteSet(1 .. Cardinality(K)) /\ Cardinality(1 .. Cardinality(K)) = Cardinality(K)
  BY <1>1, FS_Interval
<1>3. place \in Injection(K, 1 .. Cardinality(K))
  BY DEF Injection, IsInjective
<1>4. place \in Surjection(K, 1 .. Cardinality(K))
  BY <1>2, <1>3, FS_Injection
<1> QED
  BY <1>4 DEF Surjection

LEMMA PlacesAreFinite ==
  ASSUME NEW S, NEW s \in Seq(S), NEW K \in SUBSET (DOMAIN s)
  PROVE  /\ IsFiniteSet(K) /\ Cardinality(K) \in Nat
         /\ Cardinality(DOMAIN s) = Len(s)
<1>1. \A n \in Nat : IsFiniteSet(1 .. n) /\ Cardinality(1 .. n) = n
  BY FS_Interval
<1>2. IsFiniteSet(DOMAIN s) /\ Cardinality(DOMAIN s) = Len(s)
  BY <1>1
<1>3. IsFiniteSet(K)
  BY <1>2, FS_Subset
<1> QED
  BY <1>2, <1>3, FS_CardinalityType

LEMMA IsASequence ==
  ASSUME NEW S, NEW n \in Nat, NEW t \in [1 .. n -> S]
  PROVE  t \in Seq(S) /\ Len(t) = n /\ DOMAIN t = 1 .. n
  OBVIOUS

(* How many places there are is how each one is told: place gives each of K a *)
(* number of its own, at lists K by these numbers, and Standing, Arranged are  *)
(* the elements of a sequence at the places K.                                 *)
PlacesOf(s)         == SUBSET (DOMAIN s)
Numbering(place, K) == /\ IsFiniteSet(K) /\ place \in [K -> 1 .. Cardinality(K)]
                       /\ \A i, j \in K : place[i] = place[j] => i = j
Listing(at, K)      == /\ Cardinality(K) \in Nat /\ at \in [1 .. Cardinality(K) -> K]
                       /\ \A i \in K : \E k \in 1 .. Cardinality(K) : at[k] = i
Listed(place, K)    == [k \in 1 .. Cardinality(K) |-> CHOOSE i \in K : place[i] = k]
Standing(s, K)      == {s[i] : i \in K}
Arranged(s, at, K)  == [k \in 1 .. Cardinality(K) |-> s[at[k]]]
Arranges(t, s, K, S) == t \in Seq(S) /\ Len(t) = Cardinality(K) /\ Range(t) = Standing(s, K)

(* Choosing for each place what is put there takes every element once.       *)
LEMMA Placing ==
  ASSUME NEW K, NEW place, Numbering(place, K)
  PROVE  Listing(Listed(place, K), K)
<1> DEFINE At(k) == CHOOSE i \in K : place[i] = k
<1>1. Cardinality(K) \in Nat
  BY FS_CardinalityType DEF Numbering
<1>2. \A k \in 1 .. Cardinality(K) : \E i \in K : place[i] = k
  BY PlacesAreTaken DEF Numbering
<1>3. \A k \in 1 .. Cardinality(K) : At(k) \in K /\ place[At(k)] = k
  BY <1>2
<1>4. \A i \in K : place[i] \in 1 .. Cardinality(K) /\ At(place[i]) = i
  BY <1>3 DEF Numbering
<1> QED
  BY <1>1, <1>3, <1>4, Zenon DEF Listed, Listing

(* The elements of a sequence at some of its places, each taken once.        *)
LEMMA Arranging ==
  ASSUME NEW S, NEW s \in Seq(S), NEW K \in PlacesOf(s), NEW at, Listing(at, K)
  PROVE  Arranges(Arranged(s, at, K), s, K, S)
<1> DEFINE t == Arranged(s, at, K)
           n == Cardinality(K)
<1>0. n \in Nat /\ at \in [1 .. n -> K] /\ \A i \in K : \E k \in 1 .. n : at[k] = i
  BY DEF Listing
<1> HIDE DEF n
<1>1. \A k \in 1 .. n : at[k] \in K /\ s[at[k]] \in S
  BY <1>0 DEF PlacesOf
<1>2. t = [k \in 1 .. n |-> s[at[k]]]
  BY DEF n, Arranged
<1> HIDE DEF t
<1>3. t \in [1 .. n -> S] /\ \A k \in 1 .. n : t[k] = s[at[k]]
  BY <1>1, <1>2
<1>4. t \in Seq(S) /\ Len(t) = n /\ DOMAIN t = 1 .. n
  BY <1>0, <1>3, IsASequence
<1>5. ASSUME NEW x \in Range(t) PROVE x \in Standing(s, K)
  BY <1>1, <1>3, <1>4 DEF Range, Standing
<1>6. ASSUME NEW i \in K PROVE s[i] \in Range(t)
  <2>1. PICK k \in 1 .. n : at[k] = i
    BY <1>0
  <2>2. k \in DOMAIN t /\ t[k] = s[i]
    BY <1>3, <1>4, <2>1
  <2> QED
    BY <2>2, Zenon DEF Range
<1>7. Range(t) = Standing(s, K)
  BY <1>5, <1>6 DEF Standing
<1> QED
  BY <1>4, <1>7 DEF Arranges, t, n

LEMMA KeptFacts ==
  ASSUME NEW S, NEW s \in Seq(S), NEW keep \in PlacesOf(s)
  PROVE  Arranges(Kept(s, keep), s, keep, S)
<1> DEFINE Upto(i)  == {j \in keep : j <= i}
           Count(i) == Cardinality(Upto(i))
           place    == [i \in keep |-> Count(i)]
<1>1. IsFiniteSet(keep) /\ Cardinality(keep) \in Nat /\ \A i \in keep : i \in Nat
  BY PlacesAreFinite DEF PlacesOf
<1>2. \A i \in keep : /\ IsFiniteSet(Upto(i)) /\ Count(i) \in Nat
                      /\ Count(i) <= Cardinality(keep) /\ Count(i) # 0
  <2> SUFFICES ASSUME NEW i \in keep
               PROVE  /\ IsFiniteSet(Upto(i)) /\ Count(i) \in Nat
                      /\ Count(i) <= Cardinality(keep) /\ Count(i) # 0
    OBVIOUS
  <2>1. Upto(i) \in SUBSET keep /\ i \in Upto(i)
    BY <1>1
  <2> QED
    BY <1>1, <2>1, FS_Subset, FS_CardinalityType, FS_EmptySet
<1>3. ASSUME NEW i \in keep, NEW j \in keep, i < j
      PROVE  Count(i) # Count(j)
  <2>1. Upto(i) \in SUBSET Upto(j) /\ j \in Upto(j) /\ j \notin Upto(i)
    BY <1>1, <1>3
  <2> QED
    BY <1>2, <2>1, FS_Subset
<1>4. Kept(s, keep) = Arranged(s, Listed(place, keep), keep)
  BY DEF Kept, Arranged, Listed
<1> HIDE DEF Count, Upto
<1>5. \A i \in keep : Count(i) \in 1 .. Cardinality(keep)
  BY <1>1, <1>2
<1>6. \A i, j \in keep : Count(i) = Count(j) => i = j
  BY <1>1, <1>3
<1>7. Numbering(place, keep)
  BY <1>1, <1>5, <1>6, Zenon DEF Numbering
<1> HIDE DEF place
<1>8. Listing(Listed(place, keep), keep)
  BY <1>7, Placing, Zenon
<1> QED
  BY <1>4, <1>8, Arranging, Zenon

(* FirstsBy drops nothing but what has the key of an earlier element.        *)
LEMMA FirstsFacts ==
  ASSUME NEW S, NEW s \in Seq(S), NEW key
  PROVE  /\ FirstsBy(s, key) \in Seq(S) /\ Range(FirstsBy(s, key)) \subseteq Range(s)
         /\ \A i \in DOMAIN s : \E j \in 1 .. i : /\ key[j] = key[i]
                                                  /\ s[j] \in Range(FirstsBy(s, key))
<1> DEFINE keep == {i \in DOMAIN s : \A j \in 1 .. i - 1 : key[j] # key[i]}
<1>1. /\ FirstsBy(s, key) \in Seq(S)
      /\ Range(FirstsBy(s, key)) = Standing(s, keep)
  <2>1. keep \in PlacesOf(s) /\ FirstsBy(s, key) = Kept(s, keep)
    BY DEF PlacesOf, FirstsBy
  <2> HIDE DEF keep
  <2> QED
    BY <2>1, KeptFacts, Zenon DEF Arranges
<1>2. ASSUME NEW i \in DOMAIN s PROVE \E j \in 1 .. i : key[j] = key[i] /\ j \in keep
  <2> DEFINE same == {j \in 1 .. i : key[j] = key[i]}
  <2>1. same \in SUBSET Nat /\ i \in same
    OBVIOUS
  <2> HIDE DEF same
  <2>2. First(same) \in same /\ \A j \in same : First(same) <= j
    BY <2>1, FirstIsLeast
  <2>3. PICK n \in same : \A j \in same : n <= j
    BY <2>2
  <2>4. n \in 1 .. i /\ key[n] = key[i]
    BY <2>3 DEF same
  <2>5. \A j \in 1 .. n - 1 : key[j] # key[n]
    BY <2>3, <2>4 DEF same
  <2>6. n \in keep
    BY <2>4, <2>5
  <2> QED
    BY <2>4, <2>6
<1> HIDE DEF keep
<1>3. Range(FirstsBy(s, key)) \subseteq Range(s)
  BY <1>1 DEF Range, Standing, keep
<1>4. \A j \in keep : s[j] \in Range(FirstsBy(s, key))
  BY <1>1 DEF Standing
<1> QED
  BY <1>1, <1>2, <1>3, <1>4

(* Sorting keeps every element.                                              *)
LEMMA SortedFacts ==
  ASSUME NEW S, NEW s \in Seq(S), NEW key, \A i \in DOMAIN s : key[i] \in Int
  PROVE  /\ SortedBy(s, key) \in Seq(S) /\ Len(SortedBy(s, key)) = Len(s)
         /\ Range(SortedBy(s, key)) = Range(s)
<1> DEFINE K == DOMAIN s
           Before(i, j) == key[i] > key[j] \/ (key[i] = key[j] /\ i < j)
           Ahead(i) == {j \in K : Before(j, i)}
           Count(i) == Cardinality(Ahead(i))
           place == [i \in K |-> 1 + Count(i)]
<1>1. IsFiniteSet(K) /\ Cardinality(K) = Len(s) /\ K = 1 .. Len(s) /\ Len(s) \in Nat
  BY PlacesAreFinite
<1>2. SortedBy(s, key) = [k \in K |-> s[CHOOSE i \in K : place[i] = k]]
  BY DEF SortedBy
<1>3. \A i, j, k \in K : /\ ~Before(i, i)
                         /\ i # j => Before(i, j) \/ Before(j, i)
                         /\ Before(i, j) /\ Before(j, k) => Before(i, k)
  BY <1>1
<1> HIDE DEF Before, K
<1>4. \A i \in K : /\ IsFiniteSet(Ahead(i)) /\ Count(i) \in Nat
                   /\ Count(i) < Cardinality(K)
  <2> SUFFICES ASSUME NEW i \in K
               PROVE  /\ IsFiniteSet(Ahead(i)) /\ Count(i) \in Nat
                      /\ Count(i) < Cardinality(K)
    OBVIOUS
  <2>1. Ahead(i) \in SUBSET K /\ i \notin Ahead(i)
    BY <1>3
  <2>2. /\ IsFiniteSet(Ahead(i)) /\ Count(i) \in Nat
        /\ Count(i) <= Cardinality(K)
        /\ Cardinality(K) = Count(i) => K = Ahead(i)
    BY <1>1, <2>1, FS_Subset, FS_CardinalityType
  <2> QED
    BY <1>1, <2>1, <2>2
<1>5. ASSUME NEW i \in K, NEW j \in K, Before(i, j)
      PROVE  Count(i) # Count(j)
  <2>1. Ahead(i) \in SUBSET Ahead(j) /\ i \in Ahead(j) /\ i \notin Ahead(i)
    BY <1>3, <1>5
  <2> QED
    BY <1>4, <2>1, FS_Subset
<1> HIDE DEF Count, Ahead
<1>6. \A i \in K : 1 + Count(i) \in 1 .. Cardinality(K)
  BY <1>1, <1>4
<1>7. \A i, j \in K : Count(i) \in Nat /\ (1 + Count(i) = 1 + Count(j) => i = j)
  BY <1>3, <1>4, <1>5
<1>8. Numbering(place, K)
  BY <1>1, <1>6, <1>7, Zenon DEF Numbering
<1>9. K \in PlacesOf(s) /\ Standing(s, K) = Range(s)
  BY DEF K, Range, Standing, PlacesOf
<1>10. SortedBy(s, key) = Arranged(s, Listed(place, K), K)
  BY <1>1, <1>2 DEF Arranged, Listed
<1> HIDE DEF place
<1>11. Listing(Listed(place, K), K)
  BY <1>8, Placing, Zenon
<1>12. Arranges(SortedBy(s, key), s, K, S)
  BY <1>9, <1>10, <1>11, Arranging, Zenon
<1> QED
  BY <1>1, <1>9, <1>12 DEF Arranges

-----------------------------------------------------------------------------
(* Recursive functions over the places of a sequence.                        *)

LEMMA UpFromZero ==
  ASSUME NEW D \in SUBSET Nat, 0 \in D, \A n \in Nat : n \in D => n + 1 \in D
  PROVE  D = Nat
<1> DEFINE rest == Nat \ D
<1>1. SUFFICES ASSUME rest # {} PROVE FALSE
  BY DEF rest
<1>2. rest \in SUBSET Nat
  OBVIOUS
<1>3. First(rest) \in rest /\ \A j \in rest : First(rest) <= j
  <2> HIDE DEF rest
  <2> QED
    BY <1>1, <1>2, FirstIsLeast
<1>4. PICK n \in rest : \A j \in rest : n <= j
  BY <1>3
<1>5. n - 1 \in Nat /\ n - 1 \in D
  BY <1>4
<1> QED
  BY <1>4, <1>5

LEMMA ConcatFacts ==
  ASSUME NEW S, NEW s \in Seq(S), NEW t \in Seq(S)
  PROVE  s \o t \in Seq(S) /\ Range(s \o t) = Range(s) \cup Range(t)
<1>1. /\ s \o t \in Seq(S) /\ DOMAIN (s \o t) = 1 .. Len(s) + Len(t)
      /\ DOMAIN s = 1 .. Len(s) /\ DOMAIN t = 1 .. Len(t) /\ Len(s) \in Nat /\ Len(t) \in Nat
  OBVIOUS
<1>2. \A i \in DOMAIN s : i \in DOMAIN (s \o t) /\ (s \o t)[i] = s[i]
  OBVIOUS
<1>3. \A i \in DOMAIN t : Len(s) + i \in DOMAIN (s \o t) /\ (s \o t)[Len(s) + i] = t[i]
  OBVIOUS
<1>4. \A i \in DOMAIN (s \o t) : \/ i \in DOMAIN s
                                  \/ \E j \in DOMAIN t : i = Len(s) + j
  <2> SUFFICES ASSUME NEW i \in DOMAIN (s \o t), i \notin DOMAIN s
               PROVE  \E j \in DOMAIN t : i = Len(s) + j
    OBVIOUS
  <2>1. i - Len(s) \in DOMAIN t /\ i = Len(s) + (i - Len(s))
    BY <1>1
  <2> QED
    BY <2>1
<1> HIDE DEF Range
<1>5. ASSUME NEW x \in Range(s \o t) PROVE x \in Range(s) \cup Range(t)
  <2>1. PICK i \in DOMAIN (s \o t) : x = (s \o t)[i]
    BY <1>5 DEF Range
  <2>2. CASE i \in DOMAIN s
    BY <1>2, <2>1, <2>2 DEF Range
  <2>3. CASE i \notin DOMAIN s
    <3>1. PICK j \in DOMAIN t : i = Len(s) + j
      BY <1>4, <2>1, <2>3
    <3>2. x = t[j]
      BY <1>3, <2>1, <3>1
    <3> QED
      BY <3>1, <3>2 DEF Range
  <2> QED
    BY <2>2, <2>3
<1>6. ASSUME NEW x \in Range(s) PROVE x \in Range(s \o t)
  BY <1>2 DEF Range
<1>7. ASSUME NEW x \in Range(t) PROVE x \in Range(s \o t)
  <2>1. PICK i \in DOMAIN t : x = t[i]
    BY <1>7 DEF Range
  <2> QED
    BY <1>3, <2>1, Zenon DEF Range
<1> QED
  BY <1>1, <1>5, <1>6, <1>7

(* What FlattenSeq defines step by step exists, and is what the steps say.    *)
Flattens(g, ss, m) == g = [i \in 1 .. m |-> IF i = 1 THEN ss[i] ELSE g[i - 1] \o ss[i]]

LEMMA FlatteningExists ==
  ASSUME NEW ss, NEW m \in Nat
  PROVE  \E g : Flattens(g, ss, m)
<1> DEFINE D == {k \in Nat : \E g : Flattens(g, ss, k)}
<1>1. 0 \in D
  <2>1. Flattens([i \in 1 .. 0 |-> IF i = 1 THEN ss[i] ELSE <<>>], ss, 0)
    BY DEF Flattens
  <2> QED
    BY <2>1
<1>2. ASSUME NEW n \in Nat, n \in D PROVE n + 1 \in D
  <2>1. PICK g : Flattens(g, ss, n)
    BY <1>2
  <2> DEFINE Next1(i) == IF i = 1 THEN ss[i] ELSE g[i - 1] \o ss[i]
             h == [i \in 1 .. n + 1 |-> Next1(i)]
  <2>2. g = [i \in 1 .. n |-> Next1(i)]
    BY <2>1 DEF Flattens
  <2> HIDE DEF Next1
  <2>3. \A i \in 1 .. n : g[i] = h[i]
    BY <2>2
  <2>4. \A i \in 1 .. n + 1 : Next1(i) = IF i = 1 THEN ss[i] ELSE h[i - 1] \o ss[i]
    <3>1. \A i \in 1 .. n + 1 : i # 1 => i - 1 \in 1 .. n
      OBVIOUS
    <3>2. \A i \in 1 .. n + 1 : i # 1 => g[i - 1] = h[i - 1]
      BY <2>3, <3>1, Zenon
    <3> HIDE DEF h
    <3> QED
      BY <3>2, Zenon DEF Next1
  <2>5. h = [i \in 1 .. n + 1 |-> IF i = 1 THEN ss[i] ELSE h[i - 1] \o ss[i]]
    BY <2>4
  <2> HIDE DEF h
  <2>6. Flattens(h, ss, n + 1)
    BY <2>5 DEF Flattens
  <2> QED
    BY <2>6
<1>3. D \in SUBSET Nat
  OBVIOUS
<1> HIDE DEF D
<1>4. D = Nat
  BY <1>1, <1>2, <1>3, UpFromZero
<1> QED
  BY <1>4 DEF D

LEMMA FlattenFacts ==
  ASSUME NEW S, NEW ss \in Seq(Seq(S))
  PROVE  /\ FlattenSeq(ss) \in Seq(S)
         /\ Range(FlattenSeq(ss)) = UNION {Range(ss[i]) : i \in DOMAIN ss}
<1> DEFINE n == Len(ss)
           flat == CHOOSE g : Flattens(g, ss, n)
<1>1. n \in Nat /\ DOMAIN ss = 1 .. n /\ \A i \in 1 .. n : ss[i] \in Seq(S)
  OBVIOUS
<1>2. CASE n = 0
  <2>1. FlattenSeq(ss) = ss
    BY <1>2 DEF FlattenSeq
  <2>2. ss = <<>> /\ ss \in Seq(S) /\ DOMAIN ss = {}
    BY <1>1, <1>2
  <2> QED
    BY <2>1, <2>2 DEF Range
<1>3. CASE n # 0
  <2>1. FlattenSeq(ss) = flat[n]
    BY <1>3 DEF FlattenSeq, Flattens
  <2>2. Flattens(flat, ss, n)
    BY <1>1, FlatteningExists
  <2> HIDE DEF flat
  <2>3. \A i \in 1 .. n : flat[i] = IF i = 1 THEN ss[i] ELSE flat[i - 1] \o ss[i]
    <3>1. flat = [i \in 1 .. n |-> IF i = 1 THEN ss[i] ELSE flat[i - 1] \o ss[i]]
      BY <2>2 DEF Flattens
    <3> QED
      BY <3>1
  <2> DEFINE Upto(i) == UNION {Range(ss[j]) : j \in 1 .. i}
             Good(k) == k <= n => flat[k] \in Seq(S) /\ Range(flat[k]) = Upto(k)
             D == {k \in Nat : Good(k + 1)}
  <2>4. Good(1)
    <3>1. flat[1] = ss[1] /\ ss[1] \in Seq(S) /\ Upto(1) = Range(ss[1])
      BY <1>1, <1>3, <2>3
    <3> QED
      BY <3>1
  <2>5. ASSUME NEW k \in Nat, k # 0, Good(k) PROVE Good(k + 1)
    <3>1. SUFFICES ASSUME k + 1 <= n
                   PROVE  flat[k + 1] \in Seq(S) /\ Range(flat[k + 1]) = Upto(k + 1)
      OBVIOUS
    <3>2. k + 1 \in 1 .. n /\ k + 1 # 1 /\ (k + 1) - 1 = k /\ k <= n
      BY <1>1, <2>5, <3>1
    <3>3. flat[k] \in Seq(S) /\ Range(flat[k]) = Upto(k)
      BY <2>5, <3>2
    <3>4. flat[k + 1] = flat[k] \o ss[k + 1]
      BY <2>3, <3>2, Zenon
    <3>5. ss[k + 1] \in Seq(S)
      BY <1>1, <3>2
    <3>6. Upto(k + 1) = Upto(k) \cup Range(ss[k + 1])
      <4>1. 1 .. k + 1 = (1 .. k) \cup {k + 1}
        OBVIOUS
      <4> QED
        BY <4>1
    <3> HIDE DEF Upto
    <3>7. /\ flat[k] \o ss[k + 1] \in Seq(S)
          /\ Range(flat[k] \o ss[k + 1]) = Range(flat[k]) \cup Range(ss[k + 1])
      <4> DEFINE p == flat[k]
                 q == ss[k + 1]
      <4>1. p \in Seq(S) /\ q \in Seq(S)
        BY <3>3, <3>5
      <4> HIDE DEF p, q
      <4>2. p \o q \in Seq(S) /\ Range(p \o q) = Range(p) \cup Range(q)
        BY <4>1, ConcatFacts
      <4> QED
        BY <4>2 DEF p, q
    <3> QED
      BY <3>3, <3>4, <3>6, <3>7, Zenon
  <2> HIDE DEF Good
  <2>6. D \in SUBSET Nat /\ 0 \in D /\ \A k \in Nat : k \in D => k + 1 \in D
    BY <2>4, <2>5
  <2> HIDE DEF D
  <2>7. D = Nat
    BY <2>6, UpFromZero
  <2>8. Good(n)
    <3>1. n - 1 \in D
      BY <1>1, <1>3, <2>7
    <3>2. Good((n - 1) + 1)
      BY <3>1 DEF D
    <3> QED
      BY <1>1, <3>2
  <2>9. flat[n] \in Seq(S) /\ Range(flat[n]) = Upto(n)
    BY <1>1, <2>8 DEF Good
  <2> QED
    BY <1>1, <2>1, <2>9
<1> QED
  BY <1>2, <1>3

(* A sum is of the kind its numbers are of.                                  *)
Sums(g, numbers, m) == g = [n \in 0 .. m |-> IF n = 0 THEN 0 ELSE g[n - 1] + numbers[n]]

LEMMA SummingExists ==
  ASSUME NEW numbers, NEW m \in Nat
  PROVE  \E g : Sums(g, numbers, m)
<1> DEFINE D == {k \in Nat : \E g : Sums(g, numbers, k)}
<1>1. 0 \in D
  <2> DEFINE g == [n \in 0 .. 0 |-> 0]
  <2>1. \A n \in 0 .. 0 : n = 0 /\ 0 = IF n = 0 THEN 0 ELSE g[n - 1] + numbers[n]
    OBVIOUS
  <2>2. Sums(g, numbers, 0)
    BY <2>1 DEF Sums
  <2> QED
    BY <2>2
<1>2. ASSUME NEW n \in Nat, n \in D PROVE n + 1 \in D
  <2>1. PICK g : Sums(g, numbers, n)
    BY <1>2
  <2> DEFINE Next1(i) == IF i = 0 THEN 0 ELSE g[i - 1] + numbers[i]
             h == [i \in 0 .. n + 1 |-> Next1(i)]
  <2>2. g = [i \in 0 .. n |-> Next1(i)]
    BY <2>1 DEF Sums
  <2> HIDE DEF Next1
  <2>3. \A i \in 0 .. n : g[i] = h[i]
    BY <2>2
  <2>4. \A i \in 0 .. n + 1 : Next1(i) = IF i = 0 THEN 0 ELSE h[i - 1] + numbers[i]
    <3>1. \A i \in 0 .. n + 1 : i # 0 => i - 1 \in 0 .. n
      OBVIOUS
    <3>2. \A i \in 0 .. n + 1 : i # 0 => g[i - 1] = h[i - 1]
      BY <2>3, <3>1, Zenon
    <3> HIDE DEF h
    <3> QED
      BY <3>2, Zenon DEF Next1
  <2>5. h = [i \in 0 .. n + 1 |-> IF i = 0 THEN 0 ELSE h[i - 1] + numbers[i]]
    BY <2>4
  <2> HIDE DEF h
  <2>6. Sums(h, numbers, n + 1)
    BY <2>5 DEF Sums
  <2> QED
    BY <2>6
<1>3. D \in SUBSET Nat
  OBVIOUS
<1> HIDE DEF D
<1>4. D = Nat
  BY <1>1, <1>2, <1>3, UpFromZero
<1> QED
  BY <1>4 DEF D

LEMMA SumFacts ==
  ASSUME NEW T, 0 \in T, \A x, y \in T : x + y \in T, NEW numbers \in Seq(T)
  PROVE  SumOf(numbers) \in T
<1> DEFINE n == Len(numbers)
           sum == CHOOSE g : Sums(g, numbers, n)
<1>1. n \in Nat /\ \A i \in 1 .. n : numbers[i] \in T
  OBVIOUS
<1>2. SumOf(numbers) = sum[n]
  BY DEF SumOf, Sums
<1>3. Sums(sum, numbers, n)
  BY <1>1, SummingExists
<1> HIDE DEF sum, n
<1>4. \A i \in 0 .. n : sum[i] = IF i = 0 THEN 0 ELSE sum[i - 1] + numbers[i]
  <2>1. sum = [i \in 0 .. n |-> IF i = 0 THEN 0 ELSE sum[i - 1] + numbers[i]]
    BY <1>3 DEF Sums
  <2> QED
    BY <2>1, Zenon
<1> DEFINE Good(k) == k <= n => sum[k] \in T
           D == {k \in Nat : Good(k)}
<1>5. Good(0)
  BY <1>1, <1>4
<1>6. ASSUME NEW k \in Nat, Good(k) PROVE Good(k + 1)
  <2>1. SUFFICES ASSUME k + 1 <= n PROVE sum[k + 1] \in T
    OBVIOUS
  <2>2. k + 1 \in 0 .. n /\ k + 1 \in 1 .. n /\ k + 1 # 0 /\ (k + 1) - 1 = k /\ k <= n
    BY <1>1, <2>1
  <2>3. sum[k + 1] = sum[k] + numbers[k + 1]
    BY <1>4, <2>2, Zenon
  <2>4. sum[k] \in T /\ numbers[k + 1] \in T
    BY <1>1, <1>6, <2>2, Zenon
  <2> QED
    BY <2>3, <2>4, Zenon
<1> HIDE DEF Good
<1>7. D \in SUBSET Nat /\ 0 \in D /\ \A k \in Nat : k \in D => k + 1 \in D
  BY <1>5, <1>6
<1> HIDE DEF D
<1>8. D = Nat
  BY <1>7, UpFromZero
<1>9. Good(n)
  BY <1>1, <1>8 DEF D
<1> QED
  BY <1>1, <1>2, <1>9 DEF Good

LEMMA SumOfNumbers ==
  /\ \A numbers \in Seq(Nat) : SumOf(numbers) \in Nat
  /\ \A numbers \in Seq(Int) : SumOf(numbers) \in Int
<1>1. 0 \in Nat /\ \A x, y \in Nat : x + y \in Nat
  OBVIOUS
<1>2. 0 \in Int /\ \A x, y \in Int : x + y \in Int
  OBVIOUS
<1> QED
  BY <1>1, <1>2, SumFacts, Zenon

(* A set of numbers up to some bound has a greatest one.                      *)
LEMMA GreatestExists ==
  ASSUME NEW b \in Nat, NEW S \in SUBSET (0 .. b), S # {}
  PROVE  \E c \in S : \A other \in S : c >= other
<1> DEFINE D == {b - c : c \in S}
<1>1. \A c \in S : b - c \in Nat /\ b - (b - c) = c
  OBVIOUS
<1>2. \A c \in S : b - c \in D
  OBVIOUS
<1>3. D \in SUBSET Nat /\ D # {} /\ \A d \in D : b - d \in S
  <2>1. \A d \in D : \E c \in S : d = b - c
    OBVIOUS
  <2> HIDE DEF D
  <2> QED
    BY <1>1, <1>2, <2>1
<1> HIDE DEF D
<1>4. PICK d \in D : \A other \in D : d <= other
  BY <1>3, FirstIsLeast
<1>5. b - d \in S /\ \A other \in S : b - d >= other
  <2>1. \A other \in S : d <= b - other
    BY <1>2, <1>4
  <2>2. d \in Nat /\ S \subseteq Nat
    BY <1>3
  <2> QED
    BY <1>3, <2>1, <2>2
<1> QED
  BY <1>5

LEMMA SetToSeqFacts ==
  ASSUME NEW S, IsFiniteSet(S)
  PROVE  SetToSeq(S) \in Seq(S) /\ Range(SetToSeq(S)) = S
<1> DEFINE n == Cardinality(S)
           f == SetToSeq(S)
<1>1. n \in Nat /\ ExistsBijection(1 .. n, S)
  BY FS_CardinalityType
<1>2. \E g \in [1 .. n -> S] : IsInjective(g)
  BY <1>1 DEF ExistsBijection, Bijection, Injection
<1>3. f \in [1 .. n -> S] /\ IsInjective(f)
  BY <1>2 DEF SetToSeq
<1> HIDE DEF f
<1>4. f \in Seq(S) /\ DOMAIN f = 1 .. n
  BY <1>1, <1>3, IsASequence
<1>5. \A i, j \in 1 .. n : f[i] = f[j] => i = j
  BY <1>3, <1>4 DEF IsInjective
<1>6. IsFiniteSet(1 .. n) /\ Cardinality(1 .. n) = n
  BY <1>1, FS_Interval
<1>7. f \in Injection(1 .. n, S)
  BY <1>3 DEF Injection
<1>8. f \in Surjection(1 .. n, S)
  BY <1>6, <1>7, FS_Injection DEF n
<1>9. Range(f) = S
  BY <1>3, <1>4, <1>8 DEF Range, Surjection
<1> QED
  BY <1>4, <1>9 DEF f

-----------------------------------------------------------------------------
(* The engine.                                                              *)

(* One image for each place.                                                *)
LEMMA MapFacts ==
  ASSUME NEW S, NEW s \in Seq(S), NEW T, NEW t \in [DOMAIN s -> T]
  PROVE  t \in Seq(T) /\ DOMAIN t = DOMAIN s /\ Len(t) = Len(s)
<1>1. DOMAIN s = 1 .. Len(s) /\ Len(s) \in Nat
  OBVIOUS
<1>2. t \in [1 .. Len(s) -> T]
  BY <1>1
<1> QED
  BY <1>1, <1>2, IsASequence, Zenon

(* What is kept stood at the places kept.                                   *)
LEMMA KeptIsPart ==
  ASSUME NEW S, NEW s \in Seq(S), NEW keep, keep \subseteq DOMAIN s
  PROVE  /\ Kept(s, keep) \in Seq(S)
         /\ Range(Kept(s, keep)) = Standing(s, keep)
<1>1. keep \in PlacesOf(s)
  BY DEF PlacesOf
<1>2. Arranges(Kept(s, keep), s, keep, S)
  BY <1>1, KeptFacts, Zenon
<1> QED
  BY <1>2, Zenon DEF Arranges

(* The inventory is made of findings.                                       *)
LEMMA InventoryFacts ==
  ASSUME NEW F, NEW findings \in Seq(F)
  PROVE  BuildSoftwareInventory(findings) \in Seq({ComponentFromFinding(f) : f \in F})
<1> DEFINE C == {ComponentFromFinding(f) : f \in F}
           keep == {i \in DOMAIN findings : ComponentName(findings[i]) # NoName}
           named == Kept(findings, keep)
           comps == [i \in DOMAIN named |-> ComponentFromFinding(named[i])]
           key == [i \in DOMAIN comps |-> <<comps[i].name, comps[i].version>>]
<1>1. BuildSoftwareInventory(findings) = FirstsBy(comps, key)
  BY DEF BuildSoftwareInventory, Selected, FirstOfEach
<1>2. keep \subseteq DOMAIN findings
  OBVIOUS
<1> HIDE DEF keep
<1>3. named \in Seq(F)
  BY <1>2, KeptIsPart, Zenon
<1> HIDE DEF named
<1>4. comps \in [DOMAIN named -> C]
  <2>1. \A i \in DOMAIN named : named[i] \in F
    BY <1>3
  <2> QED
    BY <2>1, Zenon
<1> HIDE DEF comps, C
<1>5. comps \in Seq(C)
  BY <1>3, <1>4, MapFacts, Zenon
<1>6. FirstsBy(comps, key) \in Seq(C)
  BY <1>5, FirstsFacts, Zenon
<1> QED
  BY <1>1, <1>6 DEF C

(* The lookup of a name finds entries of that product, whatever the version. *)
LEMMA LookupFacts ==
  ASSUME NEW E, NEW entries \in Seq(E), NEW comp
  PROVE  /\ Lookup(entries, comp) \in Seq(E)
         /\ \A vuln \in Range(Lookup(entries, comp)) : vuln.product = comp.name
<1> DEFINE own   == {i \in DOMAIN entries : /\ comp.vendor # NoName /\ entries[i].vendor = comp.vendor
                                            /\ entries[i].product = comp.name}
           every == {i \in DOMAIN entries : entries[i].product = comp.name}
           both  == Kept(entries, own) \o Kept(entries, every)
           key   == [i \in DOMAIN both |-> both[i].cve]
<1>1. Lookup(entries, comp) = FirstsBy(both, key)
  BY DEF Lookup, Selected, FirstOfEach, Cve
<1>2. /\ own \subseteq DOMAIN entries /\ every \subseteq DOMAIN entries
      /\ \A i \in own : entries[i].product = comp.name
      /\ \A i \in every : entries[i].product = comp.name
  OBVIOUS
<1> HIDE DEF own, every
<1>3. /\ Kept(entries, own) \in Seq(E) /\ Kept(entries, every) \in Seq(E)
      /\ \A x \in Range(Kept(entries, own)) : x.product = comp.name
      /\ \A x \in Range(Kept(entries, every)) : x.product = comp.name
  <2>1. /\ Kept(entries, own) \in Seq(E) /\ Kept(entries, every) \in Seq(E)
        /\ Range(Kept(entries, own)) = Standing(entries, own)
        /\ Range(Kept(entries, every)) = Standing(entries, every)
    BY <1>2, KeptIsPart, Zenon
  <2> QED
    BY <1>2, <2>1 DEF Standing
<1>4. both \in Seq(E) /\ \A x \in Range(both) : x.product = comp.name
  <2> DEFINE p == Kept(entries, own)
             q == Kept(entries, every)
  <2>1. p \in Seq(E) /\ q \in Seq(E)
    BY <1>3
  <2> HIDE DEF p, q
  <2>2. p \o q \in Seq(E) /\ Range(p \o q) = Range(p) \cup Range(q)
    BY <2>1, ConcatFacts
  <2> QED
    BY <1>3, <2>2 DEF p, q
<1> HIDE DEF both, key
<1>5. FirstsBy(both, key) \in Seq(E) /\ Range(FirstsBy(both, key)) \subseteq Range(both)
  BY <1>4, FirstsFacts, Zenon
<1> QED
  BY <1>1, <1>4, <1>5

(* A match says which entry is about which component; entries are rated.    *)
MatchOf(vuln, comp) == [vuln |-> vuln, component |-> comp, risk |-> ComputeRisk(vuln)]
MatchSet(E, C)      == [vuln : E, component : C, risk : Risks]
Rated(E)            == \A vuln \in E : {vuln.cvss_v3, vuln.cvss_v4, vuln.epss, vuln.confidence} \subseteq Nat

LEMMA RisksAreNumbers == \A r \in Risks : r \in Nat /\ r \in Int
  BY DEF Risks

LEMMA RiskFacts ==
  ASSUME NEW vuln, {vuln.cvss_v3, vuln.cvss_v4, vuln.epss, vuln.confidence} \subseteq Nat
  PROVE  ComputeRisk(vuln) \in Risks
<1> DEFINE cvss  == IF vuln.cvss_v3 # 0 THEN vuln.cvss_v3 ELSE vuln.cvss_v4
           score == 60 * cvss + 15 * vuln.epss + (IF vuln.kev THEN 1000 ELSE 0)
                    + (IF vuln.exploit THEN 1000 ELSE 0) + 5 * vuln.confidence
<1>1. cvss \in Nat /\ vuln.epss \in Nat /\ vuln.confidence \in Nat
  OBVIOUS
<1>2. /\ 60 * cvss \in Nat /\ 15 * vuln.epss \in Nat /\ 5 * vuln.confidence \in Nat
      /\ (IF vuln.kev THEN 1000 ELSE 0) \in Nat /\ (IF vuln.exploit THEN 1000 ELSE 0) \in Nat
  BY <1>1
<1>3. score \in Nat
  BY <1>2
<1>4. ComputeRisk(vuln) = IF score > 10000 THEN 10000 ELSE score
  BY DEF ComputeRisk
<1> HIDE DEF score
<1> QED
  BY <1>3, <1>4 DEF Risks

(* The matches of a component are the entries looked up that its version fits. *)
LEMMA MatchesFacts ==
  ASSUME NEW E, Rated(E), NEW entries \in Seq(E), NEW C, NEW comp \in C
  PROVE  /\ MatchesOf(entries, comp) \in Seq(MatchSet(E, C))
         /\ \A m : m \in Range(MatchesOf(entries, comp)) <=>
              /\ comp.version # NoVersion
              /\ \E vuln \in Range(Lookup(entries, comp)) :
                   MatchVersion(comp.version, vuln) /\ m = MatchOf(vuln, comp)
<1>1. CASE comp.version = NoVersion
  <2>1. MatchesOf(entries, comp) = <<>>
    BY <1>1 DEF MatchesOf
  <2>2. <<>> \in Seq(MatchSet(E, C)) /\ Range(<<>>) = {}
    BY DEF Range
  <2> QED
    BY <1>1, <2>1, <2>2
<1>2. CASE comp.version # NoVersion
  <2> DEFINE looked == Lookup(entries, comp)
             keep == {i \in DOMAIN looked : MatchVersion(comp.version, looked[i])}
             hits == Kept(looked, keep)
             t == [i \in DOMAIN hits |-> MatchOf(hits[i], comp)]
  <2>1. MatchesOf(entries, comp) = t
    BY <1>2 DEF MatchesOf, Selected, MatchOf
  <2>2. looked \in Seq(E)
    BY LookupFacts, Zenon
  <2> HIDE DEF looked
  <2>3. keep \subseteq DOMAIN looked
    OBVIOUS
  <2>4. \A x : x \in Standing(looked, keep)
                 <=> x \in Range(looked) /\ MatchVersion(comp.version, x)
    BY DEF Range, Standing
  <2> HIDE DEF keep
  <2>5. /\ hits \in Seq(E)
        /\ \A x : x \in Range(hits) <=> x \in Range(looked) /\ MatchVersion(comp.version, x)
    <3>1. hits \in Seq(E) /\ Range(hits) = Standing(looked, keep)
      BY <2>2, <2>3, KeptIsPart, Zenon
    <3> QED
      BY <2>4, <3>1
  <2> HIDE DEF hits
  <2>6. t \in [DOMAIN hits -> MatchSet(E, C)]
    <3>1. \A i \in DOMAIN hits : hits[i] \in E
      BY <2>5
    <3>2. ASSUME NEW e \in E PROVE MatchOf(e, comp) \in MatchSet(E, C)
      <4>1. {e.cvss_v3, e.cvss_v4, e.epss, e.confidence} \subseteq Nat
        BY Zenon DEF Rated
      <4>2. ComputeRisk(e) \in Risks
        BY <4>1, RiskFacts, Zenon
      <4> QED
        BY <4>2 DEF MatchSet, MatchOf
    <3> QED
      BY <3>1, <3>2, Zenon
  <2>7. t \in Seq(MatchSet(E, C))
    BY <2>5, <2>6, MapFacts, Zenon
  <2>8. \A m : m \in Range(t) <=> \E x \in Range(hits) : m = MatchOf(x, comp)
    BY Zenon DEF Range
  <2> QED
    BY <1>2, <2>1, <2>5, <2>7, <2>8 DEF looked
<1> QED
  BY <1>1, <1>2

(* A run keeps every match, in another order, unless there is a limit.      *)
LEMMA RunFacts ==
  ASSUME NEW E, Rated(E), NEW entries \in Seq(E), NEW C, NEW inventory \in Seq(C)
  PROVE  /\ Run(entries, inventory) \in Seq(MatchSet(E, C))
         /\ MaxResults = 0 => \A m : m \in Range(Run(entries, inventory)) <=>
              \E comp \in Range(inventory) : m \in Range(MatchesOf(entries, comp))
<1> DEFINE M == MatchSet(E, C)
           parts == [i \in DOMAIN inventory |-> MatchesOf(entries, inventory[i])]
           found == FlattenSeq(parts)
           key   == [i \in DOMAIN found |-> found[i].risk]
           all   == SortedBy(found, key)
<1>1. Run(entries, inventory)
        = IF MaxResults > 0 /\ Len(all) > MaxResults THEN SubSeq(all, 1, MaxResults) ELSE all
  BY DEF Run, Descending
<1>2. parts \in [DOMAIN inventory -> Seq(M)]
  <2>1. \A i \in DOMAIN inventory : inventory[i] \in C
    OBVIOUS
  <2>2. \A i \in DOMAIN inventory : MatchesOf(entries, inventory[i]) \in Seq(M)
    BY <2>1, MatchesFacts, Zenon
  <2> QED
    BY <2>2, Zenon
<1>3. \A x : (\E i \in DOMAIN inventory : x \in Range(parts[i]))
              <=> \E comp \in Range(inventory) : x \in Range(MatchesOf(entries, comp))
  <2> HIDE DEF found, all, key
  <2> QED
    BY Zenon DEF Range
<1> HIDE DEF parts
<1>4. parts \in Seq(Seq(M)) /\ DOMAIN parts = DOMAIN inventory
  BY <1>2, MapFacts, Zenon
<1>5. found \in Seq(M) /\ Range(found) = UNION {Range(parts[i]) : i \in DOMAIN parts}
  BY <1>4, FlattenFacts, Zenon
<1> HIDE DEF found
<1>6. \A i \in DOMAIN found : key[i] \in Int
  <2>1. \A m \in M : m.risk \in Int
    <3>1. \A m \in M : m.risk \in Risks
      BY Zenon DEF MatchSet
    <3> HIDE DEF M
    <3> QED
      BY <3>1, RisksAreNumbers, Zenon
  <2>2. \A i \in DOMAIN found : found[i] \in M
    BY <1>5
  <2> QED
    BY <2>1, <2>2, Zenon
<1> HIDE DEF key
<1>7. all \in Seq(M) /\ Range(all) = Range(found)
  BY <1>5, <1>6, SortedFacts, Zenon
<1> HIDE DEF all, M
<1>8. Run(entries, inventory) \in Seq(M)
  BY <1>1, <1>7, VulnEngineAssumption
<1>9. MaxResults = 0 => Range(Run(entries, inventory)) = Range(found)
  BY <1>1, <1>7
<1>10. \A m : m \in Range(found)
               <=> \E comp \in Range(inventory) : m \in Range(MatchesOf(entries, comp))
  BY <1>3, <1>4, <1>5, Zenon
<1> QED
  BY <1>8, <1>9, <1>10 DEF M

(* The overall risk is a risk, of no matches too.                           *)
LEMMA StatsFacts ==
  ASSUME NEW E, NEW C, NEW matches \in Seq(MatchSet(E, C)), NEW components
  PROVE  ComputeVulnStats(matches, components).overall \in Risks
<1> DEFINE risks == [i \in DOMAIN matches |-> matches[i].risk]
           penalty == IF 2 * Len(matches) < 30 THEN 200 * Len(matches) ELSE 3000
           overall == SumOf(risks) \div Len(matches) + penalty
           result == ComputeVulnStats(matches, components).overall
<1>1. result = IF matches = <<>> THEN 0 ELSE IF overall > 10000 THEN 10000 ELSE overall
  BY DEF ComputeVulnStats, Total
<1>2. risks \in [DOMAIN matches -> Nat]
  <2>1. \A m \in MatchSet(E, C) : m.risk \in Nat
    <3>1. \A m \in MatchSet(E, C) : m.risk \in Risks
      BY Zenon DEF MatchSet
    <3> QED
      BY <3>1, RisksAreNumbers, Zenon
  <2>2. \A i \in DOMAIN matches : matches[i] \in MatchSet(E, C)
    OBVIOUS
  <2> QED
    BY <2>1, <2>2, Zenon
<1> HIDE DEF risks
<1>3. SumOf(risks) \in Nat
  BY <1>2, MapFacts, SumOfNumbers, Zenon
<1>4. matches # <<>> => Len(matches) \in Nat \ {0}
  OBVIOUS
<1>5. \A s \in Nat : \A n \in Nat \ {0} : s \div n \in Nat
  OBVIOUS
<1>6. matches # <<>> => overall \in Nat
  BY <1>3, <1>4, <1>5
<1> HIDE DEF overall, result
<1>7. ASSUME matches = <<>> PROVE result \in Risks
  <2>1. result = 0
    BY <1>1, <1>7
  <2> QED
    BY <2>1 DEF Risks
<1>8. ASSUME matches # <<>> PROVE result \in Risks
  <2>1. result = IF overall > 10000 THEN 10000 ELSE overall
    BY <1>1, <1>8
  <2> QED
    <3>1. overall \in Nat
      BY <1>6, <1>8, Zenon
    <3>2. result \in Nat /\ result <= 10000
      BY <2>1, <3>1
    <3> QED
      BY <3>2, SMTT(30) DEF Risks
<1>9. result \in Risks
  BY <1>7, <1>8, Zenon
<1> QED
  BY <1>9 DEF result

(* Components that only differ in their versions find the same entries.     *)
LEMMA LookupByName ==
  ASSUME NEW entries, NEW c, NEW d, c.name = d.name, c.vendor = d.vendor
  PROVE  Lookup(entries, c) = Lookup(entries, d)
<1> DEFINE Both(name, vendor) ==
             Kept(entries, {i \in DOMAIN entries : /\ vendor # NoName /\ entries[i].vendor = vendor
                                                   /\ entries[i].product = name})
               \o Kept(entries, {i \in DOMAIN entries : entries[i].product = name})
           Looked(name, vendor) ==
             FirstsBy(Both(name, vendor), [i \in DOMAIN Both(name, vendor) |-> Both(name, vendor)[i].cve])
<1>1. Lookup(entries, c) = Looked(c.name, c.vendor) /\ Lookup(entries, d) = Looked(d.name, d.vendor)
  BY DEF Lookup, Selected, FirstOfEach, Cve
<1> HIDE DEF Looked
<1> QED
  BY <1>1
=============================================================================
