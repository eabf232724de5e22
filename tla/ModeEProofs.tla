---------------------------- MODULE ModeEProofs ----------------------------
(***************************************************************************)
(* Proofs about the mode E helpers, for identification messages of any     *)
(* length and content and for any requested rate.  The speeds the tables   *)
(* of the helpers give are those the standard's doubling gives; the        *)
(* parser's search and its tests of single characters accept exactly the   *)
(* identifications and see mode E exactly where the standard puts it; the  *)
(* inductive invariant then says which helper computed each variable.      *)
(***************************************************************************)
EXTENDS ModeE, SequenceTheorems, WellFoundedInduction, TLAPS

-----------------------------------------------------------------------------
(* The speeds *)

\* The speeds that doubling gives.
LEMMA Speeds ==
  /\ Doubled[0] = 300 /\ Doubled[1] = 600 /\ Doubled[2] = 1200 /\ Doubled[3] = 2400
  /\ Doubled[4] = 4800 /\ Doubled[5] = 9600 /\ Doubled[6] = 19200
<1> DEFINE Doubles(f) == f = [k \in 0..6 |-> IF k = 0 THEN 300 ELSE 2 * f[k - 1]]
           g == [k \in 0..6 |-> CASE k = 0 -> 300 [] k = 1 -> 600 [] k = 2 -> 1200
                                  [] k = 3 -> 2400 [] k = 4 -> 4800 [] k = 5 -> 9600
                                  [] k = 6 -> 19200]
<1>1. Doubles(g)
  <2>1. \A k \in 0..6 : k \in {0, 1, 2, 3, 4, 5, 6}
    OBVIOUS
  <2>2. ASSUME NEW k \in 0..6 PROVE g[k] = IF k = 0 THEN 300 ELSE 2 * g[k - 1]
    BY <2>1
  <2>3. g = [k \in 0..6 |-> g[k]]
    OBVIOUS
  <2> HIDE DEF g
  <2> QED
    BY <2>2, <2>3, Zenon
<1>2. PICK f : f = CHOOSE h : Doubles(h)
  OBVIOUS
<1>3. Doubles(f)
  <2> HIDE DEF Doubles, g
  <2> QED
    BY <1>1, <1>2
<1>4. Doubled = f
  BY <1>2, Zenon DEF Doubled
<1>5. \A k \in 0..6 : f[k] = IF k = 0 THEN 300 ELSE 2 * f[k - 1]
  BY <1>3
<1> HIDE DEF Doubles, g
<1>6. f[0] = 300 /\ f[1] = 2 * f[0] /\ f[2] = 2 * f[1] /\ f[3] = 2 * f[2]
  BY <1>5
<1>7. f[4] = 2 * f[3] /\ f[5] = 2 * f[4] /\ f[6] = 2 * f[5]
  BY <1>5
<1> QED
  BY <1>4, <1>6, <1>7

\* What a code means to the meter is what the tables of the helpers say.
LEMMA CodeSpeeds ==
  /\ CodeChars = {"0", "1", "2", "3", "4", "5", "6"}
  /\ MeterSpeed("0") = 300 /\ MeterSpeed("1") = 600 /\ MeterSpeed("2") = 1200
  /\ MeterSpeed("3") = 2400 /\ MeterSpeed("4") = 4800 /\ MeterSpeed("5") = 9600
  /\ MeterSpeed("6") = 19200
<1>1. /\ Digits[1] = "0" /\ Digits[2] = "1" /\ Digits[3] = "2" /\ Digits[4] = "3"
      /\ Digits[5] = "4" /\ Digits[6] = "5" /\ Digits[7] = "6"
  BY DEF Digits
<1>2. CodeChars = {"0", "1", "2", "3", "4", "5", "6"}
  <2>1. \A i \in 1..7 : i \in {1, 2, 3, 4, 5, 6, 7}
    OBVIOUS
  <2> QED
    BY <1>1, <2>1 DEF CodeChars
<1>3. ASSUME NEW n \in 0..6, NEW c, c = Digits[n + 1],
             \A k \in 0..6 : Digits[k + 1] = c => k = n
      PROVE  MeterSpeed(c) = Doubled[n]
  BY <1>3 DEF MeterSpeed
<1>4. \A k \in 0..6 : k \in {0, 1, 2, 3, 4, 5, 6}
  OBVIOUS
<1>5. MeterSpeed("0") = Doubled[0] /\ MeterSpeed("1") = Doubled[1]
  BY <1>1, <1>3, <1>4
<1>6. MeterSpeed("2") = Doubled[2] /\ MeterSpeed("3") = Doubled[3]
  BY <1>1, <1>3, <1>4
<1>7. MeterSpeed("4") = Doubled[4] /\ MeterSpeed("5") = Doubled[5]
  BY <1>1, <1>3, <1>4
<1>8. MeterSpeed("6") = Doubled[6]
  BY <1>1, <1>3, <1>4
<1> QED
  BY <1>2, <1>5, <1>6, <1>7, <1>8, Speeds

\* The tables of the helpers.
LEMMA Tables ==
  /\ BaudRateValue(0) = 300 /\ BaudRateValue(1) = 600 /\ BaudRateValue(2) = 1200
  /\ BaudRateValue(3) = 2400 /\ BaudRateValue(4) = 4800 /\ BaudRateValue(5) = 9600
  /\ BaudRateValue(6) = 19200
  /\ BaudRateCode(0) = "0" /\ BaudRateCode(1) = "1" /\ BaudRateCode(2) = "2"
  /\ BaudRateCode(3) = "3" /\ BaudRateCode(4) = "4" /\ BaudRateCode(5) = "5"
  /\ BaudRateCode(6) = "6"
  /\ RateOfCode["0"] = 0 /\ RateOfCode["1"] = 1 /\ RateOfCode["2"] = 2 /\ RateOfCode["3"] = 3
  /\ RateOfCode["4"] = 4 /\ RateOfCode["5"] = 5 /\ RateOfCode["6"] = 6
  /\ DOMAIN RateOfCode = {"0", "1", "2", "3", "4", "5", "6"}
<1>1. /\ BaudRateValue(0) = 300 /\ BaudRateValue(1) = 600 /\ BaudRateValue(2) = 1200
      /\ BaudRateValue(3) = 2400 /\ BaudRateValue(4) = 4800 /\ BaudRateValue(5) = 9600
      /\ BaudRateValue(6) = 19200
  BY DEF BaudRateValue, IsKnownBaudRate, Baud300, Baud19200
<1>2. /\ BaudRateCode(0) = "0" /\ BaudRateCode(1) = "1" /\ BaudRateCode(2) = "2"
      /\ BaudRateCode(3) = "3" /\ BaudRateCode(4) = "4" /\ BaudRateCode(5) = "5"
      /\ BaudRateCode(6) = "6"
  BY DEF BaudRateCode, IsKnownBaudRate, Baud300, Baud19200
<1>3. /\ RateOfCode["0"] = 0 /\ RateOfCode["1"] = 1 /\ RateOfCode["2"] = 2
      /\ RateOfCode["3"] = 3 /\ RateOfCode["4"] = 4 /\ RateOfCode["5"] = 5
      /\ RateOfCode["6"] = 6
  BY DEF RateOfCode
<1>4. DOMAIN RateOfCode = {"0", "1", "2", "3", "4", "5", "6"}
  BY DEF RateOfCode
<1> QED
  BY <1>1, <1>2, <1>3, <1>4

\* The rate parsed from a code is the meter's speed.
LEMMA ParsedSpeed ==
  ASSUME NEW c \in CodeChars
  PROVE  /\ c \in DOMAIN RateOfCode /\ RateOfCode[c] \in 0..6
         /\ BaudRateValue(RateOfCode[c]) = MeterSpeed(c)
<1>1. c \in {"0", "1", "2", "3", "4", "5", "6"}
  BY CodeSpeeds
<1>2. RateOfCode[c] \in 0..6
  BY <1>1, Tables
<1>3. BaudRateValue(RateOfCode[c]) = MeterSpeed(c)
  BY <1>1, Tables, CodeSpeeds
<1> QED
  BY <1>1, <1>2, <1>3, Tables

\* The code of a known rate is the meter's speed, and rates are ordered as speeds.
LEMMA KnownSpeed ==
  ASSUME NEW r \in 0..6
  PROVE  /\ BaudRateValue(r) = MeterSpeed(BaudRateCode(r))
         /\ BaudRateValue(r) > 0
         /\ \A q \in 0..6 : r <= q => BaudRateValue(r) <= BaudRateValue(q)
<1>0. \A k \in 0..6 : k \in {0, 1, 2, 3, 4, 5, 6}
  OBVIOUS
<1>1. BaudRateValue(r) = MeterSpeed(BaudRateCode(r))
  BY <1>0, Tables, CodeSpeeds
<1>2. BaudRateValue(r) > 0
  BY <1>0, Tables
<1>3. ASSUME NEW q \in 0..6, r <= q PROVE BaudRateValue(r) <= BaudRateValue(q)
  BY <1>0, <1>3, Tables
<1> QED
  BY <1>1, <1>2, <1>3

-----------------------------------------------------------------------------
(* The parser *)

\* Two and three characters in a row, the way the standard spells them out.
PairIs(m, i, a, b) == SubSeq(m, i, i + 1) = <<a, b>>
TripleIs(m, i, a, b, c) == SubSeq(m, i, i + 2) = <<a, b, c>>

\* They are what is found there character by character.
LEMMA PairAt ==
  ASSUME NEW S, NEW m \in Seq(S), NEW n \in Nat, n = Len(m),
         NEW i \in 1..n, i + 1 <= n,
         NEW a, NEW b
  PROVE  PairIs(m, i, a, b) <=> m[i] = a /\ m[i + 1] = b
<1>0. PICK T : T = S \cup {a, b}
  OBVIOUS
<1>t. m \in Seq(T)
  <2>1. \A k \in 1..n : m[k] \in T
    BY <1>0, ElementOfSeq
  <2>2. m = [k \in 1..n |-> m[k]]
    BY SeqDef
  <2>3. m \in [1..n -> T]
    BY <2>1, <2>2
  <2> QED
    BY <2>3, SeqDef
<1>1. \A k \in i..(i + 1) : m[k] \in T
  BY <1>t, ElementOfSeq
<1>2. PICK s \in Seq(T) :
        s = SubSeq(m, i, i + 1) /\ Len(s) = 2 /\ s[1] = m[i] /\ s[2] = m[i + 1]
  <2>1. /\ SubSeq(m, i, i + 1) \in Seq(T)
        /\ Len(SubSeq(m, i, i + 1)) = IF i <= i + 1 THEN (i + 1) - i + 1 ELSE 0
        /\ \A k \in 1..((i + 1) - i + 1) : SubSeq(m, i, i + 1)[k] = m[i + k - 1]
    BY <1>t, <1>1, SubSeqProperties
  <2>2. Len(SubSeq(m, i, i + 1)) = 2
    BY <2>1
  <2>3. SubSeq(m, i, i + 1)[1] = m[i] /\ SubSeq(m, i, i + 1)[2] = m[i + 1]
    BY <2>1
  <2> QED
    BY <2>1, <2>2, <2>3
<1>3. PICK t \in Seq(T) : t = <<a, b>> /\ Len(t) = 2 /\ t[1] = a /\ t[2] = b
  <2>1. <<a, b>> \in Seq(T) /\ Len(<<a, b>>) = 2
    BY <1>0
  <2>2. <<a, b>>[1] = a /\ <<a, b>>[2] = b
    OBVIOUS
  <2> QED
    BY <2>1, <2>2, Zenon
<1>4. (s[1] = t[1] /\ s[2] = t[2]) => s = t
  <2> SUFFICES ASSUME s[1] = t[1], s[2] = t[2] PROVE s = t
    OBVIOUS
  <2>1. \A k \in 1..Len(s) : s[k] = t[k]
    <3>1. \A k \in 1..2 : k = 1 \/ k = 2
      OBVIOUS
    <3> QED
      BY <1>2, <3>1
  <2> QED
    BY <1>2, <1>3, <2>1, SeqEqual
<1> QED
  BY <1>2, <1>3, <1>4, Zenon DEF PairIs

\* ... three of them likewise.
LEMMA TripleAt ==
  ASSUME NEW S, NEW m \in Seq(S), NEW n \in Nat, n = Len(m),
         NEW i \in 1..n, i + 2 <= n,
         NEW a, NEW b, NEW c
  PROVE  TripleIs(m, i, a, b, c) <=> m[i] = a /\ m[i + 1] = b /\ m[i + 2] = c
<1>0. PICK T : T = S \cup {a, b, c}
  OBVIOUS
<1>t. m \in Seq(T)
  <2>1. \A k \in 1..n : m[k] \in T
    BY <1>0, ElementOfSeq
  <2>2. m = [k \in 1..n |-> m[k]]
    BY SeqDef
  <2>3. m \in [1..n -> T]
    BY <2>1, <2>2
  <2> QED
    BY <2>3, SeqDef
<1>1. \A k \in i..(i + 2) : m[k] \in T
  BY <1>t, ElementOfSeq
<1>2. PICK s \in Seq(T) :
        /\ s = SubSeq(m, i, i + 2) /\ Len(s) = 3
        /\ s[1] = m[i] /\ s[2] = m[i + 1] /\ s[3] = m[i + 2]
  <2>1. /\ SubSeq(m, i, i + 2) \in Seq(T)
        /\ Len(SubSeq(m, i, i + 2)) = IF i <= i + 2 THEN (i + 2) - i + 1 ELSE 0
        /\ \A k \in 1..((i + 2) - i + 1) : SubSeq(m, i, i + 2)[k] = m[i + k - 1]
    BY <1>t, <1>1, SubSeqProperties
  <2>2. Len(SubSeq(m, i, i + 2)) = 3
    BY <2>1
  <2>3. /\ SubSeq(m, i, i + 2)[1] = m[i] /\ SubSeq(m, i, i + 2)[2] = m[i + 1]
        /\ SubSeq(m, i, i + 2)[3] = m[i + 2]
    BY <2>1
  <2> QED
    BY <2>1, <2>2, <2>3
<1>3. PICK t \in Seq(T) :
        t = <<a, b, c>> /\ Len(t) = 3 /\ t[1] = a /\ t[2] = b /\ t[3] = c
  <2>1. <<a, b, c>> \in Seq(T) /\ Len(<<a, b, c>>) = 3
    BY <1>0
  <2>2. <<a, b, c>>[1] = a /\ <<a, b, c>>[2] = b /\ <<a, b, c>>[3] = c
    OBVIOUS
  <2> QED
    BY <2>1, <2>2, Zenon
<1>4. (s[1] = t[1] /\ s[2] = t[2] /\ s[3] = t[3]) => s = t
  <2> SUFFICES ASSUME s[1] = t[1], s[2] = t[2], s[3] = t[3] PROVE s = t
    OBVIOUS
  <2>1. \A k \in 1..Len(s) : s[k] = t[k]
    <3>1. \A k \in 1..3 : k = 1 \/ k = 2 \/ k = 3
      OBVIOUS
    <3> QED
      BY <1>2, <3>1
  <2> QED
    BY <1>2, <1>3, <2>1, SeqEqual
<1> QED
  BY <1>2, <1>3, <1>4, Zenon DEF TripleIs

\* A non-empty set of naturals has a least element.
LEMMA LeastExists ==
  ASSUME NEW S \in SUBSET Nat, S # {}
  PROVE  \E x \in S : \A y \in S : x <= y
<1> DEFINE R == OpToRel(<, Nat)
<1>1. PICK x \in S : \A y \in S : ~(<<y, x>> \in R)
  <2>1. IsWellFoundedOn(R, Nat)
    BY NatLessThanWellFounded
  <2> HIDE DEF R
  <2> QED
    BY <2>1, WFMin
<1>2. ASSUME NEW y \in S, y < x PROVE <<y, x>> \in R
  BY <1>2 DEF OpToRel
<1> HIDE DEF R
<1>3. \A y \in S : ~(y < x)
  BY <1>1, <1>2, Zenon
<1>4. \A y \in S : x <= y
  BY <1>3
<1> QED
  BY <1>4

\* input.find returns the first occurrence of the marker, or the length.
LEMMA MarkerIs ==
  ASSUME NEW S, NEW m \in Seq(S), NEW n \in Nat, n = Len(m)
  PROVE  LET found == {i \in 0..(n - 2) : m[i + 1] = "\\" /\ m[i + 2] = "W"}
         IN /\ found = {} => FindMarker(m) = n
            /\ found # {} => FindMarker(m) \in found /\ \A j \in found : FindMarker(m) <= j
<1> DEFINE found == {i \in 0..(n - 2) : m[i + 1] = "\\" /\ m[i + 2] = "W"}
<1>1. found = {i \in 0..(Len(m) - 2) : At(m, i) = "\\" /\ At(m, i + 1) = "W"}
  <2>1. \A i \in 0..(n - 2) : At(m, i) = m[i + 1] /\ At(m, i + 1) = m[i + 2]
    BY DEF At
  <2> QED
    BY <2>1
<1>2. found \in SUBSET Nat
  OBVIOUS
<1> HIDE DEF found
<1>3. FindMarker(m) =
        IF found = {} THEN n ELSE CHOOSE i \in found : \A j \in found : i <= j
  <2>1. PICK f : f = {i \in 0..(Len(m) - 2) : At(m, i) = "\\" /\ At(m, i + 1) = "W"}
    OBVIOUS
  <2>2. FindMarker(m) =
          IF f = {} THEN Len(m) ELSE CHOOSE i \in f : \A j \in f : i <= j
    BY <2>1 DEF FindMarker
  <2>3. f = found
    BY <1>1, <2>1
  <2> QED
    BY <2>2, <2>3, Zenon
<1>4. found # {} => \E x \in found : \A y \in found : x <= y
  BY <1>2, LeastExists
<1>5. found = {} => FindMarker(m) = n
  BY <1>3
<1>6. found # {} => FindMarker(m) \in found /\ \A j \in found : FindMarker(m) <= j
  BY <1>3, <1>4, Zenon
<1> QED
  BY <1>5, <1>6 DEF found

\* The parser sees mode E exactly where the standard puts it.
LEMMA ModeESeen ==
  ASSUME NEW S, NEW m \in Seq(S)
  PROVE  SupportsModeE(m) <=> OffersModeE(m)
<1>1. PICK n \in Nat : n = Len(m)
  BY LenProperties
<1> DEFINE found == {i \in 0..(n - 2) : m[i + 1] = "\\" /\ m[i + 2] = "W"}
<1>2. PICK k : k = FindMarker(m)
  OBVIOUS
<1>3. /\ found = {} => k = n
      /\ found # {} => k \in found /\ \A j \in found : k <= j
  BY <1>1, <1>2, MarkerIs
<1>4. \A i : i \in found <=> i \in 0..(n - 2) /\ m[i + 1] = "\\" /\ m[i + 2] = "W"
  OBVIOUS
<1> HIDE DEF found
<1>5. SupportsModeE(m) <=> k + 2 < n /\ m[k + 2 + 1] = "2"
  BY <1>1, <1>2 DEF SupportsModeE, At
<1>6. ASSUME NEW j \in Nat, j + 2 <= n, j >= 1
      PROVE  SubSeq(m, j, j + 1) = <<"\\", "W">> <=> j - 1 \in found
  <2>1. j \in 1..n /\ j + 1 <= n
    BY <1>6
  <2>2. PairIs(m, j, "\\", "W") <=> m[j] = "\\" /\ m[j + 1] = "W"
    BY <1>1, <2>1, PairAt
  <2>3. j - 1 \in 0..(n - 2) /\ (j - 1) + 1 = j /\ (j - 1) + 2 = j + 1
    BY <1>6
  <2>4. PairIs(m, j, "\\", "W") <=> j - 1 \in found
    BY <1>4, <2>2, <2>3
  <2> QED
    BY <2>4, Zenon DEF PairIs
<1>7. ASSUME SupportsModeE(m) PROVE OffersModeE(m)
  <2>1. found # {}
    BY <1>3, <1>5, <1>7
  <2>2. k \in Nat /\ k + 2 < n /\ m[k + 3] = "2" /\ m[k + 1] = "\\" /\ m[k + 2] = "W"
    <3>1. k \in found
      BY <1>3, <2>1
    <3>2. k \in Nat /\ k + 2 + 1 = k + 3
      BY <1>4, <3>1
    <3> QED
      BY <1>4, <1>5, <1>7, <3>1, <3>2
  <2>3. PICK i \in Nat : i = k + 1
    BY <2>2
  <2>4. i \in 1..(n - 2) /\ i \in 1..n /\ i + 2 <= n /\ i + 1 = k + 2 /\ i + 2 = k + 3
    BY <2>2, <2>3
  <2>5. TripleIs(m, i, "\\", "W", "2")
    <3>1. m[i] = "\\" /\ m[i + 1] = "W" /\ m[i + 2] = "2"
      BY <2>2, <2>3, <2>4
    <3> QED
      BY <1>1, <2>4, <3>1, TripleAt
  <2>6. ASSUME NEW j \in 1..(i - 1) PROVE SubSeq(m, j, j + 1) # <<"\\", "W">>
    <3>1. j \in Nat /\ j + 2 <= n /\ j >= 1 /\ j - 1 < k /\ j - 1 \in Nat
      BY <2>2, <2>3, <2>4
    <3>2. j - 1 \notin found
      <4>1. j - 1 \in found => k <= j - 1
        BY <1>3, <2>1
      <4> QED
        BY <2>2, <3>1, <4>1
    <3> QED
      BY <1>6, <3>1, <3>2
  <2> QED
    BY <1>1, <2>4, <2>5, <2>6, Zenon DEF OffersModeE, TripleIs
<1>8. ASSUME OffersModeE(m) PROVE SupportsModeE(m)
  <2>1. PICK i \in 1..(n - 2) :
          /\ TripleIs(m, i, "\\", "W", "2")
          /\ \A j \in 1..(i - 1) : SubSeq(m, j, j + 1) # <<"\\", "W">>
    BY <1>1, <1>8, Zenon DEF OffersModeE, TripleIs
  <2>2. i \in Nat /\ i \in 1..n /\ i + 2 <= n /\ i >= 1
    OBVIOUS
  <2>3. m[i] = "\\" /\ m[i + 1] = "W" /\ m[i + 2] = "2"
    BY <1>1, <2>1, <2>2, TripleAt
  <2>4. i - 1 \in found
    <3>1. i - 1 \in 0..(n - 2) /\ (i - 1) + 1 = i /\ (i - 1) + 2 = i + 1
      BY <2>2
    <3> QED
      BY <1>4, <2>3, <3>1
  <2>5. ASSUME NEW j \in found PROVE i - 1 <= j
    <3>0. j \in Nat
      BY <1>4
    <3>1. SUFFICES ASSUME j < i - 1 PROVE FALSE
      BY <2>2, <3>0
    <3>2. PICK p \in Nat : p = j + 1
      BY <3>0
    <3>3. p \in 1..(i - 1) /\ p + 2 <= n /\ p >= 1 /\ p - 1 = j
      BY <2>2, <3>0, <3>1, <3>2
    <3>4. SubSeq(m, p, p + 1) # <<"\\", "W">>
      BY <2>1, <3>3, Zenon
    <3> QED
      BY <1>6, <3>3, <3>4
  <2>6. k = i - 1
    <3>1. k \in found /\ k <= i - 1
      BY <1>3, <2>4
    <3>2. i - 1 <= k /\ k \in Nat
      BY <1>4, <2>5, <3>1
    <3> QED
      BY <2>2, <3>1, <3>2
  <2>7. k + 2 < n /\ k + 2 + 1 = i + 2
    BY <2>2, <2>6
  <2> QED
    BY <1>5, <2>3, <2>7
<1> QED
  BY <1>7, <1>8 DEF SupportsModeE, OffersModeE

\* The parser accepts exactly the identifications: a message of five or six
\* characters has its line's end where the code of the baud rate would be.
LEMMA Accepted ==
  ASSUME NEW S, NEW m \in Seq(S)
  PROVE  WellFormed(m) /\ At(m, 4) \in DOMAIN RateOfCode <=> IsIdentification(m)
<1>1. PICK n \in Nat : n = Len(m)
  BY LenProperties
<1>2. n >= 5 => (SubSeq(m, n - 1, n) = <<"CR", "LF">> <=> m[n - 1] = "CR" /\ m[n] = "LF")
  <2> SUFFICES ASSUME n >= 5
               PROVE  SubSeq(m, n - 1, n) = <<"CR", "LF">> <=> m[n - 1] = "CR" /\ m[n] = "LF"
    OBVIOUS
  <2>1. PICK i \in 1..n : i = n - 1 /\ i + 1 = n
    OBVIOUS
  <2>2. PairIs(m, i, "CR", "LF") <=> m[i] = "CR" /\ m[i + 1] = "LF"
    BY <1>1, <2>1, PairAt
  <2> QED
    BY <2>1, <2>2, Zenon DEF PairIs
<1>3. n >= 5 => Head(m) = m[1]
  <2>1. n >= 5 => m # <<>>
    BY <1>1, EmptySeq
  <2> QED
    BY <2>1
<1>4. WellFormed(m) <=> n >= 5 /\ m[1] = "/" /\ m[n - 1] = "CR" /\ m[n] = "LF"
  <2>1. (n - 2) + 1 = n - 1 /\ (n - 1) + 1 = n /\ 0 + 1 = 1
    OBVIOUS
  <2> QED
    BY <1>1, <2>1 DEF WellFormed, At
<1>5. At(m, 4) = m[5]
  BY DEF At
<1>6. "CR" \notin CodeChars /\ "LF" \notin CodeChars /\ DOMAIN RateOfCode = CodeChars
  BY CodeSpeeds, Tables
<1>7. ASSUME WellFormed(m), At(m, 4) \in DOMAIN RateOfCode PROVE IsIdentification(m)
  <2>1. n # 5 /\ n # 6
    <3>1. n = 5 => m[5] = "LF"
      BY <1>4, <1>7
    <3>2. n = 6 => m[5] = "CR"
      BY <1>4, <1>7
    <3> QED
      BY <1>5, <1>6, <1>7, <3>1, <3>2
  <2>2. n >= 7
    BY <1>4, <1>7, <2>1
  <2> QED
    BY <1>1, <1>2, <1>3, <1>4, <1>5, <1>6, <1>7, <2>2 DEF IsIdentification
<1>8. ASSUME IsIdentification(m) PROVE WellFormed(m) /\ At(m, 4) \in DOMAIN RateOfCode
  <2>1. n >= 5 /\ Head(m) = "/" /\ m[5] \in CodeChars /\ SubSeq(m, n - 1, n) = <<"CR", "LF">>
    BY <1>1, <1>8 DEF IsIdentification
  <2> QED
    BY <1>2, <1>3, <1>4, <1>5, <1>6, <2>1
<1> QED
  BY <1>7, <1>8 DEF WellFormed, IsIdentification

-----------------------------------------------------------------------------
(* The inductive invariant *)

\* What is known of the client's variables after each helper: they are what the
\* helper computed, and every helper was given what the one before it wrote.
Statuses == {"Ok", "InvalidArgument", "UnsupportedFeature"}

Calls == [signOn |-> 0, parse |-> 1, select |-> 2, ack |-> 3, done |-> 4]

Parsed ==
  /\ message \in Messages
  /\ <<statuses[2], identification>> = Parse(message, NoIdentification)

Selected ==
  /\ requested \in Requests
  /\ <<statuses[3], selected>> = Select(identification, requested)

Acknowledged ==
  /\ acked \in {selected, requested}
  /\ <<statuses[4], output>> = ModeEAck(acked)

IInv ==
  /\ pc \in {"signOn", "parse", "select", "ack", "done"}
  /\ statuses \in Seq(Statuses) 
  /\ Len(statuses) = Calls[pc]
  /\ pc \in {"select", "ack", "done"} => Parsed
  /\ pc \in {"ack", "done"} => Selected
  /\ pc = "done" => Acknowledged

\* The helpers return a status and a value; Parse ignores what it overwrites.
LEMMA HelpersReturn ==
  ASSUME NEW m, NEW old, NEW id, NEW r
  PROVE  /\ Parse(m, old) = Parse(m, NoIdentification)
         /\ Parse(m, old) = <<Parse(m, old)[1], Parse(m, old)[2]>>
         /\ Select(id, r) = <<Select(id, r)[1], Select(id, r)[2]>>
         /\ ModeEAck(r) = <<ModeEAck(r)[1], ModeEAck(r)[2]>>
         /\ Parse(m, old)[1] \in Statuses /\ Select(id, r)[1] \in Statuses
         /\ ModeEAck(r)[1] \in Statuses
<1>1. Parse(m, old) = Parse(m, NoIdentification)
  BY DEF Parse
<1>2. ASSUME NEW p, NEW a \in Statuses, NEW b, p = <<a, b>>
      PROVE  p = <<p[1], p[2]>> /\ p[1] \in Statuses
  <2>1. p[1] = a /\ p[2] = b
    BY <1>2
  <2> QED
    BY <1>2, <2>1
<1>3. \E a \in Statuses : \E b : Parse(m, old) = <<a, b>>
  BY DEF Parse, Statuses
<1>4. \E a \in Statuses : \E b : Select(id, r) = <<a, b>>
  BY DEF Select, Statuses
<1>5. \E a \in Statuses : \E b : ModeEAck(r) = <<a, b>>
  BY DEF ModeEAck, Statuses
<1> QED
  BY <1>1, <1>2, <1>3, <1>4, <1>5, Zenon

\* How many helpers have returned, by the helper that is next.
LEMMA CallsAre ==
  /\ Calls["signOn"] = 0 /\ Calls["parse"] = 1 /\ Calls["select"] = 2
  /\ Calls["ack"] = 3 /\ Calls["done"] = 4
BY DEF Calls

\* One more status keeps the earlier ones.
LEMMA StatusAdded ==
  ASSUME NEW s \in Seq(Statuses), NEW e \in Statuses, NEW t, t = Append(s, e),
         NEW n \in Nat, Len(s) = n
  PROVE  /\ t \in Seq(Statuses) /\ Len(t) = n + 1
         /\ \A i \in 1..n : t[i] = s[i]
         /\ t[n + 1] = e
<1>1. /\ Append(s, e) \in Seq(Statuses) /\ Len(Append(s, e)) = Len(s) + 1
      /\ \A i \in 1..Len(s) : Append(s, e)[i] = s[i]
      /\ Append(s, e)[Len(s) + 1] = e
  BY AppendProperties
<1> QED
  BY <1>1, Zenon

\* The invariant holds at the start ...
LEMMA InitInv == Init => IInv
BY CallsAre, EmptySeq DEF Init, IInv

\* ... and every step preserves it.
LEMMA NextInv == IInv /\ [Next]_vars => IInv'
<1> SUFFICES ASSUME IInv, [Next]_vars PROVE IInv'
  OBVIOUS
<1>1. CASE BuildSignOnRequest
  <2>1. pc' = "parse" /\ statuses' = <<"Ok">>
    BY <1>1 DEF BuildSignOnRequest
  <2>2. statuses' \in Seq(Statuses) /\ Len(statuses') = 1
    BY <2>1 DEF Statuses
  <2> QED
    BY <2>1, <2>2, CallsAre DEF IInv
<1>2. CASE ParseIdentification
  <2>1. pc = "parse" /\ pc' = "select" /\ statuses \in Seq(Statuses) /\ Len(statuses) = 1
    BY <1>2, CallsAre DEF ParseIdentification, IInv
  <2>2. PICK m \in Messages :
          /\ message' = m /\ identification' = Parse(m, identification)[2]
          /\ statuses' = Append(statuses, Parse(m, identification)[1])
    BY <1>2 DEF ParseIdentification
  <2>3. PICK e \in Statuses : e = Parse(m, identification)[1]
    BY HelpersReturn
  <2>4. statuses' \in Seq(Statuses) /\ Len(statuses') = 2 /\ statuses'[2] = e
    <3>1. statuses' = Append(statuses, e) /\ 1 \in Nat
      BY <2>2, <2>3
    <3>2. /\ statuses' \in Seq(Statuses) /\ Len(statuses') = 1 + 1
          /\ \A i \in 1..1 : statuses'[i] = statuses[i]
          /\ statuses'[1 + 1] = e
      BY <2>1, <2>3, <3>1, StatusAdded
    <3> QED
      BY <3>2
  <2>5. <<statuses'[2], identification'>> = Parse(m, NoIdentification)
    <3>1. <<e, identification'>> = Parse(m, identification)
      BY <2>2, <2>3, HelpersReturn, Zenon
    <3> QED
      BY <2>4, <3>1, HelpersReturn, Zenon
  <2>6. Parsed'
    BY <2>2, <2>5, Zenon DEF Parsed
  <2> QED
    BY <2>1, <2>4, <2>6, CallsAre DEF IInv
<1>3. CASE SelectModeEBaudRate
  <2>1. /\ pc = "select" /\ pc' = "ack" /\ statuses \in Seq(Statuses) /\ Len(statuses) = 2
        /\ Parsed /\ UNCHANGED <<message, identification>>
    BY <1>3, CallsAre DEF SelectModeEBaudRate, IInv
  <2>2. PICK max \in Requests :
          /\ requested' = max /\ selected' = Select(identification, max)[2]
          /\ statuses' = Append(statuses, Select(identification, max)[1])
    BY <1>3 DEF SelectModeEBaudRate
  <2>3. PICK e \in Statuses : e = Select(identification, max)[1]
    BY HelpersReturn
  <2>4. /\ statuses' \in Seq(Statuses) /\ Len(statuses') = 3
        /\ statuses'[2] = statuses[2] /\ statuses'[3] = e
    <3>1. statuses' = Append(statuses, e) /\ 2 \in Nat
      BY <2>2, <2>3
    <3>2. /\ statuses' \in Seq(Statuses) /\ Len(statuses') = 2 + 1
          /\ \A i \in 1..2 : statuses'[i] = statuses[i]
          /\ statuses'[2 + 1] = e
      BY <2>1, <2>3, <3>1, StatusAdded
    <3> QED
      BY <3>2
  <2>5. Parsed'
    BY <2>1, <2>4, Zenon DEF Parsed
  <2>6. Selected'
    <3>1. <<e, selected'>> = Select(identification, max)
      BY <2>2, <2>3, HelpersReturn, Zenon
    <3> QED
      BY <2>1, <2>2, <2>4, <3>1, Zenon DEF Selected
  <2> QED
    BY <2>1, <2>4, <2>5, <2>6, CallsAre DEF IInv
<1>4. CASE BuildModeEAck
  <2>1. /\ pc = "ack" /\ pc' = "done" /\ statuses \in Seq(Statuses) /\ Len(statuses) = 3
        /\ Parsed /\ Selected
        /\ UNCHANGED <<message, identification, requested, selected>>
    BY <1>4, CallsAre DEF BuildModeEAck, IInv
  <2>2. PICK rate \in {selected, requested} :
          /\ acked' = rate /\ output' = ModeEAck(rate)[2]
          /\ statuses' = Append(statuses, ModeEAck(rate)[1])
    BY <1>4 DEF BuildModeEAck
  <2>3. PICK e \in Statuses : e = ModeEAck(rate)[1]
    BY HelpersReturn
  <2>4. /\ statuses' \in Seq(Statuses) /\ Len(statuses') = 4
        /\ statuses'[2] = statuses[2] /\ statuses'[3] = statuses[3] /\ statuses'[4] = e
    <3>1. statuses' = Append(statuses, e) /\ 3 \in Nat
      BY <2>2, <2>3
    <3>2. /\ statuses' \in Seq(Statuses) /\ Len(statuses') = 3 + 1
          /\ \A i \in 1..3 : statuses'[i] = statuses[i]
          /\ statuses'[3 + 1] = e
      BY <2>1, <2>3, <3>1, StatusAdded
    <3> QED
      BY <3>2
  <2>5. Parsed' /\ Selected'
    BY <2>1, <2>4, Zenon DEF Parsed, Selected
  <2>6. Acknowledged'
    <3>1. <<e, output'>> = ModeEAck(rate)
      BY <2>2, <2>3, HelpersReturn, Zenon
    <3>2. acked' \in {selected', requested'}
      BY <2>1, <2>2
    <3> QED
      BY <2>2, <2>4, <3>1, <3>2, Zenon DEF Acknowledged
  <2> QED
    BY <2>1, <2>4, <2>5, <2>6, CallsAre DEF IInv
<1>5. CASE UNCHANGED vars
  BY <1>5 DEF vars, IInv, Parsed, Selected, Acknowledged
<1> QED
  BY <1>1, <1>2, <1>3, <1>4, <1>5 DEF Next

\* The invariant holds in every reachable state.
LEMMA Invariance == Spec => []IInv
BY InitInv, NextInv, PTL DEF Spec

-----------------------------------------------------------------------------
(* The theorems *)

\* What Parse says of a message, in the words of the standard.
LEMMA ParseIs ==
  ASSUME NEW S, NEW m \in Seq(S), NEW status, NEW id,
         <<status, id>> = Parse(m, NoIdentification)
  PROVE  /\ status = IF IsIdentification(m) THEN "Ok" ELSE "InvalidArgument"
         /\ id.supportsModeE <=> IsIdentification(m) /\ OffersModeE(m)
         /\ IsIdentification(m) =>
              /\ m[5] \in CodeChars /\ id.maxBaudRate = RateOfCode[m[5]]
              /\ id.maxBaudRate \in 0..6
              /\ BaudRateValue(id.maxBaudRate) = MeterSpeed(m[5])
<1>1. CASE ~IsIdentification(m)
  <2>1. ~(WellFormed(m) /\ At(m, 4) \in DOMAIN RateOfCode)
    BY <1>1, Accepted
  <2>2. \/ Parse(m, NoIdentification) = <<"InvalidArgument", NoIdentification>>
        \/ Parse(m, NoIdentification) =
             <<"InvalidArgument", [NoIdentification EXCEPT !.raw = m]>>
    BY <2>1, Zenon DEF Parse
  <2>3. status = "InvalidArgument" /\ ~id.supportsModeE
    BY <2>2 DEF NoIdentification
  <2> QED
    BY <1>1, <2>3
<1>2. CASE IsIdentification(m)
  <2>1. WellFormed(m) /\ At(m, 4) \in DOMAIN RateOfCode
    BY <1>2, Accepted
  <2>2. At(m, 4) = m[5]
    BY DEF At
  <2>3. <<status, id>> =
          <<"Ok", [raw |-> m, supportsModeE |-> SupportsModeE(m),
                   maxBaudRate |-> RateOfCode[m[5]]]>>
    BY <2>1, <2>2, Zenon DEF Parse
  <2>4. status = "Ok"
    BY <2>3
  <2>5. id.supportsModeE = SupportsModeE(m) /\ id.maxBaudRate = RateOfCode[m[5]]
    BY <2>3
  <2>6. m[5] \in CodeChars
    BY <1>2 DEF IsIdentification
  <2>7. id.supportsModeE <=> OffersModeE(m)
    BY <2>5, ModeESeen
  <2>8. id.maxBaudRate \in 0..6 /\ BaudRateValue(id.maxBaudRate) = MeterSpeed(m[5])
    BY <2>5, <2>6, ParsedSpeed
  <2> QED
    BY <1>2, <2>4, <2>5, <2>6, <2>7, <2>8
<1> QED
  BY <1>1, <1>2

\* After the parser, Parsed holds.
LEMMA AfterParse ==
  ASSUME IInv, Len(statuses) >= 2
  PROVE  /\ message \in Seq(STRING)
         /\ <<statuses[2], identification>> = Parse(message, NoIdentification)
<1>1. pc \in {"select", "ack", "done"}
  BY CallsAre DEF IInv
<1> QED
  BY <1>1, ModeEAssumption DEF IInv, Parsed

\* IdentificationIsMeters: a message of any length and content is accepted by
\* ParseIec62056_21Identification if and only if it is an identification, and
\* nothing of an earlier meter is left in the result.
THEOREM ParsedIsMeters == Spec => []IdentificationIsMeters
<1>1. IInv => IdentificationIsMeters
  <2> SUFFICES ASSUME IInv, Len(statuses) >= 2
               PROVE  /\ statuses[2] =
                           IF IsIdentification(message) THEN "Ok" ELSE "InvalidArgument"
                      /\ identification.supportsModeE <=>
                           IsIdentification(message) /\ OffersModeE(message)
                      /\ IsIdentification(message) =>
                           BaudRateValue(identification.maxBaudRate) = MeterSpeed(message[5])
    BY DEF IdentificationIsMeters
  <2>1. /\ message \in Seq(STRING)
        /\ <<statuses[2], identification>> = Parse(message, NoIdentification)
    BY AfterParse
  <2> QED
    BY <2>1, ParseIs
<1> QED
  BY <1>1, Invariance, PTL

\* SpeedsAgree: after the chain of the helpers the meter switches to the speed the
\* client's port is set to, for every message, every requested rate (known or not)
\* and whichever of the two rates the client acknowledges with.
THEOREM SpeedsAlwaysAgree == Spec => []SpeedsAgree
<1>1. IInv => SpeedsAgree
  <2> SUFFICES ASSUME IInv, Len(statuses) = 4
               PROVE  /\ statuses[4] = "Ok" => BaudRateValue(acked) = MeterSpeed(output[3])
                      /\ statuses[3] = "Ok" =>
                           /\ IsIdentification(message) /\ OffersModeE(message)
                           /\ BaudRateValue(selected) <= MeterSpeed(message[5])
                           /\ BaudRateValue(selected) <= BaudRateValue(requested)
                           /\ BaudRateValue(selected) > 0
    BY DEF SpeedsAgree
  <2>1. /\ <<statuses[3], selected>> = Select(identification, requested)
        /\ <<statuses[4], output>> = ModeEAck(acked)
    <3>1. pc = "done"
      <4>1. /\ pc \in {"signOn", "parse", "select", "ack", "done"}
            /\ Calls[pc] = 4
        BY DEF IInv
      <4> QED
        BY <4>1, CallsAre
    <3> QED
      BY <3>1 DEF IInv, Selected, Acknowledged
  <2>2. /\ message \in Seq(STRING)
        /\ <<statuses[2], identification>> = Parse(message, NoIdentification)
    BY AfterParse
  <2>3. ASSUME statuses[4] = "Ok"
        PROVE  BaudRateValue(acked) = MeterSpeed(output[3])
    <3>1. acked \in 0..6
      BY <2>1, <2>3 DEF ModeEAck, IsKnownBaudRate, Baud300, Baud19200
    <3>2. <<statuses[4], output>> =
            <<"Ok", <<"ACK", "2", BaudRateCode(acked), "2", "CR", "LF">> >>
      BY <2>1, <3>1, Zenon DEF ModeEAck, IsKnownBaudRate, Baud300, Baud19200
    <3>3. output = <<"ACK", "2", BaudRateCode(acked), "2", "CR", "LF">>
      BY <3>2
    <3>4. output[3] = BaudRateCode(acked)
      BY <3>3
    <3> QED
      BY <3>1, <3>4, KnownSpeed
  <2>4. ASSUME statuses[3] = "Ok"
        PROVE  /\ IsIdentification(message) /\ OffersModeE(message)
               /\ BaudRateValue(selected) <= MeterSpeed(message[5])
               /\ BaudRateValue(selected) <= BaudRateValue(requested)
               /\ BaudRateValue(selected) > 0
    <3>1. identification.supportsModeE /\ requested \in 0..6
      BY <2>1, <2>4 DEF Select, IsKnownBaudRate, Baud300, Baud19200
    <3>2. IsIdentification(message) /\ OffersModeE(message)
      BY <2>2, <3>1, ParseIs
    <3>3. PICK max \in 0..6 :
            max = identification.maxBaudRate /\ BaudRateValue(max) = MeterSpeed(message[5])
      BY <2>2, <3>2, ParseIs
    <3>4. selected = IF max < requested THEN max ELSE requested
      <4>1. <<statuses[3], selected>> =
              <<"Ok", IF max < requested THEN max ELSE requested>>
        BY <2>1, <3>1, <3>3, Zenon
        DEF Select, IsKnownBaudRate, Baud300, Baud19200, BaudRank
      <4> QED
        BY <4>1
    <3>5. selected \in 0..6 /\ selected <= max /\ selected <= requested
      BY <3>1, <3>4
    <3>6. /\ BaudRateValue(selected) <= BaudRateValue(max)
          /\ BaudRateValue(selected) <= BaudRateValue(requested)
          /\ BaudRateValue(selected) > 0
      BY <3>1, <3>5, KnownSpeed
    <3> QED
      BY <3>2, <3>3, <3>6
  <2> QED
    BY <2>3, <2>4
<1> QED
  BY <1>1, Invariance, PTL
=============================================================================
