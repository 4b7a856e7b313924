----------------------------- MODULE PrintfProofs -----------------------------
(***************************************************************************)
(* Proofs about Printf for every format, every list of arguments and every *)
(* size of the buffer.  The rounds in which a format is read come first:   *)
(* that they are what their recursive definition says (told by functions   *)
(* on 0 .. n, with the choice of a least number in the place of induction),*)
(* that they get to the end of the text and settle there, and that what    *)
(* they have read so far is the beginning of what the format means.  The   *)
(* loop of cpu0_printf reads along with them until it has something in     *)
(* its buffer.                                                             *)
(***************************************************************************)
EXTENDS Printf, WellFoundedInduction, TLAPS

(* A set of natural numbers that is not empty has a least one.             *)
LEMMA LeastNatural ==
  ASSUME NEW S \in SUBSET Nat, S # {}
  PROVE  \E x \in S : \A y \in S : x <= y
<1> DEFINE R == {ss \in Nat \X Nat : ss[1] < ss[2]}
<1>1. OpToRel(<, Nat) = R
  BY DEF OpToRel
<1>2. IsWellFoundedOn(R, Nat)
  BY <1>1, NatLessThanWellFounded
<1>3. \A x, y \in Nat : <<x, y>> \in R <=> x < y
  OBVIOUS
<1> HIDE DEF R
<1>4. PICK x \in S : \A y \in S : ~ (<<y, x>> \in R)
  BY <1>2, WFMin
<1>5. ASSUME NEW y \in S PROVE x <= y
  <2>1. x \in Nat /\ y \in Nat
    OBVIOUS
  <2>2. ~ (y < x)
    BY <1>3, <1>4, <2>1
  <2>3. QED
    BY <2>1, <2>2
<1>6. QED
  BY <1>5

-----------------------------------------------------------------------------
(* Beginnings of texts.                                                    *)

Texts == Seq(STRING)

LEMMA PrefixIs ==
  ASSUME NEW s \in Texts, NEW t \in Texts
  PROVE  IsPrefix(s, t) <=> Len(s) <= Len(t) /\ \A i \in 1 .. Len(s) : s[i] = t[i]
<1>1. Len(s) \in Nat /\ Len(t) \in Nat
  BY DEF Texts
<1>2. SubSeq(s, 1, Len(s)) = s
  BY DEF Texts
<1>3. CASE Len(s) <= Len(t)
  <2> DEFINE b == SubSeq(t, 1, Len(s))
  <2>1. b \in Texts /\ Len(b) = Len(s) /\ \A i \in 1 .. Len(s) : b[i] = t[i]
    BY <1>1, <1>3 DEF Texts
  <2> HIDE DEF b
  <2>2. s = b <=> \A i \in 1 .. Len(s) : s[i] = t[i]
    BY <2>1 DEF Texts
  <2>3. QED
    BY <1>2, <1>3, <2>2 DEF IsPrefix, b
<1>4. CASE ~ (Len(s) <= Len(t))
  BY <1>4 DEF IsPrefix
<1>5. QED
  BY <1>3, <1>4

LEMMA PrefixTransitive ==
  ASSUME NEW s \in Texts, NEW t \in Texts, NEW u \in Texts,
         IsPrefix(s, t), IsPrefix(t, u)
  PROVE  IsPrefix(s, u)
<1>1. Len(s) \in Nat /\ Len(t) \in Nat /\ Len(u) \in Nat
  BY DEF Texts
<1>2. Len(s) <= Len(t) /\ \A i \in 1 .. Len(s) : s[i] = t[i]
  BY PrefixIs
<1>3. Len(t) <= Len(u) /\ \A i \in 1 .. Len(t) : t[i] = u[i]
  BY PrefixIs
<1>4. Len(s) <= Len(u) /\ \A i \in 1 .. Len(s) : s[i] = u[i]
  BY <1>1, <1>2, <1>3
<1>5. QED
  BY <1>4, PrefixIs

LEMMA PrefixOfItself ==
  ASSUME NEW s \in Texts
  PROVE  IsPrefix(s, s)
BY PrefixIs DEF Texts

LEMMA PrefixOfLonger ==
  ASSUME NEW s \in Texts, NEW t \in Texts
  PROVE  IsPrefix(s, s \o t)
<1>1. s \o t \in Texts /\ Len(s) <= Len(s \o t)
  BY DEF Texts
<1>2. \A i \in 1 .. Len(s) : s[i] = (s \o t)[i]
  BY DEF Texts
<1>3. QED
  BY <1>1, <1>2, PrefixIs

LEMMA CutIsPrefix ==
  ASSUME NEW s \in Texts, NEW m \in 0 .. Len(s)
  PROVE  /\ SubSeq(s, 1, m) \in Texts
         /\ Len(SubSeq(s, 1, m)) = m
         /\ IsPrefix(SubSeq(s, 1, m), s)
<1> DEFINE b == SubSeq(s, 1, m)
<1>1. Len(s) \in Nat
  BY DEF Texts
<1>2. b \in Texts /\ Len(b) = m /\ \A i \in 1 .. m : b[i] = s[i]
  BY <1>1 DEF Texts
<1> HIDE DEF b
<1>3. IsPrefix(b, s)
  BY <1>1, <1>2, PrefixIs
<1>4. QED
  BY <1>2, <1>3 DEF b

-----------------------------------------------------------------------------
(* The rounds of a reading.                                                *)

IsFormat(f) ==
  /\ f \in Texts
  /\ Len(f) > 1 /\ f[Len(f)] = NUL /\ f[Len(f) - 1] = NUL

IsArguments(a) == a \in Seq(Texts)

Readings == [at : Nat \ {0}, arg : Nat \ {0}, text : Texts]

FirstReading == [at |-> 1, arg |-> 1, text |-> <<>>]

(* g tells the first k rounds.                                             *)
Stretch(f, a, k, g) ==
  g = [i \in 0 .. k |-> IF i = 0 THEN FirstReading ELSE ReadOn(f, a, g[i - 1])]

LEMMA StretchesAgree ==
  ASSUME NEW f, NEW a, NEW k \in Nat, NEW m \in Nat, NEW g, NEW h,
         Stretch(f, a, k, g), Stretch(f, a, m, h)
  PROVE  \A i \in 0 .. k : i <= m => g[i] = h[i]
<1> DEFINE Bad == {i \in 0 .. k : i <= m /\ g[i] # h[i]}
<1>1. SUFFICES ASSUME Bad # {} PROVE FALSE
  OBVIOUS
<1>2. Bad \in SUBSET Nat
  OBVIOUS
<1>3. PICK i \in Bad : \A j \in Bad : i <= j
  BY <1>1, <1>2, LeastNatural
<1>4. i # 0
  BY DEF Stretch
<1>5. i - 1 \in 0 .. k /\ i - 1 <= m /\ i - 1 \notin Bad
  BY <1>3, <1>4
<1>6. g[i - 1] = h[i - 1]
  BY <1>5
<1>7. g[i] = ReadOn(f, a, g[i - 1]) /\ h[i] = ReadOn(f, a, h[i - 1])
  BY <1>4 DEF Stretch
<1>8. QED
  BY <1>6, <1>7

LEMMA StretchExists ==
  ASSUME NEW f, NEW a
  PROVE  \A m \in Nat : \E g : Stretch(f, a, m, g)
<1> DEFINE Bad == {m \in Nat : ~ \E g : Stretch(f, a, m, g)}
<1>1. SUFFICES ASSUME Bad # {} PROVE FALSE
  OBVIOUS
<1>2. PICK m \in Bad : \A j \in Bad : m <= j
  BY <1>1, LeastNatural
<1>3. m # 0
  <2>1. Stretch(f, a, 0, [i \in 0 .. 0 |-> FirstReading])
    BY DEF Stretch
  <2>2. QED
    BY <2>1
<1>4. m - 1 \in Nat /\ m - 1 \notin Bad
  BY <1>2, <1>3
<1>5. PICK g : Stretch(f, a, m - 1, g)
  BY <1>4
<1> DEFINE h == [i \in 0 .. m |-> IF i = m THEN ReadOn(f, a, g[m - 1]) ELSE g[i]]
<1>6. ASSUME NEW i \in 0 .. m PROVE h[i] = IF i = 0 THEN FirstReading ELSE ReadOn(f, a, h[i - 1])
  <2>1. CASE i = m
    BY <1>3, <1>4, <2>1
  <2>2. CASE i # m
    <3>1. g[i] = IF i = 0 THEN FirstReading ELSE ReadOn(f, a, g[i - 1])
      BY <1>5, <2>2 DEF Stretch
    <3>2. h[i] = g[i] /\ (i # 0 => h[i - 1] = g[i - 1])
      BY <2>2
    <3>3. QED
      BY <3>1, <3>2
  <2>3. QED
    BY <2>1, <2>2
<1>7. Stretch(f, a, m, h)
  <2>1. h = [i \in 0 .. m |-> h[i]]
    OBVIOUS
  <2> HIDE DEF h
  <2>2. h = [i \in 0 .. m |-> IF i = 0 THEN FirstReading ELSE ReadOn(f, a, h[i - 1])]
    BY <1>6, <2>1
  <2>3. QED
    BY <2>2 DEF Stretch
<1>8. QED
  BY <1>7

(* One more round reads on from where the last one stopped.                *)
LEMMA ReadingIs ==
  ASSUME NEW f, NEW a
  PROVE  /\ Reading(f, a, 0) = FirstReading
         /\ \A m \in Nat : Reading(f, a, m + 1) = ReadOn(f, a, Reading(f, a, m))
<1> DEFINE F == [m \in Nat |-> (CHOOSE g : Stretch(f, a, m, g))[m]]
           round == CHOOSE g : g = [i \in Nat |-> IF i = 0 THEN FirstReading
                                                          ELSE ReadOn(f, a, g[i - 1])]
<1>1. ASSUME NEW m \in Nat PROVE F[m] = IF m = 0 THEN FirstReading ELSE ReadOn(f, a, F[m - 1])
  <2> DEFINE g == CHOOSE h : Stretch(f, a, m, h)
             e == CHOOSE h : Stretch(f, a, m - 1, h)
  <2>1. Stretch(f, a, m, g)
    BY StretchExists
  <2>2. F[m] = g[m]
    OBVIOUS
  <2>3. CASE m = 0
    <3>1. g[m] = FirstReading
      BY <2>1, <2>3 DEF Stretch
    <3>2. QED
      BY <2>2, <2>3, <3>1
  <2>4. CASE m # 0
    <3>1. m - 1 \in Nat
      BY <2>4
    <3>2. Stretch(f, a, m - 1, e)
      BY <3>1, StretchExists
    <3>3. F[m - 1] = e[m - 1]
      BY <3>1
    <3> HIDE DEF e, g, F
    <3>4. e[m - 1] = g[m - 1]
      BY <2>1, <3>1, <3>2, StretchesAgree
    <3>5. g[m] = ReadOn(f, a, g[m - 1])
      BY <2>1, <2>4 DEF Stretch
    <3>6. QED
      BY <2>2, <2>4, <3>3, <3>4, <3>5
  <2>5. QED
    BY <2>3, <2>4
<1>2. F = [m \in Nat |-> F[m]]
  OBVIOUS
<1> HIDE DEF F
<1>3. F = [i \in Nat |-> IF i = 0 THEN FirstReading ELSE ReadOn(f, a, F[i - 1])]
  BY <1>1, <1>2
<1>4. round = [i \in Nat |-> IF i = 0 THEN FirstReading ELSE ReadOn(f, a, round[i - 1])]
  BY <1>3
<1>5. \A m \in Nat : Reading(f, a, m) = round[m]
  BY DEF Reading, FirstReading
<1> HIDE DEF round
<1>6. round[0] = FirstReading /\ \A m \in Nat : round[m + 1] = ReadOn(f, a, round[m])
  <2>1. round[0] = FirstReading
    BY <1>4
  <2>2. ASSUME NEW m \in Nat PROVE round[m + 1] = ReadOn(f, a, round[m])
    <3>1. m + 1 \in Nat /\ m + 1 # 0 /\ (m + 1) - 1 = m
      OBVIOUS
    <3>2. QED
      BY <1>4, <3>1
  <2>3. QED
    BY <2>1, <2>2
<1>7. \A m \in Nat : m + 1 \in Nat
  OBVIOUS
<1>8. QED
  BY <1>5, <1>6, <1>7

(* The text ends in front of the first NUL.                                *)
LEMMA TextEndIs ==
  ASSUME NEW f, IsFormat(f)
  PROVE  /\ TextEnd(f) \in Nat
         /\ TextEnd(f) + 1 < Len(f)
         /\ f[TextEnd(f) + 1] = NUL
         /\ \A i \in 1 .. TextEnd(f) : f[i] # NUL
<1> DEFINE Nuls == {i \in DOMAIN f : f[i] = NUL}
           IsEnd(i) == f[i] = NUL /\ \A j \in 1 .. i - 1 : f[j] # NUL
           e == CHOOSE i \in DOMAIN f : IsEnd(i)
<1>1. DOMAIN f = 1 .. Len(f) /\ Len(f) \in Nat /\ Len(f) > 1
  BY DEF IsFormat, Texts
<1>2. Nuls \in SUBSET Nat /\ Len(f) - 1 \in Nuls
  BY <1>1 DEF IsFormat
<1>3. PICK i \in Nuls : \A j \in Nuls : i <= j
  BY <1>2, LeastNatural
<1>4. i \in DOMAIN f /\ IsEnd(i)
  BY <1>1, <1>3
<1> HIDE DEF IsEnd
<1>5. e \in DOMAIN f /\ IsEnd(e)
  BY <1>4
<1> HIDE DEF e
<1> USE DEF IsEnd
<1>6. e <= Len(f) - 1
  <2>1. SUFFICES ASSUME e > Len(f) - 1 PROVE FALSE
    BY <1>1, <1>5
  <2>2. Len(f) - 1 \in 1 .. e - 1
    BY <1>1, <1>5, <2>1
  <2>3. QED
    BY <1>5, <2>2 DEF IsFormat
<1>7. TextEnd(f) = e - 1
  BY DEF TextEnd, e
<1>8. QED
  BY <1>1, <1>5, <1>6, <1>7

(* What the next conversion, or character, of a reading stands for.        *)
Piece(f, a, r) ==
  IF f[r.at] # "%" THEN <<f[r.at]>>
  ELSE IF f[r.at + 1] \in Conversions /\ r.arg \in DOMAIN a THEN a[r.arg] ELSE <<>>

LEMMA ReadOnIs ==
  ASSUME NEW f, NEW a, NEW r \in Readings, IsFormat(f), IsArguments(a),
         r.at <= TextEnd(f)
  PROVE  /\ Piece(f, a, r) \in Texts
         /\ ReadOn(f, a, r).text = r.text \o Piece(f, a, r)
         /\ ReadOn(f, a, r).arg = IF f[r.at] # "%" THEN r.arg ELSE r.arg + 1
         /\ ReadOn(f, a, r).at = IF f[r.at] # "%" THEN r.at + 1 ELSE r.at + 2
<1>1. TextEnd(f) \in Nat /\ TextEnd(f) + 1 < Len(f)
  BY TextEndIs
<1>2. Len(f) \in Nat /\ r.at \in Nat \ {0} /\ r.arg \in Nat \ {0}
  BY DEF IsFormat, Readings, Texts
<1>3. ~ (r.at > TextEnd(f))
  BY <1>1, <1>2
<1>4. Piece(f, a, r) \in Texts
  <2>1. f[r.at] \in STRING
    BY <1>1, <1>2 DEF IsFormat, Texts
  <2>2. <<f[r.at]>> \in Texts /\ <<>> \in Texts
    BY <2>1 DEF Texts
  <2>3. r.arg \in DOMAIN a => a[r.arg] \in Texts
    BY DEF IsArguments
  <2>4. QED
    BY <2>2, <2>3 DEF Piece
<1>5. CASE f[r.at] # "%"
  BY <1>3, <1>4, <1>5 DEF ReadOn, Piece
<1>6. CASE f[r.at] = "%"
  BY <1>3, <1>4, <1>6 DEF ReadOn, Piece
<1>7. QED
  BY <1>5, <1>6

LEMMA ReadOnType ==
  ASSUME NEW f, NEW a, NEW r \in Readings, IsFormat(f), IsArguments(a)
  PROVE  ReadOn(f, a, r) \in Readings
<1>1. TextEnd(f) \in Nat
  BY TextEndIs
<1>2. r.at \in Nat \ {0} /\ r.arg \in Nat \ {0} /\ r.text \in Texts
  BY DEF Readings
<1>3. CASE r.at > TextEnd(f)
  BY <1>3 DEF ReadOn
<1>4. CASE ~ (r.at > TextEnd(f))
  <2>1. r.at <= TextEnd(f)
    BY <1>1, <1>2, <1>4
  <2>2. /\ Piece(f, a, r) \in Texts
        /\ ReadOn(f, a, r).text = r.text \o Piece(f, a, r)
    BY <2>1, ReadOnIs
  <2>3. r.text \o Piece(f, a, r) \in Texts
    BY <1>2, <2>2 DEF Texts
  <2> DEFINE t == r.text \o Piece(f, a, r)
  <2>4. CASE f[r.at] # "%"
    <3>1. ReadOn(f, a, r) = [at |-> r.at + 1, arg |-> r.arg, text |-> t]
      BY <1>4, <2>4 DEF ReadOn, Piece
    <3> HIDE DEF t
    <3>2. QED
      BY <1>2, <2>3, <3>1 DEF Readings, t
  <2>5. CASE f[r.at] = "%"
    <3>1. ReadOn(f, a, r) = [at |-> r.at + 2, arg |-> r.arg + 1, text |-> t]
      BY <1>4, <2>5 DEF ReadOn, Piece
    <3> HIDE DEF t
    <3>2. QED
      BY <1>2, <2>3, <3>1 DEF Readings, t
  <2>6. QED
    BY <2>4, <2>5
<1>5. QED
  BY <1>3, <1>4

LEMMA ReadingType ==
  ASSUME NEW f, NEW a, IsFormat(f), IsArguments(a)
  PROVE  \A m \in Nat : Reading(f, a, m) \in Readings
<1> DEFINE Bad == {m \in Nat : Reading(f, a, m) \notin Readings}
<1>1. SUFFICES ASSUME Bad # {} PROVE FALSE
  OBVIOUS
<1>2. PICK m \in Bad : \A j \in Bad : m <= j
  BY <1>1, LeastNatural
<1>3. m # 0
  <2>1. <<>> \in Texts
    BY DEF Texts
  <2>2. FirstReading \in Readings
    BY <2>1 DEF FirstReading, Readings
  <2>3. QED
    BY <2>2, ReadingIs
<1>4. m - 1 \in Nat /\ m - 1 \notin Bad /\ (m - 1) + 1 = m
  BY <1>2, <1>3
<1>5. Reading(f, a, m - 1) \in Readings
  BY <1>4
<1>6. Reading(f, a, m) = ReadOn(f, a, Reading(f, a, m - 1))
  BY <1>4, ReadingIs
<1>7. QED
  BY <1>5, <1>6, ReadOnType

(* Each round reads at least one character, or has come to the end.        *)
LEMMA ReadingAdvances ==
  ASSUME NEW f, NEW a, IsFormat(f), IsArguments(a)
  PROVE  \A m \in Nat : Reading(f, a, m).at > TextEnd(f) \/ Reading(f, a, m).at > m
<1> DEFINE Ahead(m) == Reading(f, a, m).at > TextEnd(f) \/ Reading(f, a, m).at > m
           Bad == {m \in Nat : ~ Ahead(m)}
<1>1. SUFFICES ASSUME Bad # {} PROVE FALSE
  OBVIOUS
<1>2. PICK m \in Bad : \A j \in Bad : m <= j
  BY <1>1, LeastNatural
<1>3. m # 0
  <2>1. Reading(f, a, 0).at = 1
    BY ReadingIs DEF FirstReading
  <2>2. QED
    BY <2>1
<1>4. m - 1 \in Nat /\ m - 1 \notin Bad /\ (m - 1) + 1 = m
  BY <1>2, <1>3
<1>5. Ahead(m - 1) /\ ~ Ahead(m)
  BY <1>4
<1> DEFINE r == Reading(f, a, m - 1)
<1>6. r \in Readings /\ Reading(f, a, m) = ReadOn(f, a, r)
  BY <1>4, ReadingIs, ReadingType
<1>7. r.at \in Nat /\ TextEnd(f) \in Nat
  BY <1>6, TextEndIs DEF Readings
<1>8. ~ (r.at > TextEnd(f))
  BY <1>5, <1>6 DEF ReadOn
<1>9. r.at <= TextEnd(f) /\ r.at > m - 1
  BY <1>5, <1>7, <1>8
<1>10. ReadOn(f, a, r).at \in {r.at + 1, r.at + 2}
  BY <1>6, <1>9, ReadOnIs
<1> HIDE DEF r
<1>11. ReadOn(f, a, r).at > m
  BY <1>4, <1>7, <1>9, <1>10
<1>12. QED
  BY <1>5, <1>6, <1>11

(* A reading that has come to the end stays there.                         *)
LEMMA ReadingSettles ==
  ASSUME NEW f, NEW a, NEW m \in Nat, IsFormat(f), IsArguments(a),
         Reading(f, a, m).at > TextEnd(f)
  PROVE  \A k \in Nat : k >= m => Reading(f, a, k) = Reading(f, a, m)
<1> DEFINE Bad == {k \in Nat : k >= m /\ Reading(f, a, k) # Reading(f, a, m)}
<1>1. SUFFICES ASSUME Bad # {} PROVE FALSE
  OBVIOUS
<1>2. PICK k \in Bad : \A j \in Bad : k <= j
  BY <1>1, LeastNatural
<1>3. k # m /\ k >= m
  BY <1>2
<1>4. k - 1 \in Nat /\ k - 1 >= m /\ (k - 1) + 1 = k /\ k - 1 \notin Bad
  BY <1>2, <1>3
<1>5. Reading(f, a, k - 1) = Reading(f, a, m)
  BY <1>4
<1>6. Reading(f, a, k) = ReadOn(f, a, Reading(f, a, m))
  BY <1>4, <1>5, ReadingIs
<1>7. ReadOn(f, a, Reading(f, a, m)) = Reading(f, a, m)
  BY DEF ReadOn
<1>8. QED
  BY <1>2, <1>6, <1>7

(* What has been read is the beginning of what will have been.             *)
LEMMA ReadingGrows ==
  ASSUME NEW f, NEW a, NEW m \in Nat, IsFormat(f), IsArguments(a)
  PROVE  \A k \in Nat : k >= m => IsPrefix(Reading(f, a, m).text, Reading(f, a, k).text)
<1> DEFINE Grown(k) == IsPrefix(Reading(f, a, m).text, Reading(f, a, k).text)
           Bad == {k \in Nat : k >= m /\ ~ Grown(k)}
<1>1. SUFFICES ASSUME Bad # {} PROVE FALSE
  OBVIOUS
<1>2. PICK k \in Bad : \A j \in Bad : k <= j
  BY <1>1, LeastNatural
<1>3. \A j \in Nat : Reading(f, a, j).text \in Texts /\ Reading(f, a, j).at \in Nat
  BY ReadingType DEF Readings
<1>4. k # m /\ k >= m
  BY <1>2, <1>3, PrefixOfItself
<1>5. k - 1 \in Nat /\ k - 1 >= m /\ (k - 1) + 1 = k /\ k - 1 \notin Bad
  BY <1>2, <1>4
<1>6. Grown(k - 1)
  BY <1>5
<1> DEFINE r == Reading(f, a, k - 1)
<1>7. r \in Readings /\ Reading(f, a, k) = ReadOn(f, a, r)
  BY <1>5, ReadingIs, ReadingType
<1>8. IsPrefix(r.text, ReadOn(f, a, r).text)
  <2>1. r.at \in Nat /\ TextEnd(f) \in Nat /\ r.text \in Texts
    BY <1>3, <1>5, TextEndIs
  <2>2. CASE r.at <= TextEnd(f)
    <3>1. Piece(f, a, r) \in Texts /\ ReadOn(f, a, r).text = r.text \o Piece(f, a, r)
      BY <1>7, <2>2, ReadOnIs
    <3> HIDE DEF r
    <3>2. QED
      BY <2>1, <3>1, PrefixOfLonger
  <2>3. CASE r.at > TextEnd(f)
    <3>1. ReadOn(f, a, r) = r
      BY <2>3 DEF ReadOn
    <3> HIDE DEF r
    <3>2. QED
      BY <2>1, <3>1, PrefixOfItself
  <2>4. QED
    BY <2>1, <2>2, <2>3
<1>9. Grown(k)
  <2>1. /\ Reading(f, a, m).text \in Texts
        /\ r.text \in Texts
        /\ Reading(f, a, k).text \in Texts
    BY <1>2, <1>3, <1>5
  <2>2. IsPrefix(r.text, Reading(f, a, k).text)
    BY <1>7, <1>8
  <2>3. QED
    BY <1>6, <2>1, <2>2, PrefixTransitive
<1>10. QED
  BY <1>2, <1>9

(* TextEnd rounds read the whole text.                                     *)
LEMMA MeaningIs ==
  ASSUME NEW f, NEW a, NEW m \in Nat, IsFormat(f), IsArguments(a)
  PROVE  /\ Meaning(f, a) \in Texts
         /\ IsPrefix(Reading(f, a, m).text, Meaning(f, a))
         /\ Reading(f, a, m).at > TextEnd(f) =>
              Reading(f, a, m) = Reading(f, a, TextEnd(f))
<1> DEFINE e == TextEnd(f)
<1>1. e \in Nat /\ \A j \in Nat : Reading(f, a, j) \in Readings
  BY ReadingType, TextEndIs
<1>2. Meaning(f, a) = Reading(f, a, e).text
  BY DEF Meaning
<1>3. Reading(f, a, e).at > e
  BY <1>1, ReadingAdvances
<1>4. Meaning(f, a) \in Texts
  BY <1>1, <1>2 DEF Readings
<1>5. CASE m <= e
  <2>1. IsPrefix(Reading(f, a, m).text, Reading(f, a, e).text)
    BY <1>1, <1>5, ReadingGrows
  <2>2. Reading(f, a, m).at > e => Reading(f, a, e) = Reading(f, a, m)
    BY <1>1, <1>5, ReadingSettles
  <2>3. QED
    BY <1>2, <1>4, <2>1, <2>2
<1>6. CASE m >= e
  <2>1. Reading(f, a, m) = Reading(f, a, e)
    BY <1>1, <1>3, <1>6, ReadingSettles
  <2>2. QED
    BY <1>2, <1>4, <2>1, PrefixOfItself
<1>7. QED
  BY <1>1, <1>5, <1>6

-----------------------------------------------------------------------------
(* The loop of cpu0_printf.                                                *)

LEMMA FormatsAre ==
  ASSUME NEW f \in Formats
  PROVE  IsFormat(f)
<1> DEFINE r == Reverse(f)
           e == Reverse(<<NUL, NUL>>)
<1>1. f \in Texts /\ IsPrefix(e, r)
  BY FormatAssumption DEF IsSuffix, Texts
<1>2. Len(f) \in Nat
  BY <1>1 DEF Texts
<1>3. /\ r = [i \in 1 .. Len(f) |-> f[(Len(f) - i) + 1]]
      /\ e = [i \in 1 .. 2 |-> NUL]
  BY DEF Reverse
<1>4. r \in Texts /\ Len(r) = Len(f)
  <2>1. \A i \in 1 .. Len(f) : f[(Len(f) - i) + 1] \in STRING
    BY <1>1, <1>2 DEF Texts
  <2> HIDE DEF r, e
  <2>2. QED
    BY <1>2, <1>3, <2>1 DEF Texts
<1> HIDE DEF r, e
<1>5. e \in Seq({NUL}) /\ Len(e) = 2 /\ e[1] = NUL /\ e[2] = NUL
  BY <1>3
<1>6. 2 <= Len(r) /\ SubSeq(e, 1, 2) = SubSeq(r, 1, 2)
  BY <1>1, <1>5 DEF IsPrefix
<1>7. r[1] = NUL /\ r[2] = NUL
  <2>1. SubSeq(e, 1, 2)[1] = NUL /\ SubSeq(e, 1, 2)[2] = NUL
    BY <1>5
  <2>2. SubSeq(r, 1, 2)[1] = r[1] /\ SubSeq(r, 1, 2)[2] = r[2]
    BY <1>4, <1>6 DEF Texts
  <2>3. QED
    BY <1>6, <2>1, <2>2
<1>8. r[1] = f[Len(f)] /\ r[2] = f[Len(f) - 1]
  BY <1>2, <1>3, <1>4, <1>6
<1>9. QED
  BY <1>1, <1>2, <1>4, <1>6, <1>7, <1>8 DEF IsFormat

LEMMA ArgumentsAre ==
  ASSUME NEW a \in Arguments
  PROVE  IsArguments(a)
BY FormatAssumption DEF IsArguments, Texts

(* Where the loop stands, as a reading that has found nothing to print.    *)
Here == [at |-> p, arg |-> param_idx, text |-> <<>>]

ReadsAlong == \E m \in Nat : Reading(fmt, args, m) = Here

(* It reads behind a text that means nothing.                              *)
PastNul == Unfinished(fmt, args) /\ Meaning(fmt, args) = <<>>

Empty == n = 0 => buf = <<>> /\ (ReadsAlong \/ PastNul)

OnePiece == n > 1 => \E i \in DOMAIN args : Len(args[i]) = n

Begins == n > 0 /\ ~ Unfinished(fmt, args) => IsPrefix(buf, Meaning(fmt, args))

Filled ==
  /\ buf \in Texts
  /\ n <= SIZE => n <= Len(buf) + 1
  /\ param_idx <= p

(* The inductive invariant.                                                *)
IInv ==
  /\ fmt \in Formats /\ args \in Arguments
  /\ TypeOK /\ Filled /\ Empty /\ OnePiece /\ Begins
  /\ TerminatorInside /\ PrintsAPrefix

(* What snprintf leaves of s in the empty buffer.                          *)
Leaves(s) ==
  /\ n' = Len(s) /\ buf' \in Texts /\ IsPrefix(buf', s)
  /\ Len(buf') < SIZE + 1
  /\ n' < SIZE => Len(buf') = n'
  /\ n' <= SIZE => n' <= Len(buf') + 1
  /\ n' = 0 => buf' = <<>>

LEMMA FormattedLeaves ==
  ASSUME NEW s \in Texts, n = 0, buf = <<>>, Formatted(s)
  PROVE  Leaves(s)
<1>1. Len(s) \in Nat /\ SIZE \in Nat \ {0}
  BY FormatAssumption DEF Texts
<1>2. n' = Len(s)
  BY <1>1 DEF Formatted
<1>3. <<>> \o s = s
  BY DEF Texts
<1>4. CASE n' < SIZE
  <2>1. buf' = s
    BY <1>3, <1>4 DEF Formatted
  <2>2. Len(s) = 0 => s = <<>>
    BY DEF Texts
  <2>3. QED
    BY <1>1, <1>2, <1>4, <2>1, <2>2, PrefixOfItself DEF Leaves
<1>5. CASE ~ (n' < SIZE)
  <2>1. buf' = SubSeq(s, 1, SIZE - 1)
    BY <1>3, <1>5 DEF Formatted
  <2>2. SIZE - 1 \in 0 .. Len(s)
    BY <1>1, <1>2, <1>5
  <2>3. buf' \in Texts /\ Len(buf') = SIZE - 1 /\ IsPrefix(buf', s)
    BY <2>1, <2>2, CutIsPrefix
  <2>4. QED
    BY <1>1, <1>2, <1>5, <2>3 DEF Leaves
<1>6. QED
  BY <1>4, <1>5

LEMMA NothingLeaves ==
  ASSUME n = 0, buf = <<>>, UNCHANGED <<n, buf>>
  PROVE  Leaves(<<>>)
<1>1. <<>> \in Texts /\ Len(<<>>) = 0 /\ SIZE \in Nat \ {0}
  BY FormatAssumption DEF Texts
<1>2. IsPrefix(<<>>, <<>>)
  BY <1>1, PrefixOfItself
<1>3. QED
  BY <1>1, <1>2 DEF Leaves

LEMMA CharacterLeaves ==
  ASSUME NEW c, <<c>> \in Texts, n = 0, buf = <<>>, buf' = Append(buf, c), n' = n + 1
  PROVE  Leaves(<<c>>)
<1>1. Len(<<c>>) = 1
  OBVIOUS
<1>2. buf' = <<c>> /\ n' = 1
  OBVIOUS
<1>3. IsPrefix(<<c>>, <<c>>)
  BY <1>1, PrefixOfItself
<1>4. SIZE \in Nat \ {0}
  BY FormatAssumption
<1>5. QED
  BY <1>1, <1>2, <1>3, <1>4 DEF Leaves

(* Where a round may begin.                                                *)
LEMMA RoundBegins ==
  ASSUME IInv, Goes
  PROVE  /\ n = 0 /\ buf = <<>>
         /\ IsFormat(fmt) /\ IsArguments(args)
         /\ fmt[p] # NUL /\ fmt[p] \in STRING
         /\ p \in 1 .. Len(fmt) - 2 /\ Len(fmt) \in Nat
         /\ Here \in Readings
         /\ param_idx \in Nat \ {0} /\ param_idx <= p
<1>1. IsFormat(fmt) /\ IsArguments(args)
  BY FormatsAre, ArgumentsAre DEF IInv
<1>2. n = 0 /\ fmt[p] # NUL
  BY DEF Goes, IInv, TypeOK
<1>3. buf = <<>>
  BY <1>2 DEF IInv, Empty
<1>4. Len(fmt) \in Nat /\ p \in 1 .. Len(fmt)
  BY <1>1 DEF IInv, TypeOK, IsFormat, Texts
<1>5. p # Len(fmt) /\ p # Len(fmt) - 1
  BY <1>1, <1>2 DEF IsFormat
<1>6. fmt[p] \in STRING
  BY <1>1, <1>4 DEF IsFormat, Texts
<1>7. param_idx \in Nat \ {0} /\ param_idx <= p
  BY <1>4 DEF IInv, TypeOK, Filled
<1>8. Here \in Readings
  BY <1>4, <1>7 DEF Here, Readings, Texts
<1>9. QED
  BY <1>1, <1>2, <1>3, <1>4, <1>5, <1>6, <1>7, <1>8

(* Both kinds of round, by what they leave and where they stop.            *)
Round ==
  /\ pc = "loop" /\ Goes
  /\ Leaves(Piece(fmt, args, Here))
  /\ p' = IF fmt[p] # "%" THEN p + 1 ELSE p + 2
  /\ param_idx' = IF fmt[p] # "%" THEN param_idx ELSE param_idx + 1
  /\ UNCHANGED <<fmt, args, pc, printed>>

LEMMA ConvertsIsRound ==
  ASSUME IInv, Converts
  PROVE  Round
<1>1. Goes /\ pc = "loop" /\ fmt[p] = "%"
  BY DEF Converts
<1>2. n = 0 /\ buf = <<>> /\ IsArguments(args) /\ param_idx \in Nat \ {0}
  BY <1>1, RoundBegins
<1>3. /\ param_idx' = param_idx + 1 /\ p' = p + 2
      /\ UNCHANGED <<fmt, args, pc, printed>>
  BY DEF Converts
<1>4. Here.at = p /\ Here.arg = param_idx
  BY DEF Here
<1>5. Leaves(Piece(fmt, args, Here))
  <2>1. CASE fmt[p + 1] \in Conversions
    <3>1. Formatted(Param(param_idx + 1))
      BY <1>3, <2>1 DEF Converts
    <3>2. (param_idx + 1) - 1 = param_idx
      BY <1>2
    <3>3. Param(param_idx + 1) = Piece(fmt, args, Here)
      BY <1>1, <1>4, <2>1, <3>2 DEF Param, Piece
    <3>4. Piece(fmt, args, Here) \in Texts
      <4>1. <<>> \in Texts
        BY DEF Texts
      <4>2. param_idx \in DOMAIN args => args[param_idx] \in Texts
        BY <1>2 DEF IsArguments
      <4>3. QED
        BY <1>1, <1>4, <4>1, <4>2 DEF Piece
    <3>5. QED
      BY <1>2, <3>1, <3>3, <3>4, FormattedLeaves
  <2>2. CASE fmt[p + 1] \notin Conversions
    <3>1. UNCHANGED <<n, buf>>
      BY <2>2 DEF Converts
    <3>2. Piece(fmt, args, Here) = <<>>
      BY <1>1, <1>4, <2>2 DEF Piece
    <3>3. QED
      BY <1>2, <3>1, <3>2, NothingLeaves
  <2>3. QED
    BY <2>1, <2>2
<1>6. QED
  BY <1>1, <1>3, <1>5 DEF Round

LEMMA CopiesIsRound ==
  ASSUME IInv, Copies
  PROVE  Round
<1>1. Goes /\ pc = "loop" /\ fmt[p] # "%"
  BY DEF Copies
<1>2. n = 0 /\ buf = <<>> /\ fmt[p] \in STRING
  BY <1>1, RoundBegins
<1>3. /\ buf' = Append(buf, fmt[p]) /\ n' = n + 1
      /\ p' = p + 1 /\ param_idx' = param_idx
      /\ UNCHANGED <<fmt, args, pc, printed>>
  BY DEF Copies
<1>4. Piece(fmt, args, Here) = <<fmt[p]>>
  BY <1>1 DEF Piece, Here
<1>5. Leaves(<<fmt[p]>>)
  <2>1. <<fmt[p]>> \in Texts
    BY <1>2 DEF Texts
  <2>2. QED
    BY <1>2, <1>3, <2>1, CharacterLeaves
<1>6. QED
  BY <1>1, <1>3, <1>4, <1>5 DEF Round

(* A round either goes on reading what has meant nothing so far, or reads  *)
(* behind the NUL of a text that means nothing at all.                     *)
LEMMA RoundReads ==
  ASSUME IInv, Round
  PROVE  \/ PastNul
         \/ \E m \in Nat :
              Reading(fmt, args, m) = [at |-> p', arg |-> param_idx',
                                       text |-> Piece(fmt, args, Here)]
<1>1. Goes
  BY DEF Round
<1>2. /\ n = 0 /\ IsFormat(fmt) /\ IsArguments(args)
      /\ fmt[p] # NUL /\ Len(fmt) \in Nat /\ p \in 1 .. Len(fmt) - 2
      /\ Here \in Readings
  BY <1>1, RoundBegins
<1>3. ReadsAlong \/ PastNul
  BY <1>2 DEF IInv, Empty
<1>4. SUFFICES ASSUME ReadsAlong
               PROVE  \/ PastNul
                      \/ \E m \in Nat :
                           Reading(fmt, args, m) = [at |-> p', arg |-> param_idx',
                                                    text |-> Piece(fmt, args, Here)]
  BY <1>3
<1>5. PICK m \in Nat : Reading(fmt, args, m) = Here
  BY <1>4 DEF ReadsAlong
<1>6. TextEnd(fmt) \in Nat /\ fmt[TextEnd(fmt) + 1] = NUL
  BY <1>2, TextEndIs
<1>7. Here.at = p /\ Here.arg = param_idx /\ Here.text = <<>>
  BY DEF Here
<1>8. CASE p <= TextEnd(fmt)
  <2> DEFINE r == ReadOn(fmt, args, Here)
             s == Piece(fmt, args, Here)
  <2>1. /\ s \in Texts /\ r.text = <<>> \o s
        /\ r.arg = IF fmt[p] # "%" THEN param_idx ELSE param_idx + 1
        /\ r.at = IF fmt[p] # "%" THEN p + 1 ELSE p + 2
    BY <1>2, <1>7, <1>8, ReadOnIs
  <2>2. r \in Readings
    BY <1>2, ReadOnType
  <2>3. m + 1 \in Nat /\ Reading(fmt, args, m + 1) = r
    <3>1. Reading(fmt, args, m + 1) = ReadOn(fmt, args, Reading(fmt, args, m))
      BY ReadingIs
    <3>2. m + 1 \in Nat
      OBVIOUS
    <3>3. QED
      BY <1>5, <3>1, <3>2
  <2> HIDE DEF r, s
  <2>4. <<>> \o s = s
    BY <2>1 DEF Texts
  <2>5. r.at = p' /\ r.arg = param_idx' /\ r.text = s
    BY <2>1, <2>4 DEF Round
  <2>6. r = [at |-> p', arg |-> param_idx', text |-> s]
    BY <2>2, <2>5 DEF Readings
  <2>7. QED
    BY <2>3, <2>6 DEF s
<1>9. CASE p > TextEnd(fmt)
  <2>1. p > TextEnd(fmt) + 1
    BY <1>2, <1>6, <1>9
  <2>2. Reading(fmt, args, TextEnd(fmt)) = Here
    BY <1>2, <1>5, <1>7, <1>9, MeaningIs
  <2>3. PastNul
    BY <1>7, <2>1, <2>2 DEF PastNul, Unfinished, Meaning
  <2>4. QED
    BY <2>3
<1>10. QED
  BY <1>2, <1>6, <1>8, <1>9

LEMMA PieceIs ==
  ASSUME NEW f, NEW a, NEW r \in Readings, IsArguments(a),
         Len(Piece(f, a, r)) > 1
  PROVE  \E i \in DOMAIN a : Piece(f, a, r) = a[i]
<1>1. Len(<<f[r.at]>>) = 1 /\ Len(<<>>) = 0
  OBVIOUS
<1>2. Piece(f, a, r) # <<f[r.at]>> /\ Piece(f, a, r) # <<>>
  <2>1. ~ (1 > 1) /\ ~ (0 > 1)
    OBVIOUS
  <2>2. QED
    BY <1>1, <2>1, Zenon
<1>3. CASE r.arg \in DOMAIN a /\ Piece(f, a, r) = a[r.arg]
  BY <1>3
<1>4. QED
  BY <1>2, <1>3 DEF Piece

LEMMA RoundKeeps ==
  ASSUME IInv, Round
  PROVE  IInv'
<1> DEFINE s == Piece(fmt, args, Here)
<1>1. Goes /\ pc = "loop" /\ UNCHANGED <<fmt, args, pc, printed>>
  BY DEF Round
<1>2. /\ n = 0 /\ IsFormat(fmt) /\ IsArguments(args)
      /\ Len(fmt) \in Nat /\ p \in 1 .. Len(fmt) - 2
      /\ Here \in Readings
      /\ param_idx \in Nat \ {0} /\ param_idx <= p
  BY <1>1, RoundBegins
<1>3. /\ n' = Len(s) /\ buf' \in Texts /\ IsPrefix(buf', s)
      /\ Len(buf') < SIZE + 1
      /\ n' < SIZE => Len(buf') = n'
      /\ n' <= SIZE => n' <= Len(buf') + 1
      /\ n' = 0 => buf' = <<>>
  BY DEF Round, Leaves
<1>4. s \in Texts
  <2>1. Len(fmt) \in Nat /\ fmt[p] \in STRING
    BY <1>1, RoundBegins
  <2>2. <<fmt[p]>> \in Texts /\ <<>> \in Texts
    BY <2>1 DEF Texts
  <2>3. param_idx \in DOMAIN args => args[param_idx] \in Texts
    BY <1>2 DEF IsArguments
  <2>4. QED
    BY <2>2, <2>3 DEF Piece, Here
<1>5. /\ Meaning(fmt, args)' = Meaning(fmt, args)
      /\ Unfinished(fmt, args)' = Unfinished(fmt, args)
      /\ PastNul' = PastNul
  BY <1>1 DEF PastNul
<1>6. fmt' \in Formats /\ args' \in Arguments
  BY <1>1 DEF IInv
<1>7. p' \in 1 .. Len(fmt) /\ param_idx' \in 1 .. Len(fmt) /\ param_idx' <= p'
  BY <1>2 DEF Round
<1>8. TypeOK'
  <2>1. n' \in Nat
    BY <1>3, <1>4 DEF Texts
  <2>2. DOMAIN fmt = 1 .. Len(fmt)
    BY <1>2 DEF IsFormat, Texts
  <2>3. QED
    BY <1>1, <1>3, <1>7, <2>1, <2>2 DEF TypeOK
<1>9. Filled'
  BY <1>3, <1>7 DEF Filled
<1> HIDE DEF s
<1>10. PastNul \/ \E m \in Nat :
         Reading(fmt, args, m) = [at |-> p', arg |-> param_idx', text |-> s]
  BY RoundReads DEF s
<1>11. Empty'
  <2>1. SUFFICES ASSUME n' = 0 PROVE buf' = <<>> /\ (ReadsAlong' \/ PastNul')
    BY DEF Empty
  <2>2. s = <<>>
    <3>1. Len(s) = 0
      BY <1>3, <2>1
    <3>2. \A t \in Texts : Len(t) = 0 => t = <<>>
      BY DEF Texts
    <3>3. QED
      BY <1>4, <3>1, <3>2
  <2>3. Here' = [at |-> p', arg |-> param_idx', text |-> <<>>]
    BY DEF Here
  <2>4. PastNul \/ \E m \in Nat : Reading(fmt', args', m) = Here'
    BY <1>1, <1>10, <2>2, <2>3
  <2>5. QED
    BY <1>3, <1>5, <2>1, <2>4 DEF ReadsAlong
<1>12. OnePiece'
  <2>1. SUFFICES ASSUME n' > 1 PROVE \E i \in DOMAIN args : Len(args[i]) = n'
    BY <1>1 DEF OnePiece
  <2>2. \E i \in DOMAIN args : s = args[i]
    BY <1>2, <1>3, <2>1, PieceIs DEF s
  <2>3. QED
    BY <1>3, <2>2
<1>13. Begins'
  <2>1. SUFFICES ASSUME ~ Unfinished(fmt, args) PROVE IsPrefix(buf', Meaning(fmt, args))
    BY <1>5 DEF Begins
  <2>2. PICK m \in Nat :
          Reading(fmt, args, m) = [at |-> p', arg |-> param_idx', text |-> s]
    BY <1>10, <2>1 DEF PastNul
  <2>3. Reading(fmt, args, m).text = s
    BY <2>2
  <2>4. Meaning(fmt, args) \in Texts /\ IsPrefix(s, Meaning(fmt, args))
    BY <1>2, <2>3, MeaningIs
  <2>5. QED
    BY <1>3, <1>4, <2>4, PrefixTransitive
<1>14. TerminatorInside' /\ PrintsAPrefix'
  <2>1. pc' # "done"
    BY <1>1
  <2>2. QED
    BY <2>1 DEF TerminatorInside, PrintsAPrefix
<1>15. QED
  BY <1>6, <1>8, <1>9, <1>11, <1>12, <1>13, <1>14 DEF IInv

(* What the loop has left is printed without its last character, or as it  *)
(* is if it did not fit.                                                   *)
LEMMA PutsKeeps ==
  ASSUME IInv, Puts
  PROVE  IInv'
<1>1. /\ ~ Goes /\ pc' = "done"
      /\ UNCHANGED <<fmt, args, p, n, param_idx, buf>>
  BY DEF Puts
<1>2. IsFormat(fmt) /\ IsArguments(args)
  BY FormatsAre, ArgumentsAre DEF IInv
<1>3. n \in Nat /\ SIZE \in Nat \ {0} /\ buf \in Texts /\ Len(buf) \in Nat
  BY FormatAssumption DEF IInv, TypeOK, Filled, Texts
<1>4. fmt' \in Formats /\ args' \in Arguments
  BY <1>1 DEF IInv
<1>5. TypeOK' /\ Filled'
  BY <1>1 DEF IInv, TypeOK, Filled
<1>6. /\ Meaning(fmt, args)' = Meaning(fmt, args)
      /\ Unfinished(fmt, args)' = Unfinished(fmt, args)
  BY <1>1
<1>7. Empty' /\ OnePiece' /\ Begins'
  <2>1. Here' = Here /\ (PastNul' <=> PastNul)
    BY <1>1 DEF Here, PastNul
  <2>2. ReadsAlong' <=> ReadsAlong
    BY <1>1, <2>1 DEF ReadsAlong
  <2>3. Empty'
    BY <1>1, <2>1, <2>2 DEF IInv, Empty
  <2>4. OnePiece'
    BY <1>1 DEF IInv, OnePiece
  <2>5. Begins'
    BY <1>1, <1>6 DEF IInv, Begins
  <2>6. QED
    BY <2>3, <2>4, <2>5
<1>8. n = 0 => Meaning(fmt, args) = <<>>
  <2>1. SUFFICES ASSUME n = 0, ReadsAlong PROVE Meaning(fmt, args) = <<>>
    BY DEF IInv, Empty, PastNul
  <2>2. fmt[p] = NUL
    BY <1>1, <2>1 DEF Goes
  <2>3. PICK m \in Nat : Reading(fmt, args, m) = Here
    BY <2>1 DEF ReadsAlong
  <2>4. Here.at = p /\ Here.text = <<>>
    BY DEF Here
  <2>5. TextEnd(fmt) \in Nat /\ \A i \in 1 .. TextEnd(fmt) : fmt[i] # NUL
    BY <1>2, TextEndIs
  <2>6. p \in Nat \ {0}
    BY <1>2 DEF IInv, TypeOK, IsFormat, Texts
  <2>7. p > TextEnd(fmt)
    BY <2>2, <2>5, <2>6
  <2>8. Reading(fmt, args, TextEnd(fmt)) = Here
    BY <1>2, <2>3, <2>4, <2>7, MeaningIs
  <2>9. QED
    BY <2>4, <2>8 DEF Meaning
<1>9. n > SIZE => \E i \in DOMAIN args : Len(args[i]) > SIZE
  <2>1. SUFFICES ASSUME n > SIZE PROVE \E i \in DOMAIN args : Len(args[i]) > SIZE
    OBVIOUS
  <2>2. n > 1
    BY <1>3, <2>1
  <2>3. QED
    BY <2>1, <2>2 DEF IInv, OnePiece
<1>10. TerminatorInside'
  BY <1>1, <1>6, <1>8, <1>9 DEF TerminatorInside
<1>11. ASSUME n > 0, ~ Unfinished(fmt, args)
       PROVE  IsPrefix(printed', Meaning(fmt, args))
  <2>1. IsPrefix(buf, Meaning(fmt, args)) /\ Meaning(fmt, args) \in Texts
    BY <1>2, <1>11, MeaningIs DEF IInv, Begins
  <2>2. CASE n <= SIZE
    <3>1. printed' = SubSeq(buf, 1, n - 1)
      <4>1. n # 0
        BY <1>3, <1>11
      <4>2. QED
        BY <2>2, <4>1 DEF Puts
    <3>2. n - 1 \in 0 .. Len(buf)
      BY <1>3, <1>11, <2>2 DEF IInv, Filled
    <3>3. printed' \in Texts /\ IsPrefix(printed', buf)
      BY <1>3, <3>1, <3>2, CutIsPrefix
    <3>4. QED
      BY <1>3, <2>1, <3>3, PrefixTransitive
  <2>3. CASE n > SIZE
    <3>1. printed' = buf
      BY <1>3, <1>11, <2>3 DEF Puts
    <3>2. QED
      BY <2>1, <3>1
  <2>4. QED
    BY <1>3, <2>2, <2>3
<1>12. PrintsAPrefix'
  BY <1>1, <1>6, <1>11 DEF PrintsAPrefix
<1>13. QED
  BY <1>4, <1>5, <1>7, <1>10, <1>12 DEF IInv

-----------------------------------------------------------------------------
(* The theorems.                                                           *)

LEMMA InitHolds ==
  ASSUME Init
  PROVE  IInv
<1>1. IsFormat(fmt) /\ SIZE \in Nat \ {0}
  BY FormatsAre, FormatAssumption DEF Init
<1>2. Len(fmt) \in Nat /\ Len(fmt) > 1 /\ DOMAIN fmt = 1 .. Len(fmt)
  BY <1>1 DEF IsFormat, Texts
<1>3. pc = "loop" /\ p = 1 /\ n = 0 /\ param_idx = 1 /\ buf = <<>>
  BY DEF Init
<1>4. <<>> \in Texts /\ Len(<<>>) = 0
  BY DEF Texts
<1>5. TypeOK /\ Filled
  BY <1>1, <1>2, <1>3, <1>4 DEF TypeOK, Filled
<1>6. ReadsAlong
  <2>1. Here = FirstReading
    BY <1>3 DEF Here, FirstReading
  <2>2. QED
    BY <2>1, ReadingIs DEF ReadsAlong
<1>7. Empty /\ OnePiece /\ Begins /\ TerminatorInside /\ PrintsAPrefix
  BY <1>3, <1>6 DEF Empty, OnePiece, Begins, TerminatorInside, PrintsAPrefix
<1>8. QED
  BY <1>5, <1>7 DEF IInv, Init

LEMMA StepKeeps ==
  ASSUME IInv, [Next]_vars
  PROVE  IInv'
<1>1. CASE Converts
  BY <1>1, ConvertsIsRound, RoundKeeps
<1>2. CASE Copies
  BY <1>2, CopiesIsRound, RoundKeeps
<1>3. CASE Puts
  BY <1>3, PutsKeeps
<1>4. CASE UNCHANGED vars
  <2>1. Here' = Here
    BY <1>4 DEF vars, Here
  <2>2. /\ UNCHANGED <<fmt, args, pc, p, n, param_idx, buf, printed>>
        /\ Meaning(fmt, args)' = Meaning(fmt, args)
        /\ Unfinished(fmt, args)' = Unfinished(fmt, args)
    BY <1>4 DEF vars
  <2>3. ReadsAlong' = ReadsAlong /\ PastNul' = PastNul
    BY <2>1, <2>2 DEF ReadsAlong, PastNul
  <2>4. TypeOK' /\ Filled' /\ Empty' /\ OnePiece'
    BY <2>2, <2>3 DEF IInv, TypeOK, Filled, Empty, OnePiece
  <2>5. Begins' /\ TerminatorInside' /\ PrintsAPrefix'
    BY <2>2 DEF IInv, Begins, TerminatorInside, PrintsAPrefix
  <2>6. QED
    BY <2>2, <2>4, <2>5 DEF IInv
<1>5. QED
  BY <1>1, <1>2, <1>3, <1>4 DEF Next

LEMMA AlwaysIInv == Spec => []IInv
<1>1. Init => IInv
  BY InitHolds
<1>2. IInv /\ [Next]_vars => IInv'
  BY StepKeeps
<1>3. QED
  BY <1>1, <1>2, PTL DEF Spec

(* The loop never fills the buffer beyond its size, whatever the format    *)
(* and the arguments are, and the NUL behind the text falls outside it     *)
(* only when the text means nothing or an argument alone is too long.      *)
THEOREM BufferHolds == Spec => []BufferInv
<1>1. IInv => BufferInv
  BY DEF IInv, BufferInv
<1>2. QED
  BY <1>1, AlwaysIInv, PTL

(* Of a format that ends in no % what is printed is the beginning of what  *)
(* the format means: every conversion before it has met its own argument.  *)
THEOREM PrintsTheBeginning == Spec => []PrintsAPrefix
<1>1. IInv => PrintsAPrefix
  BY DEF IInv
<1>2. QED
  BY <1>1, AlwaysIInv, PTL
==============================================================================
