----------------------------- MODULE AluProofs ------------------------------
(***************************************************************************)
(* Proofs about the data instructions, for every width of a word, whatever *)
(* instructions run in whatever order.                                     *)
(*                                                                         *)
(* A word is the number it is or that number less WORD; what a comparison, *)
(* a product or a quotient leaves in the registers has the value it should *)
(* because that value is in the range of an int and congruent to what was  *)
(* computed (WrapIs, SignedWrap).  The bits of a word come after that:     *)
(* where multiplication and division by a power of two move them, and that *)
(* a number is told by its own.                                            *)
(***************************************************************************)
EXTENDS Alu, FiniteSetTheorems, WellFoundedInduction, TLAPS

(* A set of natural numbers that is not empty has a least one.             *)
LEMMA LeastNatural ==
  ASSUME NEW S \in SUBSET Nat, S # {}
  PROVE  \E x \in S : \A y \in S : x <= y
<1> DEFINE R == {ss \in Nat \X Nat : ss[1] < ss[2]}
<1>1. OpToRel(<, Nat) = R
  BY DEF OpToRel
<1>2. IsWellFoundedOn(R, Nat)
  BY <1>1, NatLessThanWellFounded
<1>3. \A x, y \in Nat : <<x, y>> \in R <=> x < y
  OBVIOUS
<1> HIDE DEF R
<1>4. PICK x \in S : \A y \in S : ~ (<<y, x>> \in R)
  BY <1>2, WFMin
<1>5. ASSUME NEW y \in S PROVE x <= y
  <2>1. x \in Nat /\ y \in Nat
    OBVIOUS
  <2>2. ~ (y < x)
    BY <1>3, <1>4, <2>1
  <2>3. QED
    BY <2>1, <2>2
<1>6. QED
  BY <1>5

-----------------------------------------------------------------------------
(* The powers of two.                                                      *)

Power(k) == 2^k

LEMMA PowerCounts ==
  ASSUME NEW k \in Nat
  PROVE  Power(k) = Cardinality(SUBSET (1 .. k)) /\ Power(k) \in Nat \ {0}
<1>1. IsFiniteSet(1 .. k) /\ Cardinality(1 .. k) = k
  BY FS_Interval
<1>2. IsFiniteSet(SUBSET (1 .. k)) /\ Cardinality(SUBSET (1 .. k)) = 2^k
  BY <1>1, FS_SUBSET
<1>3. Cardinality(SUBSET (1 .. k)) \in Nat
  BY <1>2, FS_CardinalityType
<1>4. Cardinality(SUBSET (1 .. k)) # 0
  BY <1>2, FS_EmptySet
<1>5. QED
  BY <1>2, <1>3, <1>4 DEF Power

(* Half the subsets of 1 .. k + 1 hold k + 1, the other half does not.     *)
LEMMA PowerDoubles ==
  ASSUME NEW k \in Nat
  PROVE  Power(k + 1) = 2 * Power(k)
<1> DEFINE A == SUBSET (1 .. k)
           B == {s \cup {k + 1} : s \in A}
<1>1. SUBSET (1 .. k + 1) = A \cup B
  <2>1. ASSUME NEW t \in SUBSET (1 .. k + 1), t \notin A PROVE t \in B
    <3>1. k + 1 \in t
      BY <2>1
    <3>2. t \ {k + 1} \in A
      OBVIOUS
    <3>3. t = (t \ {k + 1}) \cup {k + 1}
      BY <3>1
    <3>4. QED
      BY <3>2, <3>3
  <2>2. A \subseteq SUBSET (1 .. k + 1) /\ B \subseteq SUBSET (1 .. k + 1)
    <3>1. \A i \in 1 .. k : i \in 1 .. k + 1
      OBVIOUS
    <3>2. k + 1 \in 1 .. k + 1
      OBVIOUS
    <3>3. A \subseteq SUBSET (1 .. k + 1)
      BY <3>1
    <3>4. ASSUME NEW s \in A PROVE s \cup {k + 1} \subseteq 1 .. k + 1
      BY <3>1, <3>2
    <3>5. QED
      BY <3>3, <3>4
  <2>3. QED
    BY <2>1, <2>2
<1>2. A \cap B = {}
  OBVIOUS
<1>3. IsFiniteSet(A) /\ Cardinality(A) = Power(k)
  <2>1. IsFiniteSet(1 .. k)
    BY FS_Interval
  <2>2. QED
    BY <2>1, FS_SUBSET, PowerCounts
<1>4. IsFiniteSet(B) /\ Cardinality(B) = Cardinality(A)
  <2> DEFINE f == [s \in A |-> s \cup {k + 1}]
  <2>1. f \in Bijection(A, B)
    <3>1. f \in [A -> B]
      OBVIOUS
    <3>2. \A t \in B : \E s \in A : f[s] = t
      OBVIOUS
    <3>3. ASSUME NEW s \in A, NEW t \in A, f[s] = f[t] PROVE s = t
      <4>1. k + 1 \notin s /\ k + 1 \notin t /\ s \cup {k + 1} = t \cup {k + 1}
        BY <3>3
      <4>2. QED
        BY <4>1
    <3>4. \A s, t \in A : f[s] = f[t] => s = t
      BY <3>3
    <3> HIDE DEF f, A, B
    <3>5. f \in Injection(A, B)
      BY <3>1, <3>4, Zenon DEF Injection, IsInjective
    <3>6. f \in Surjection(A, B)
      BY <3>1, <3>2, Zenon DEF Surjection
    <3>7. QED
      BY <3>5, <3>6, Zenon DEF Bijection
  <2>2. ExistsBijection(A, B)
    BY <2>1 DEF ExistsBijection
  <2>3. QED
    BY <1>3, <2>2, FS_Bijection
<1>5. Cardinality(A \cup B) = Cardinality(A) + Cardinality(B) - Cardinality(A \cap B)
  BY <1>3, <1>4, FS_Union
<1>6. Cardinality(A \cap B) = 0
  BY <1>2, FS_EmptySet
<1>7. Power(k + 1) = Cardinality(SUBSET (1 .. k + 1)) /\ Power(k) \in Nat
  <2>1. k + 1 \in Nat
    OBVIOUS
  <2>2. QED
    BY <2>1, PowerCounts
<1> HIDE DEF A, B
<1>8. Power(k + 1) = Cardinality(A \cup B)
  BY <1>1, <1>7
<1>9. Cardinality(A \cup B) = Power(k) + Power(k) - 0
  BY <1>3, <1>4, <1>5, <1>6
<1>10. QED
  BY <1>7, <1>8, <1>9

LEMMA PowerOfZero == Power(0) = 1
BY DEF Power

(* Exponents add: by the least number for which they would not.            *)
LEMMA PowerAdds ==
  ASSUME NEW j \in Nat, NEW k \in Nat
  PROVE  Power(j + k) = Power(j) * Power(k)
<1> DEFINE S == {m \in Nat : Power(j + m) # Power(j) * Power(m)}
<1>1. SUFFICES ASSUME S # {} PROVE FALSE
  BY <1>1
<1>2. PICK m \in S : \A y \in S : m <= y
  BY <1>1, LeastNatural
<1>3. m \in Nat /\ Power(j + m) # Power(j) * Power(m)
  OBVIOUS
<1>4. Power(j) \in Nat
  BY PowerCounts
<1>5. m # 0
  <2>1. j + 0 = j /\ Power(j) * 1 = Power(j)
    BY <1>4
  <2>2. QED
    BY <1>3, <2>1, PowerOfZero
<1>6. m - 1 \in Nat /\ (m - 1) + 1 = m /\ j + (m - 1) \in Nat /\ (j + (m - 1)) + 1 = j + m
  BY <1>3, <1>5
<1>7. m - 1 \notin S
  BY <1>2, <1>3, <1>6
<1>8. Power(j + (m - 1)) = Power(j) * Power(m - 1)
  BY <1>6, <1>7
<1> HIDE DEF S
<1>9. Power(m - 1) \in Nat
  BY <1>6, PowerCounts
<1>10. Power(j + m) = 2 * Power(j + (m - 1)) /\ Power(m) = 2 * Power(m - 1)
  <2>1. Power((m - 1) + 1) = 2 * Power(m - 1)
    BY <1>6, PowerDoubles
  <2>2. Power((j + (m - 1)) + 1) = 2 * Power(j + (m - 1))
    BY <1>6, PowerDoubles
  <2>3. QED
    BY <1>6, <2>1, <2>2
<1>11. 2 * (Power(j) * Power(m - 1)) = Power(j) * (2 * Power(m - 1))
  BY <1>4, <1>9
<1>12. QED
  BY <1>3, <1>8, <1>10, <1>11

-----------------------------------------------------------------------------
(* Words.                                                                  *)

(* The quarters, halves and signs of a word.                               *)
LEMMA WidthsAre ==
  /\ BYTE \in Nat \ {0} /\ HALF \in Nat \ {0} /\ BITS \in Nat \ {0}
  /\ 2^BYTE \in Nat \ {0} /\ 2^HALF \in Nat \ {0} /\ WORD \in Nat \ {0} /\ MSB \in Nat \ {0}
  /\ 2^HALF = 2^BYTE * 2^BYTE /\ WORD = 2^HALF * 2^HALF /\ WORD = 2 * MSB
<1>1. /\ BITS \in Nat \ {0} /\ BYTE \in Nat \ {0} /\ BITS = 4 * BYTE /\ HALF = 2 * BYTE
      /\ HALF \in Nat \ {0}
  BY WidthAssumption DEF BYTE, HALF
<1>2. BYTE + BYTE = HALF /\ HALF + HALF = BITS /\ BITS - 1 \in Nat /\ (BITS - 1) + 1 = BITS
  BY <1>1
<1>3. Power(HALF) = Power(BYTE) * Power(BYTE)
  BY <1>1, <1>2, PowerAdds
<1>4. Power(BITS) = Power(HALF) * Power(HALF)
  BY <1>1, <1>2, PowerAdds
<1>5. Power(BITS) = 2 * Power(BITS - 1)
  BY <1>2, PowerDoubles
<1>6. /\ Power(BYTE) \in Nat \ {0} /\ Power(HALF) \in Nat \ {0} /\ Power(BITS) \in Nat \ {0}
      /\ Power(BITS - 1) \in Nat \ {0}
  BY <1>1, <1>2, PowerCounts
<1>7. QED
  BY <1>1, <1>3, <1>4, <1>5, <1>6 DEF Power, WORD, MSB

(* Quotient and remainder are the only ones there are.                     *)
LEMMA DivisionIs ==
  ASSUME NEW a \in Int, NEW d \in Nat \ {0}, NEW q \in Int, NEW r \in 0 .. d - 1,
         a = d * q + r
  PROVE  a \div d = q /\ a % d = r
OBVIOUS

LEMMA WrapIs ==
  ASSUME NEW n \in Int
  PROVE  Wrap(n) \in Word /\ \E k \in Int : n = WORD * k + Wrap(n)
<1>1. WORD \in Nat \ {0}
  BY WidthsAre
<1> DEFINE k == n \div WORD
           r == n % WORD
<1>2. k \in Int /\ r \in 0 .. WORD - 1 /\ n = WORD * k + r
  <2> DEFINE w == WORD
  <2>1. w \in Nat \ {0}
    BY <1>1
  <2> HIDE DEF w
  <2>2. n \div w \in Int /\ (n % w) \in 0 .. w - 1 /\ n = w * (n \div w) + (n % w)
    BY <2>1
  <2>3. QED
    BY <2>2 DEF w
<1> HIDE DEF k
<1>3. QED
  BY <1>2 DEF Wrap, Word

(* A word stays what it is, and whole WORDs are forgotten.                 *)
LEMMA WrapForgets ==
  ASSUME NEW w \in Word, NEW k \in Int
  PROVE  Wrap(WORD * k + w) = w /\ Wrap(w) = w
<1>1. WORD \in Nat \ {0} /\ w \in 0 .. WORD - 1
  BY WidthsAre DEF Word
<1> DEFINE d == WORD
<1>2. d \in Nat \ {0} /\ w \in 0 .. d - 1
  BY <1>1
<1> HIDE DEF d
<1>3. d * k + w \in Int /\ w = d * 0 + w /\ w \in Int /\ 0 \in Int
  BY <1>2
<1>4. (d * k + w) % d = w
  BY <1>2, <1>3, DivisionIs
<1>5. w % d = w
  BY <1>2, <1>3, DivisionIs
<1>6. QED
  BY <1>4, <1>5 DEF Wrap, d

Ints == -MSB .. MSB - 1

LEMMA WordRange ==
  /\ WORD \in Nat \ {0} /\ MSB \in Nat \ {0} /\ WORD = 2 * MSB
  /\ \A w \in Word : w \in Nat /\ w < WORD
  /\ \A w \in Nat : w < WORD => w \in Word
  /\ 0 \in Word /\ 1 \in Word /\ MSB \in Word /\ WORD - 1 \in Word
BY WidthsAre DEF Word

LEMMA WordIsInt ==
  ASSUME NEW w \in Word
  PROVE  w \in Int /\ w \in Nat
BY WordRange

(* What a word is as an int.                                               *)
LEMMA SignedIs ==
  ASSUME NEW w \in Word
  PROVE  /\ Signed(w) \in Ints
         /\ (Signed(w) = w /\ w < MSB) \/ (Signed(w) = w - WORD /\ w >= MSB)
         /\ \E e \in 0 .. 1 : w = Signed(w) + WORD * e
<1>1. w \in Nat /\ w < WORD /\ MSB \in Nat \ {0} /\ WORD = 2 * MSB /\ WORD \in Nat
  BY WordRange
<1>2. CASE w < MSB
  <2>1. Signed(w) = w
    BY <1>1, <1>2 DEF Signed
  <2>2. w = w + WORD * 0
    BY <1>1
  <2>3. QED
    BY <1>1, <1>2, <2>1, <2>2 DEF Ints
<1>3. CASE ~ (w < MSB)
  <2>1. Signed(w) = w - WORD
    BY <1>1, <1>3 DEF Signed
  <2>2. w = (w - WORD) + WORD * 1
    BY <1>1
  <2>3. QED
    BY <1>1, <1>3, <2>1, <2>2 DEF Ints
<1>4. QED
  BY <1>2, <1>3

(* An int put into a register is read back as itself.                      *)
LEMMA SignedWrap ==
  ASSUME NEW v \in Ints, NEW n \in Int, NEW k \in Int, n = WORD * k + v
  PROVE  Signed(Wrap(n)) = v
<1>1. MSB \in Nat \ {0} /\ WORD = 2 * MSB /\ WORD \in Nat /\ v \in Int /\ -MSB <= v /\ v < MSB
  BY WordRange DEF Ints
<1>2. CASE v >= 0
  <2>1. v \in Word
    BY <1>1, <1>2, WordRange
  <2>2. Wrap(n) = v
    BY <2>1, WrapForgets
  <2>3. QED
    BY <1>1, <1>2, <2>2 DEF Signed
<1>3. CASE v < 0
  <2>1. v + WORD \in Word /\ v + WORD >= MSB
    BY <1>1, <1>3, WordRange
  <2>2. n = WORD * (k - 1) + (v + WORD) /\ k - 1 \in Int
    <3>1. WORD * (k - 1) = WORD * k - WORD /\ WORD * k \in Int
      BY <1>1
    <3>2. QED
      BY <1>1, <3>1
  <2>3. Wrap(n) = v + WORD
    BY <2>1, <2>2, WrapForgets
  <2>4. QED
    BY <1>1, <1>3, <2>1, <2>3 DEF Signed
<1>4. QED
  BY <1>1, <1>2, <1>3

-----------------------------------------------------------------------------
(* Quotients and products.                                                 *)

(* C's division: the quotient and the remainder give the dividend back,    *)
(* and neither is larger than it.                                          *)
LEMMA QuotientIs ==
  ASSUME NEW x \in Int, NEW y \in Int \ {0}
  PROVE  LET q == Quotient(x, y)
             r == Remainder(x, y)
         IN  /\ q \in Int /\ r \in Int /\ q * y + r = x
             /\ Abs(r) < Abs(y) /\ (r # 0 => (r < 0 <=> x < 0))
             /\ Abs(q) <= Abs(x) /\ Abs(r) <= Abs(x)
             /\ (Abs(y) >= 2 /\ x # 0 => Abs(q) < Abs(x))
             /\ ((x < 0 <=> y < 0) => q >= 0) /\ (~ (x < 0 <=> y < 0) => q <= 0)
<1> DEFINE a == Abs(x)
           b == Abs(y)
           p == a \div b
           s == a % b
           q == Quotient(x, y)
           r == Remainder(x, y)
<1>1. /\ a \in Nat /\ b \in Nat \ {0}
      /\ (x < 0 /\ x = -a) \/ (x >= 0 /\ x = a)
      /\ (y < 0 /\ y = -b) \/ (y >= 0 /\ y = b)
  BY DEF Abs
<1>2. p \in Nat /\ s \in 0 .. b - 1 /\ a = b * p + s /\ b * p \in Nat
  <2> HIDE DEF a, b
  <2>1. a \div b \in Nat /\ (a % b) \in 0 .. b - 1 /\ a = b * (a \div b) + (a % b)
    BY <1>1
  <2>2. b * (a \div b) \in Nat
    BY <1>1, <2>1
  <2>3. QED
    BY <2>1, <2>2
<1>3. q = IF (x < 0) = (y < 0) THEN p ELSE -p
  BY DEF Quotient
<1>4. r = x - y * q
  BY DEF Remainder
<1> HIDE DEF p, s, q, r, a, b
<1>5. p <= b * p
  BY <1>1, <1>2
<1>6. b >= 2 => 2 * p <= b * p
  BY <1>1, <1>2
<1>7. /\ (x < 0 <=> y < 0) => y * q = IF x < 0 THEN -(b * p) ELSE b * p
      /\ ~ (x < 0 <=> y < 0) => y * q = IF x < 0 THEN -(b * p) ELSE b * p
      /\ q \in Int
  <2>1. (-b) * p = -(b * p) /\ b * (-p) = -(b * p) /\ (-b) * (-p) = b * p
    BY <1>1, <1>2
  <2>2. CASE x < 0 /\ y < 0
    <3>1. q = p /\ y = -b
      BY <1>1, <1>3, <2>2
    <3>2. QED
      BY <1>2, <2>1, <2>2, <3>1
  <2>3. CASE x < 0 /\ ~ (y < 0)
    <3>1. q = -p /\ y = b
      BY <1>1, <1>3, <2>3
    <3>2. QED
      BY <1>2, <2>1, <2>3, <3>1
  <2>4. CASE ~ (x < 0) /\ y < 0
    <3>1. q = -p /\ y = -b
      BY <1>1, <1>3, <2>4
    <3>2. QED
      BY <1>2, <2>1, <2>4, <3>1
  <2>5. CASE ~ (x < 0) /\ ~ (y < 0)
    <3>1. q = p /\ y = b
      BY <1>1, <1>3, <2>5
    <3>2. QED
      BY <1>2, <2>1, <2>5, <3>1
  <2>6. QED
    BY <2>2, <2>3, <2>4, <2>5
<1>8. r \in Int /\ r = IF x < 0 THEN -s ELSE s
  BY <1>1, <1>2, <1>4, <1>7
<1>9. q * y + r = x
  <2>1. q * y = y * q /\ y * q \in Int
    BY <1>7
  <2>2. QED
    BY <1>4, <2>1
<1>10. Abs(r) = s
  BY <1>2, <1>8 DEF Abs
<1>11. Abs(q) = p
  <2>1. q = p \/ q = -p
    BY <1>3
  <2>2. QED
    BY <1>2, <2>1 DEF Abs
<1>12. s < b /\ s <= a /\ p <= a /\ (b >= 2 /\ a # 0 => p < a)
  BY <1>1, <1>2, <1>5, <1>6
<1>13. r # 0 => (r < 0 <=> x < 0)
  BY <1>2, <1>8
<1>14. ((x < 0 <=> y < 0) => q >= 0) /\ (~ (x < 0 <=> y < 0) => q <= 0)
  BY <1>2, <1>3
<1>15. x # 0 => a # 0
  BY <1>1
<1>16. Abs(r) < b /\ Abs(q) <= a /\ Abs(r) <= a /\ (b >= 2 /\ x # 0 => Abs(q) < a)
  BY <1>10, <1>11, <1>12, <1>15
<1>17. QED
  BY <1>7, <1>8, <1>9, <1>13, <1>14, <1>16 DEF a, b, q, r

(* The division of two ints that does not trap has an int for a quotient.  *)
LEMMA DivideSigned ==
  ASSUME NEW x \in Ints, NEW y \in Ints, y # 0, ~ (x = -MSB /\ y = -1)
  PROVE  Quotient(x, y) \in Ints /\ Remainder(x, y) \in Ints
<1> DEFINE q == Quotient(x, y)
           r == Remainder(x, y)
<1>1. x \in Int /\ y \in Int \ {0} /\ MSB \in Nat \ {0} /\ -MSB <= x /\ x < MSB
  BY WordRange DEF Ints
<1>2. /\ q \in Int /\ r \in Int /\ (r # 0 => (r < 0 <=> x < 0))
      /\ Abs(q) <= Abs(x) /\ Abs(r) <= Abs(x) /\ (Abs(y) >= 2 /\ x # 0 => Abs(q) < Abs(x))
      /\ (~ (x < 0 <=> y < 0) => q <= 0)
  BY <1>1, QuotientIs
<1> HIDE DEF q, r
<1>3. -MSB <= r /\ r < MSB
  BY <1>1, <1>2 DEF Abs
<1>4. -MSB <= q
  BY <1>1, <1>2 DEF Abs
<1>5. q < MSB
  <2>1. ASSUME q >= MSB PROVE FALSE
    <3>1. x = -MSB /\ Abs(q) = Abs(x) /\ x # 0 /\ x < 0 /\ q > 0
      BY <1>1, <1>2, <2>1 DEF Abs
    <3>2. Abs(y) < 2 /\ y < 0
      <4>1. Abs(x) \in Int /\ Abs(y) \in Int
        BY <1>1 DEF Abs
      <4>2. QED
        BY <1>1, <1>2, <3>1, <4>1
    <3>3. y = -1
      BY <1>1, <3>2 DEF Abs
    <3>4. QED
      BY <3>1, <3>3
  <2>2. QED
    BY <1>1, <1>2, <2>1
<1>6. q \in Ints /\ r \in Ints
  BY <1>1, <1>2, <1>3, <1>4, <1>5 DEF Ints
<1>7. QED
  BY <1>6 DEF q, r

LEMMA DivideUnsigned ==
  ASSUME NEW x \in Word, NEW y \in Word, y # 0
  PROVE  Quotient(x, y) \in Word /\ Remainder(x, y) \in Word
<1> DEFINE q == Quotient(x, y)
           r == Remainder(x, y)
<1>1. x \in Int /\ y \in Int \ {0} /\ x >= 0 /\ y >= 0 /\ x < WORD /\ WORD \in Nat
  BY WordRange
<1>2. /\ q \in Int /\ r \in Int /\ (r # 0 => (r < 0 <=> x < 0))
      /\ Abs(q) <= Abs(x) /\ Abs(r) <= Abs(x) /\ ((x < 0 <=> y < 0) => q >= 0)
  BY <1>1, QuotientIs
<1> HIDE DEF q, r
<1>3. q >= 0 /\ r >= 0 /\ q < WORD /\ r < WORD
  BY <1>1, <1>2 DEF Abs
<1>4. q \in Word /\ r \in Word
  BY <1>2, <1>3, WordRange
<1>5. QED
  BY <1>4 DEF q, r

(* The product of two words is that of the ints they are, modulo WORD.     *)
LEMMA ProductIs ==
  ASSUME NEW a \in Word, NEW b \in Word
  PROVE  \E k \in Int : a * b = WORD * k + Signed(a) * Signed(b)
<1> DEFINE x == Signed(a)
           y == Signed(b)
           W == WORD
<1>1. PICK d \in 0 .. 1 : a = x + W * d
  BY SignedIs
<1>2. PICK e \in 0 .. 1 : b = y + W * e
  BY SignedIs
<1>3. x \in Int /\ y \in Int /\ W \in Int
  BY SignedIs, WordRange DEF Ints
<1> HIDE DEF x, y, W
<1>4. (d = 0 \/ d = 1) /\ (e = 0 \/ e = 1)
  OBVIOUS
<1>5. CASE d = 0 /\ e = 0
  <2>1. a * b = W * 0 + x * y
    BY <1>1, <1>2, <1>3, <1>5
  <2>2. QED
    BY <2>1 DEF W, x, y
<1>6. CASE d = 1 /\ e = 0
  <2>1. a = x + W /\ b = y
    BY <1>1, <1>2, <1>3, <1>6
  <2>2. (x + W) * y = W * y + x * y
    BY <1>3
  <2>3. QED
    BY <1>3, <2>1, <2>2 DEF W, x, y
<1>7. CASE d = 0 /\ e = 1
  <2>1. a = x /\ b = y + W
    BY <1>1, <1>2, <1>3, <1>7
  <2>2. x * (y + W) = W * x + x * y
    BY <1>3
  <2>3. QED
    BY <1>3, <2>1, <2>2 DEF W, x, y
<1>8. CASE d = 1 /\ e = 1
  <2>1. a = x + W /\ b = y + W
    BY <1>1, <1>2, <1>3, <1>8
  <2>2. (x + W) * (y + W) = W * (x + y + W) + x * y
    BY <1>3
  <2>3. x + y + W \in Int
    BY <1>3
  <2>4. QED
    BY <2>1, <2>2, <2>3 DEF W, x, y
<1>9. QED
  BY <1>4, <1>5, <1>6, <1>7, <1>8

-----------------------------------------------------------------------------
(* What the instructions compute are words.                                *)

LEMMA ShiftsGiveWords ==
  ASSUME NEW x \in Word, NEW n \in Int
  PROVE  Shl(x, n) \in Word /\ Shr(x, n) \in Word /\ Sar(x, n) \in Word
<1> DEFINE p == 2^Count(n)
<1>1. p \in Nat \ {0}
  <2>1. Count(n) \in Nat
    <3>1. BITS \in Nat \ {0}
      BY WidthsAre
    <3>2. (n % BITS) \in 0 .. BITS - 1
      BY <3>1
    <3>3. QED
      BY <3>1, <3>2 DEF Count
  <2>2. QED
    BY <2>1, PowerCounts DEF Power
<1>2. Shl(x, n) = Wrap(x * p) /\ Shr(x, n) = x \div p /\ Sar(x, n) = Wrap(Signed(x) \div p)
  BY DEF Shl, Shr, Sar
<1>3. x \in Nat /\ x < WORD /\ WORD \in Nat /\ Signed(x) \in Int
  BY WordRange, SignedIs DEF Ints
<1> HIDE DEF p
<1>4. x * p \in Int /\ Signed(x) \div p \in Int
  BY <1>1, <1>3
<1>5. x \div p \in Nat /\ x \div p <= x
  <2> DEFINE q == x \div p
  <2>1. q \in Nat /\ (x % p) \in 0 .. p - 1 /\ x = p * q + (x % p)
    BY <1>1, <1>3
  <2> HIDE DEF q
  <2>2. q <= p * q /\ p * q \in Nat
    BY <1>1, <2>1
  <2>3. q \in Nat /\ q <= x
    BY <1>1, <1>3, <2>1, <2>2
  <2>4. QED
    BY <2>3 DEF q
<1>6. Wrap(x * p) \in Word /\ Wrap(Signed(x) \div p) \in Word
  BY <1>4, WrapIs
<1>7. x \div p \in Word
  BY <1>3, <1>5, WordRange
<1>8. QED
  BY <1>2, <1>6, <1>7

Operations2 == {"ADD", "ADDU", "SUB", "SUBU", "MUL", "AND", "OR", "XOR", "SLT", "SLTU"}
Shifts == {"SRAV", "SHLV", "SHRV", "ROL", "ROR"}

LEMMA ShiftsAreWords ==
  ASSUME NEW x \in Word, NEW n \in Int
  PROVE  SRA32(x, n) \in Word /\ ROL32(x, n) \in Word /\ ROR32(x, n) \in Word
<1>1. BITS - n \in Int
  BY WidthAssumption
<1>2. /\ Shl(x, n) \in Word /\ Shr(x, n) \in Word /\ Sar(x, n) \in Word
      /\ Shl(x, BITS - n) \in Word /\ Shr(x, BITS - n) \in Word
  BY <1>1, ShiftsGiveWords
<1>3. BitAnd(x, MSB) \in Word
  BY WordRange, BitwiseAssumption
<1>4. QED
  BY <1>2, <1>3, BitwiseAssumption DEF SRA32, ROL32, ROR32

LEMMA ValueIsWord ==
  ASSUME NEW op, NEW x \in Word, NEW y \in Int,
         \/ op \in Operations2 /\ y \in Word
         \/ op \in Shifts \cup {"CLZ", "CLO"}
  PROVE  Value(op, x, y) \in Word
<1>1. x \in Int /\ Signed(x) \in Int
  BY WordRange, SignedIs DEF Ints
<1>2. x + y \in Int /\ x - y \in Int /\ x * y \in Int
  BY <1>1
<1>3. Wrap(x + y) \in Word /\ Wrap(x - y) \in Word /\ Wrap(x * y) \in Word
  BY <1>2, WrapIs
<1>4. y \in Word => BitAnd(x, y) \in Word /\ BitOr(x, y) \in Word /\ BitXor(x, y) \in Word
  BY BitwiseAssumption
<1>5. Bit(Signed(x) < Signed(y)) \in Word /\ Bit(x < y) \in Word
  BY WordRange DEF Bit
<1>6. SRA32(x, y) \in Word /\ ROL32(x, y) \in Word /\ ROR32(x, y) \in Word
  BY ShiftsAreWords
<1>7. Shl(x, y) \in Word /\ Shr(x, y) \in Word
  BY ShiftsGiveWords
<1>8. CLZ32(x) \in Word /\ CLO32(x) \in Word
  <2>1. (x % 2) \in 0 .. 1
    BY <1>1
  <2>2. x % 2 = 0 \/ x % 2 = 1
    BY <2>1
  <2>3. QED
    BY <2>2, WordRange DEF CLZ32, CLO32
<1>9. CASE op \in Operations2 /\ y \in Word
  BY <1>3, <1>4, <1>5, <1>9 DEF Value, Operations2
<1>10. CASE op \in Shifts \cup {"CLZ", "CLO"}
  BY <1>6, <1>7, <1>8, <1>10 DEF Value, Shifts
<1>11. QED
  BY <1>9, <1>10

LEMMA SignExtendIsWord ==
  ASSUME NEW v \in Nat, NEW n \in {BYTE, HALF}, v < 2^n
  PROVE  SignExtend(v, n) \in Word
<1>1. 2^n \in Nat /\ 2^n <= WORD /\ WORD \in Nat
  <2>1. /\ 2^BYTE \in Nat \ {0} /\ 2^HALF \in Nat \ {0} /\ WORD \in Nat
        /\ 2^HALF = 2^BYTE * 2^BYTE /\ WORD = 2^HALF * 2^HALF
    BY WidthsAre
  <2> DEFINE b == 2^BYTE
             h == 2^HALF
  <2>2. b \in Nat \ {0} /\ h \in Nat \ {0} /\ h = b * b /\ WORD = h * h
    BY <2>1
  <2> HIDE DEF b, h
  <2>3. b <= b * b /\ h <= h * h
    BY <2>2
  <2>4. b <= h /\ h <= WORD
    BY <2>2, <2>3
  <2>5. b <= WORD
    BY <2>1, <2>2, <2>4
  <2>6. QED
    BY <2>1, <2>4, <2>5 DEF b, h
<1> DEFINE p == 2^n
<1>2. p \in Nat /\ p <= WORD /\ WORD \in Nat /\ v < p
  BY <1>1
<1>3. SignExtend(v, n) = IF 2 * v >= p THEN Wrap(v - p) ELSE v
  BY DEF SignExtend
<1> HIDE DEF p
<1>4. v - p \in Int /\ v < WORD
  BY <1>2
<1>5. v \in Word /\ Wrap(v - p) \in Word
  BY <1>4, WrapIs, WordRange
<1>6. QED
  BY <1>3, <1>5

(* Bytes put together.                                                     *)
LEMMA DigitsAre ==
  ASSUME NEW b \in Nat \ {0}, NEW u \in Nat, NEW m \in 0 .. b - 1, NEW v \in 0 .. u - 1
  PROVE  m + b * v \in 0 .. b * u - 1
<1>1. v + 1 <= u
  OBVIOUS
<1>2. b * (v + 1) <= b * u /\ b * (v + 1) = b * v + b
  BY <1>1
<1>3. b * v \in Nat /\ b * u \in Nat
  OBVIOUS
<1>4. QED
  BY <1>2, <1>3

-----------------------------------------------------------------------------
(* Bits.                                                                   *)

LEMMA DividesTwice ==
  ASSUME NEW x \in Int, NEW a \in Nat \ {0}, NEW b \in Nat \ {0}
  PROVE  (x \div a) \div b = x \div (a * b)
<1> DEFINE p == x \div a
           r == x % a
           q == p \div b
           s == p % b
<1>1. p \in Int /\ r \in 0 .. a - 1 /\ x = a * p + r
  OBVIOUS
<1>2. q \in Int /\ s \in 0 .. b - 1 /\ p = b * q + s
  <2> HIDE DEF p
  <2>1. QED
    BY <1>1
<1> HIDE DEF p, r, q, s
<1>3. r + a * s \in 0 .. a * b - 1
  BY <1>1, <1>2, DigitsAre
<1>4. x = (a * b) * q + (r + a * s)
  <2>1. a * p = a * (b * q) + a * s
    BY <1>1, <1>2
  <2>2. a * (b * q) = (a * b) * q /\ a * s \in Int
    BY <1>1, <1>2
  <2>3. QED
    BY <1>1, <1>2, <2>1, <2>2
<1> DEFINE d == a * b
           m == r + a * s
<1>5. d \in Nat \ {0} /\ m \in 0 .. d - 1 /\ x = d * q + m
  BY <1>3, <1>4
<1> HIDE DEF d, m
<1>6. x \div d = q
  BY <1>2, <1>5, DivisionIs
<1>7. QED
  BY <1>6 DEF d, q, p

(* Twice a number makes no difference to whether one is odd.               *)
LEMMA Parity ==
  ASSUME NEW n \in Int, NEW m \in Int
  PROVE  /\ (2 * m + n) % 2 = n % 2 /\ (2 * m) % 2 = 0
         /\ n % 2 \in {0, 1}
OBVIOUS

LEMMA BitIs ==
  ASSUME NEW x \in Int, NEW k \in Nat
  PROVE  BitOf(x, k) \in {0, 1} /\ x \div Power(k) \in Int
<1>1. Power(k) \in Nat \ {0}
  BY PowerCounts
<1> DEFINE p == Power(k)
<1>2. BitOf(x, k) = (x \div p) % 2
  BY DEF BitOf, Power
<1> HIDE DEF p
<1>3. x \div p \in Int
  BY <1>1 DEF p
<1>4. QED
  BY <1>2, <1>3, Parity DEF p

(* Division by a power of two moves the bits down.                         *)
LEMMA BitsMoveDown ==
  ASSUME NEW x \in Int, NEW n \in Nat, NEW k \in Nat
  PROVE  BitOf(x \div Power(n), k) = BitOf(x, k + n)
<1>1. Power(n) \in Nat \ {0} /\ Power(k) \in Nat \ {0} /\ Power(n + k) = Power(n) * Power(k)
  BY PowerCounts, PowerAdds
<1>2. (x \div Power(n)) \div Power(k) = x \div (Power(n) * Power(k))
  BY <1>1, DividesTwice
<1>3. n + k = k + n
  OBVIOUS
<1>4. QED
  BY <1>1, <1>2, <1>3 DEF BitOf, Power

(* Multiplication by one moves them up, and zeroes in.                     *)
LEMMA BitsMoveUp ==
  ASSUME NEW x \in Int, NEW n \in Nat, NEW k \in Nat
  PROVE  /\ k >= n => BitOf(x * Power(n), k) = BitOf(x, k - n)
         /\ k < n => BitOf(x * Power(n), k) = 0
<1> DEFINE p == Power(n)
           q == Power(k)
<1>1. p \in Nat \ {0} /\ q \in Nat \ {0}
  BY PowerCounts
<1>2. ASSUME k >= n PROVE BitOf(x * p, k) = BitOf(x, k - n)
  <2> DEFINE d == Power(k - n)
  <2>1. k - n \in Nat /\ n + (k - n) = k
    BY <1>2
  <2>2. d \in Nat \ {0} /\ q = p * d
    BY <2>1, PowerCounts, PowerAdds
  <2>3. BitOf(x * p, k) = ((x * p) \div q) % 2 /\ BitOf(x, k - n) = (x \div d) % 2
    BY DEF BitOf, Power
  <2> HIDE DEF p, q, d
  <2>4. x * p \in Int /\ x * p = p * x + 0 /\ 0 \in 0 .. p - 1
    BY <1>1
  <2>5. (x * p) \div p = x
    <3> DEFINE z == x * p
    <3>1. z \in Int /\ z = p * x + 0
      BY <2>4
    <3> HIDE DEF z
    <3>2. z \div p = x
      BY <1>1, <2>4, <3>1, DivisionIs
    <3>3. QED
      BY <3>2 DEF z
  <2>6. ((x * p) \div p) \div d = (x * p) \div (p * d)
    BY <1>1, <2>2, <2>4, DividesTwice
  <2>7. QED
    BY <2>2, <2>3, <2>5, <2>6
<1>3. ASSUME k < n PROVE BitOf(x * p, k) = 0
  <2> DEFINE d == Power(n - (k + 1))
  <2>1. n - (k + 1) \in Nat /\ k + 1 \in Nat /\ (k + 1) + (n - (k + 1)) = n
    BY <1>3
  <2>2. d \in Nat \ {0} /\ p = (2 * q) * d
    <3>1. Power((k + 1) + (n - (k + 1))) = Power(k + 1) * d
      BY <2>1, PowerAdds
    <3>2. Power(k + 1) = 2 * q
      BY PowerDoubles
    <3>3. d \in Nat \ {0}
      BY <2>1, PowerCounts
    <3>4. p = Power(k + 1) * d
      BY <2>1, <3>1
    <3>5. QED
      BY <3>2, <3>3, <3>4
  <2>3. BitOf(x * p, k) = ((x * p) \div q) % 2
    BY DEF BitOf, Power
  <2> HIDE DEF p, q, d
  <2> DEFINE m == x * d
             z == x * p
  <2>4. m \in Int /\ 2 * m \in Int /\ z \in Int
    BY <1>1, <2>2
  <2>5. z = q * (2 * m) + 0 /\ 0 \in 0 .. q - 1
    <3>1. x * ((2 * q) * d) = q * (2 * (x * d))
      BY <1>1, <2>2
    <3>2. QED
      BY <1>1, <2>2, <2>4, <3>1
  <2> HIDE DEF m, z
  <2>6. z \div q = 2 * m
    BY <1>1, <2>4, <2>5, DivisionIs
  <2>7. (2 * m) % 2 = 0
    BY <2>4, Parity
  <2>8. QED
    BY <2>3, <2>6, <2>7 DEF z
<1>4. QED
  BY <1>2, <1>3

(* The bits of a word are those of every number it is cut from.            *)
LEMMA BitsStay ==
  ASSUME NEW x \in Int, NEW w \in Int, NEW q \in Int, x = WORD * q + w,
         NEW k \in 0 .. BITS - 1
  PROVE  BitOf(x, k) = BitOf(w, k)
<1> DEFINE p == Power(k)
           d == Power(BITS - (k + 1))
           v == w \div p
           r == w % p
<1>1. k \in Nat /\ k + 1 \in Nat /\ BITS - (k + 1) \in Nat /\ (k + 1) + (BITS - (k + 1)) = BITS
  BY WidthAssumption
<1>2. p \in Nat \ {0} /\ d \in Nat \ {0} /\ WORD = (2 * p) * d
  BY <1>1, PowerCounts, PowerAdds, PowerDoubles DEF Power, WORD
<1>3. BitOf(x, k) = (x \div p) % 2 /\ BitOf(w, k) = v % 2
  BY DEF BitOf, Power
<1> HIDE DEF p, d
<1>4. v \in Int /\ r \in 0 .. p - 1 /\ w = p * v + r
  BY <1>2
<1> HIDE DEF v, r
<1> DEFINE m == d * q
<1>5. m \in Int /\ 2 * m + v \in Int
  BY <1>2, <1>4
<1>6. x = p * (2 * m + v) + r
  <2>1. ((2 * p) * d) * q = p * (2 * m)
    BY <1>2
  <2>2. p * (2 * m + v) = p * (2 * m) + p * v /\ p * v \in Int /\ p * (2 * m) \in Int
    BY <1>2, <1>4, <1>5
  <2>3. QED
    BY <1>2, <1>4, <2>1, <2>2
<1> HIDE DEF m
<1>7. x \div p = 2 * m + v
  BY <1>2, <1>4, <1>5, <1>6, DivisionIs
<1>8. (2 * m + v) % 2 = v % 2
  BY <1>4, <1>5, Parity
<1>9. QED
  BY <1>3, <1>7, <1>8

LEMMA BitsOfWrap ==
  ASSUME NEW x \in Int, NEW k \in 0 .. BITS - 1
  PROVE  BitOf(Wrap(x), k) = BitOf(x, k)
<1>1. PICK q \in Int : x = WORD * q + Wrap(x)
  BY WrapIs
<1>2. Wrap(x) \in Int
  BY WrapIs, WordIsInt
<1>3. QED
  BY <1>1, <1>2, BitsStay

(* Above a word there are none, and above an int there is only its sign.   *)
LEMMA BitsAbove ==
  ASSUME NEW w \in Word, NEW k \in Nat
  PROVE  /\ k >= BITS => BitOf(w, k) = 0
         /\ k >= BITS - 1 => BitOf(Signed(w), k) = BitOf(w, BITS - 1)
<1>1. w \in Nat /\ w < WORD /\ MSB \in Nat \ {0} /\ WORD = 2 * MSB /\ WORD \in Nat
  BY WordRange
<1>2. BITS \in Nat /\ BITS - 1 \in Nat
  BY WidthAssumption
<1>3. ASSUME NEW x \in Int, NEW j \in Nat, NEW e \in Nat, j >= e, x < Power(e), x >= -Power(e)
      PROVE  BitOf(x, j) = IF x < 0 THEN 1 ELSE 0
  <2> DEFINE p == Power(j)
             b == Power(e)
             d == Power(j - e)
  <2>1. p \in Nat \ {0} /\ b \in Nat \ {0} /\ d \in Nat \ {0} /\ p = b * d
    <3>1. j - e \in Nat /\ e + (j - e) = j
      BY <1>3
    <3>2. QED
      BY <3>1, PowerCounts, PowerAdds
  <2>2. BitOf(x, j) = (x \div p) % 2
    BY DEF BitOf, Power
  <2>3. x < b /\ x >= -b
    BY <1>3
  <2> HIDE DEF p, b, d
  <2>4. b <= p
    BY <2>1
  <2>5. CASE x < 0
    <3>1. x = p * (-1) + (x + p) /\ x + p \in 0 .. p - 1
      BY <2>1, <2>3, <2>4, <2>5
    <3>2. x \div p = -1
      BY <2>1, <3>1, DivisionIs
    <3>3. QED
      BY <2>2, <2>5, <3>2
  <2>6. CASE ~ (x < 0)
    <3>1. x = p * 0 + x /\ x \in 0 .. p - 1
      BY <2>1, <2>3, <2>4, <2>6
    <3>2. x \div p = 0
      BY <2>1, <3>1, DivisionIs
    <3>3. QED
      BY <2>2, <2>6, <3>2
  <2>7. QED
    BY <2>5, <2>6
<1>4. WORD = Power(BITS) /\ MSB = Power(BITS - 1)
  BY DEF WORD, MSB, Power
<1>5. k >= BITS => BitOf(w, k) = 0
  BY <1>1, <1>2, <1>3, <1>4
<1>6. ASSUME k >= BITS - 1 PROVE BitOf(Signed(w), k) = BitOf(w, BITS - 1)
  <2> DEFINE s == Signed(w)
  <2>1. s \in Int /\ -MSB <= s /\ s < MSB
    BY <1>1, SignedIs DEF Ints
  <2>2. PICK e \in 0 .. 1 : w = s + WORD * e
    BY SignedIs
  <2> HIDE DEF s
  <2>3. BitOf(s, k) = IF s < 0 THEN 1 ELSE 0
    BY <1>2, <1>3, <1>4, <1>6, <2>1
  <2>4. BitOf(s, BITS - 1) = IF s < 0 THEN 1 ELSE 0
    BY <1>2, <1>3, <1>4, <2>1
  <2>5. BitOf(w, BITS - 1) = BitOf(s, BITS - 1)
    <3>1. w = WORD * e + s /\ w \in Int /\ e \in Int /\ BITS - 1 \in 0 .. BITS - 1
      BY <1>1, <1>2, <2>1, <2>2
    <3>2. QED
      BY <2>1, <3>1, BitsStay
  <2>6. QED
    BY <2>3, <2>4, <2>5 DEF s
<1>7. QED
  BY <1>5, <1>6

LEMMA CountIs ==
  ASSUME NEW n \in Int
  PROVE  /\ Count(n) \in 0 .. BITS - 1
         /\ Count(BITS - n) = IF Count(n) = 0 THEN 0 ELSE BITS - Count(n)
<1> DEFINE b == BITS
           q == n \div b
           r == n % b
<1>1. b \in Nat \ {0}
  BY WidthsAre
<1>2. Count(n) = r /\ Count(BITS - n) = (b - n) % b
  BY DEF Count
<1> HIDE DEF b
<1>3. q \in Int /\ r \in 0 .. b - 1 /\ n = b * q + r
  BY <1>1
<1> HIDE DEF q, r
<1>4. b * (1 - q) = b - b * q /\ b * (-q) = -(b * q) /\ b * q \in Int
  BY <1>1, <1>3
<1>5. ASSUME r = 0 PROVE (b - n) % b = 0
  <2>1. b - n = b * (1 - q) + 0 /\ 1 - q \in Int /\ b - n \in Int /\ 0 \in 0 .. b - 1
    BY <1>1, <1>3, <1>4, <1>5
  <2>2. QED
    BY <1>1, <2>1, DivisionIs
<1>6. ASSUME r # 0 PROVE (b - n) % b = b - r
  <2>1. b - n = b * (-q) + (b - r) /\ -q \in Int /\ b - n \in Int /\ b - r \in 0 .. b - 1
    BY <1>1, <1>3, <1>4, <1>6
  <2>2. QED
    BY <1>1, <2>1, DivisionIs
<1>7. QED
  BY <1>2, <1>3, <1>5, <1>6 DEF b

LEMMA ShiftedBits ==
  ASSUME NEW x \in Word, NEW y \in Int, NEW k \in 0 .. BITS - 1
  PROVE  LET n == Count(y)
         IN  /\ BitOf(Shl(x, y), k) = IF k >= n THEN BitOf(x, k - n) ELSE 0
             /\ BitOf(Shr(x, y), k) = IF k + n < BITS THEN BitOf(x, k + n) ELSE 0
             /\ BitOf(Sar(x, y), k) = IF k + n < BITS THEN BitOf(x, k + n) ELSE BitOf(x, BITS - 1)
<1> DEFINE n == Count(y)
           s == Signed(x)
<1>1. Shl(x, y) = Wrap(x * Power(n)) /\ Shr(x, y) = x \div Power(n) /\ Sar(x, y) = Wrap(s \div Power(n))
  BY DEF Shl, Shr, Sar, Power
<1>2. n \in Nat /\ n < BITS /\ k \in Nat /\ BITS \in Nat
  <2>1. n \in 0 .. BITS - 1
    BY CountIs
  <2>2. QED
    BY <2>1, WidthAssumption
<1>3. x \in Int /\ s \in Int
  BY WordRange, SignedIs DEF Ints
<1> HIDE DEF n, s
<1>4. Power(n) \in Nat \ {0}
  BY <1>2, PowerCounts
<1>5. x * Power(n) \in Int /\ s \div Power(n) \in Int
  <2> DEFINE p == Power(n)
  <2>1. p \in Nat \ {0}
    BY <1>4
  <2> HIDE DEF p
  <2>2. x * p \in Int /\ s \div p \in Int
    BY <1>3, <2>1
  <2>3. QED
    BY <2>2 DEF p
<1>6. BitOf(Shl(x, y), k) = BitOf(x * Power(n), k)
  BY <1>1, <1>5, BitsOfWrap
<1>7. BitOf(Shl(x, y), k) = IF k >= n THEN BitOf(x, k - n) ELSE 0
  BY <1>2, <1>3, <1>6, BitsMoveUp
<1>8. BitOf(Shr(x, y), k) = BitOf(x, k + n)
  BY <1>1, <1>2, <1>3, BitsMoveDown
<1>9. k + n >= BITS => BitOf(x, k + n) = 0
  BY <1>2, BitsAbove
<1>10. BitOf(Sar(x, y), k) = BitOf(s, k + n)
  <2>1. BitOf(Sar(x, y), k) = BitOf(s \div Power(n), k)
    BY <1>1, <1>5, BitsOfWrap
  <2>2. BitOf(s \div Power(n), k) = BitOf(s, k + n)
    BY <1>2, <1>3, BitsMoveDown
  <2>3. QED
    BY <2>1, <2>2
<1>11. ASSUME k + n < BITS PROVE BitOf(s, k + n) = BitOf(x, k + n)
  <2>1. PICK e \in 0 .. 1 : x = s + WORD * e
    BY SignedIs DEF s
  <2>2. k + n \in 0 .. BITS - 1 /\ WORD \in Int
    BY <1>2, <1>11, WordRange
  <2>3. x = WORD * e + s /\ e \in Int
    <3>1. WORD * e \in Int
      BY <2>2
    <3>2. QED
      BY <1>3, <2>1, <3>1
  <2> DEFINE j == k + n
  <2>4. j \in 0 .. BITS - 1
    BY <2>2
  <2> HIDE DEF j
  <2>5. BitOf(x, j) = BitOf(s, j)
    BY <1>3, <2>3, <2>4, BitsStay
  <2>6. QED
    BY <2>5 DEF j
<1>12. k + n >= BITS => BitOf(s, k + n) = BitOf(x, BITS - 1)
  BY <1>2, BitsAbove DEF s
<1>13. /\ BitOf(Shr(x, y), k) = IF k + n < BITS THEN BitOf(x, k + n) ELSE 0
       /\ BitOf(Sar(x, y), k) = IF k + n < BITS THEN BitOf(x, k + n) ELSE BitOf(x, BITS - 1)
  BY <1>2, <1>8, <1>9, <1>10, <1>11, <1>12
<1>14. QED
  BY <1>7, <1>13 DEF n

LEMMA LogicalBits ==
  ASSUME NEW x \in Word, NEW y \in Word, NEW k \in 0 .. BITS - 1
  PROVE  /\ BitOf(x, k) \in {0, 1} /\ BitOf(y, k) \in {0, 1}
         /\ BitOf(BitOr(x, y), k) = IF BitOf(x, k) = 1 THEN 1 ELSE BitOf(y, k)
         /\ BitOf(BitAnd(x, y), k) = IF BitOf(x, k) = 1 THEN BitOf(y, k) ELSE 0
         /\ BitOf(BitXor(x, y), k) = IF BitOf(x, k) = BitOf(y, k) THEN 0 ELSE 1
<1>1. BitAnd(x, y) \in Word /\ BitOr(x, y) \in Word /\ BitXor(x, y) \in Word
  BY BitwiseAssumption
<1>2. /\ x \in Int /\ y \in Int /\ k \in Nat
      /\ BitAnd(x, y) \in Int /\ BitOr(x, y) \in Int /\ BitXor(x, y) \in Int
  BY <1>1, WordIsInt
<1>3. /\ BitOf(x, k) \in {0, 1} /\ BitOf(y, k) \in {0, 1} /\ BitOf(BitAnd(x, y), k) \in {0, 1}
      /\ BitOf(BitOr(x, y), k) \in {0, 1} /\ BitOf(BitXor(x, y), k) \in {0, 1}
  BY <1>2, BitIs
<1>4. /\ (BitOf(BitAnd(x, y), k) = 1) = (BitOf(x, k) = 1 /\ BitOf(y, k) = 1)
      /\ (BitOf(BitOr(x, y), k) = 1) = (BitOf(x, k) = 1 \/ BitOf(y, k) = 1)
      /\ (BitOf(BitXor(x, y), k) = 1) = (BitOf(x, k) # BitOf(y, k))
  BY BitwiseAssumption
<1>5. QED
  BY <1>3, <1>4

(* A number below 2^m is told by its m bits.                               *)
LEMMA BitsTell ==
  ASSUME NEW m \in Nat, NEW u \in 0 .. Power(m) - 1, NEW v \in 0 .. Power(m) - 1,
         \A k \in 0 .. m - 1 : BitOf(u, k) = BitOf(v, k)
  PROVE  u = v
<1> DEFINE Same(i, a, b) == \A k \in 0 .. i - 1 : BitOf(a, k) = BitOf(b, k)
           S == {i \in Nat : \E a, b \in 0 .. Power(i) - 1 : Same(i, a, b) /\ a # b}
<1>1. SUFFICES ASSUME S # {} PROVE FALSE
  BY <1>1
<1>2. PICK i \in S : \A j \in S : i <= j
  BY <1>1, LeastNatural
<1>3. i \in Nat
  OBVIOUS
<1>4. PICK a \in 0 .. Power(i) - 1, b \in 0 .. Power(i) - 1 : Same(i, a, b) /\ a # b
  OBVIOUS
<1>5. i # 0
  BY <1>4, PowerOfZero
<1>6. i - 1 \in Nat /\ (i - 1) + 1 = i /\ i - 1 \notin S
  <2>1. i - 1 \in Nat /\ (i - 1) + 1 = i /\ ~ (i <= i - 1)
    BY <1>3, <1>5
  <2>2. QED
    BY <1>2, <2>1
<1>7. Power(i) = 2 * Power(i - 1) /\ Power(i - 1) \in Nat \ {0}
  BY <1>6, PowerDoubles, PowerCounts
<1> DEFINE c == a \div 2
           d == b \div 2
<1>8. c \in 0 .. Power(i - 1) - 1 /\ d \in 0 .. Power(i - 1) - 1
  BY <1>7
<1>9. Power(1) = 2
  <2>1. Power(0 + 1) = 2 * Power(0)
    BY PowerDoubles
  <2>2. QED
    BY <2>1, PowerOfZero
<1>10. ASSUME NEW k \in 0 .. (i - 1) - 1 PROVE BitOf(c, k) = BitOf(d, k)
  <2>1. a \in Int /\ b \in Int /\ k \in Nat /\ k + 1 \in 0 .. i - 1
    BY <1>3, <1>7
  <2>2. BitOf(c, k) = BitOf(a, k + 1) /\ BitOf(d, k) = BitOf(b, k + 1)
    <3>1. 1 \in Nat
      OBVIOUS
    <3>2. BitOf(a \div Power(1), k) = BitOf(a, k + 1)
      BY <2>1, <3>1, BitsMoveDown
    <3>3. BitOf(b \div Power(1), k) = BitOf(b, k + 1)
      BY <2>1, <3>1, BitsMoveDown
    <3>4. QED
      BY <1>9, <3>2, <3>3
  <2>3. QED
    BY <1>4, <2>1, <2>2
<1>11. c = d
  <2> HIDE DEF c, d
  <2>1. Same(i - 1, c, d)
    BY <1>10
  <2>2. QED
    BY <1>6, <1>8, <2>1
<1>12. a % 2 = b % 2
  <2>1. 0 \in 0 .. i - 1
    BY <1>3, <1>5
  <2>2. BitOf(a, 0) = BitOf(b, 0)
    BY <1>4, <2>1
  <2>3. BitOf(a, 0) = (a \div 1) % 2 /\ BitOf(b, 0) = (b \div 1) % 2
    BY PowerOfZero DEF BitOf, Power
  <2>4. a \div 1 = a /\ b \div 1 = b
    BY <1>7
  <2>5. QED
    BY <2>2, <2>3, <2>4
<1>13. a = 2 * c + (a % 2) /\ b = 2 * d + (b % 2)
  BY <1>7
<1>14. a = b
  BY <1>11, <1>12, <1>13
<1>15. QED
  BY <1>4, <1>14

-----------------------------------------------------------------------------
(* What the shifts, the rotations and the logical immediates leave.        *)

LEMMA AroundIs ==
  ASSUME NEW k \in 0 .. BITS - 1, NEW n \in 0 .. BITS - 1
  PROVE  /\ (k - n) % BITS = IF k >= n THEN k - n ELSE k + BITS - n
         /\ (k + n) % BITS = IF k + n < BITS THEN k + n ELSE k - (BITS - n)
<1> DEFINE b == BITS
<1>1. b \in Nat \ {0} /\ k \in 0 .. b - 1 /\ n \in 0 .. b - 1
  BY WidthsAre
<1> HIDE DEF b
<1>2. ASSUME k >= n PROVE (k - n) % b = k - n
  <2> DEFINE z == k - n
             q == 0
             r == k - n
  <2>1. z \in Int /\ q \in Int /\ r \in 0 .. b - 1 /\ z = b * q + r
    BY <1>1, <1>2
  <2> HIDE DEF z, q, r
  <2>2. z % b = r
    BY <1>1, <2>1, DivisionIs
  <2>3. QED
    BY <2>2 DEF z, r
<1>3. ASSUME ~ (k >= n) PROVE (k - n) % b = k + b - n
  <2> DEFINE z == k - n
             q == -1
             r == k + b - n
  <2>1. z \in Int /\ q \in Int /\ r \in 0 .. b - 1 /\ z = b * q + r
    BY <1>1, <1>3
  <2> HIDE DEF z, q, r
  <2>2. z % b = r
    BY <1>1, <2>1, DivisionIs
  <2>3. QED
    BY <2>2 DEF z, r
<1>4. ASSUME k + n < b PROVE (k + n) % b = k + n
  <2> DEFINE z == k + n
             q == 0
             r == k + n
  <2>1. z \in Int /\ q \in Int /\ r \in 0 .. b - 1 /\ z = b * q + r
    BY <1>1, <1>4
  <2> HIDE DEF z, q, r
  <2>2. z % b = r
    BY <1>1, <2>1, DivisionIs
  <2>3. QED
    BY <2>2 DEF z, r
<1>5. ASSUME ~ (k + n < b) PROVE (k + n) % b = k - (b - n)
  <2> DEFINE z == k + n
             q == 1
             r == k - (b - n)
  <2>1. z \in Int /\ q \in Int /\ r \in 0 .. b - 1 /\ z = b * q + r
    BY <1>1, <1>5
  <2> HIDE DEF z, q, r
  <2>2. z % b = r
    BY <1>1, <2>1, DivisionIs
  <2>3. QED
    BY <2>2 DEF z, r
<1>6. QED
  BY <1>2, <1>3, <1>4, <1>5 DEF b

LEMMA RotatedBits ==
  ASSUME NEW x \in Word, NEW y \in Int, NEW k \in 0 .. BITS - 1
  PROVE  /\ BitOf(ROL32(x, y), k) = BitOf(x, (k - Count(y)) % BITS)
         /\ BitOf(ROR32(x, y), k) = BitOf(x, (k + Count(y)) % BITS)
<1> DEFINE n == Count(y)
           m == Count(BITS - y)
           l == Shl(x, y)
           r == Shr(x, y)
           lm == Shl(x, BITS - y)
           rm == Shr(x, BITS - y)
<1>1. BITS \in Nat \ {0} /\ BITS - y \in Int /\ k \in Nat /\ k < BITS
  BY WidthsAre
<1>2. n \in 0 .. BITS - 1 /\ m = IF n = 0 THEN 0 ELSE BITS - n
  BY CountIs
<1>3. /\ BitOf(l, k) = IF k >= n THEN BitOf(x, k - n) ELSE 0
      /\ BitOf(r, k) = IF k + n < BITS THEN BitOf(x, k + n) ELSE 0
  BY ShiftedBits
<1>4. /\ BitOf(lm, k) = IF k >= m THEN BitOf(x, k - m) ELSE 0
      /\ BitOf(rm, k) = IF k + m < BITS THEN BitOf(x, k + m) ELSE 0
  BY <1>1, ShiftedBits
<1>5. l \in Word /\ r \in Word /\ lm \in Word /\ rm \in Word
  BY <1>1, ShiftsGiveWords
<1>6. /\ BitOf(ROL32(x, y), k) = IF BitOf(l, k) = 1 THEN 1 ELSE BitOf(rm, k)
      /\ BitOf(ROR32(x, y), k) = IF BitOf(r, k) = 1 THEN 1 ELSE BitOf(lm, k)
      /\ BitOf(l, k) \in {0, 1} /\ BitOf(r, k) \in {0, 1}
      /\ BitOf(lm, k) \in {0, 1} /\ BitOf(rm, k) \in {0, 1}
  BY <1>5, LogicalBits DEF ROL32, ROR32
<1> HIDE DEF l, r, lm, rm, n, m
<1>7. /\ (k - n) % BITS = IF k >= n THEN k - n ELSE k + BITS - n
      /\ (k + n) % BITS = IF k + n < BITS THEN k + n ELSE k - (BITS - n)
  BY <1>2, AroundIs
<1>8. CASE n = 0
  <2>1. m = 0 /\ k >= n /\ k - n = k /\ k + n < BITS /\ k + n = k /\ k - m = k /\ k + m = k /\ k >= m
        /\ k + m < BITS
    BY <1>1, <1>2, <1>8
  <2>2. /\ BitOf(l, k) = BitOf(x, k) /\ BitOf(r, k) = BitOf(x, k)
        /\ BitOf(lm, k) = BitOf(x, k) /\ BitOf(rm, k) = BitOf(x, k)
    BY <1>3, <1>4, <2>1
  <2>3. (k - n) % BITS = k /\ (k + n) % BITS = k
    BY <1>7, <2>1
  <2>4. BitOf(ROL32(x, y), k) = BitOf(x, k) /\ BitOf(ROR32(x, y), k) = BitOf(x, k)
    BY <1>6, <2>2
  <2>5. QED
    BY <2>3, <2>4 DEF n
<1>9. CASE n # 0
  <2>1. m = BITS - n /\ n \in Nat
    BY <1>2, <1>9
  <2>2. BitOf(ROL32(x, y), k) = BitOf(x, (k - n) % BITS)
    <3>1. CASE k >= n
      <4>1. ~ (k + m < BITS)
        BY <1>1, <2>1, <3>1
      <4>2. QED
        BY <1>3, <1>4, <1>6, <1>7, <3>1, <4>1
    <3>2. CASE ~ (k >= n)
      <4>1. k + m < BITS /\ k + m = k + BITS - n
        BY <1>1, <2>1, <3>2
      <4>2. QED
        BY <1>3, <1>4, <1>6, <1>7, <3>2, <4>1
    <3>3. QED
      BY <3>1, <3>2
  <2>3. BitOf(ROR32(x, y), k) = BitOf(x, (k + n) % BITS)
    <3>1. CASE k + n < BITS
      <4>1. ~ (k >= m)
        BY <1>1, <2>1, <3>1
      <4>2. QED
        BY <1>3, <1>4, <1>6, <1>7, <3>1, <4>1
    <3>2. CASE ~ (k + n < BITS)
      <4>1. k >= m /\ k - m = k - (BITS - n)
        BY <1>1, <2>1, <3>2
      <4>2. QED
        BY <1>3, <1>4, <1>6, <1>7, <3>2, <4>1
    <3>3. QED
      BY <3>1, <3>2
  <2>4. QED
    BY <2>2, <2>3 DEF n
<1>10. QED
  BY <1>8, <1>9

(* The sign that SRA32 adds once more is there already.                    *)
LEMMA SraBits ==
  ASSUME NEW x \in Word, NEW y \in Int, NEW k \in 0 .. BITS - 1
  PROVE  BitOf(SRA32(x, y), k) = IF k + Count(y) < BITS THEN BitOf(x, k + Count(y))
                                                      ELSE BitOf(x, BITS - 1)
<1> DEFINE n == Count(y)
           a == BitAnd(x, MSB)
           s == Sar(x, y)
<1>1. BITS \in Nat \ {0} /\ k \in Nat /\ k < BITS /\ n \in 0 .. BITS - 1
  BY WidthsAre, CountIs
<1>2. BitOf(MSB, k) = IF k = BITS - 1 THEN 1 ELSE 0
  <2>1. BITS - 1 \in Nat /\ 1 \in Int /\ MSB = 1 * Power(BITS - 1)
    <3>1. MSB = Power(BITS - 1) /\ MSB \in Nat
      BY WordRange DEF MSB, Power
    <3>2. QED
      BY <1>1, <3>1
  <2>2. /\ k >= BITS - 1 => BitOf(MSB, k) = BitOf(1, k - (BITS - 1))
        /\ k < BITS - 1 => BitOf(MSB, k) = 0
    BY <1>1, <2>1, BitsMoveUp
  <2>3. BitOf(1, 0) = 1
    <3>1. BitOf(1, 0) = (1 \div 1) % 2
      BY PowerOfZero DEF BitOf, Power
    <3>2. QED
      BY <3>1
  <2>4. QED
    BY <1>1, <2>2, <2>3
<1>3. MSB \in Word /\ a \in Word /\ s \in Word
  <2>1. MSB \in Word
    BY WordRange
  <2>2. QED
    BY <2>1, BitwiseAssumption, ShiftsGiveWords
<1>4. BitOf(x, k) \in {0, 1} /\ BitOf(a, k) = IF BitOf(x, k) = 1 THEN BitOf(MSB, k) ELSE 0
  BY <1>3, LogicalBits
<1>5. /\ BitOf(SRA32(x, y), k) = IF BitOf(a, k) = 1 THEN 1 ELSE BitOf(s, k)
      /\ BitOf(s, k) \in {0, 1}
  BY <1>3, LogicalBits DEF SRA32
<1>6. BitOf(s, k) = IF k + n < BITS THEN BitOf(x, k + n) ELSE BitOf(x, BITS - 1)
  BY ShiftedBits
<1> HIDE DEF n, a, s
<1>7. CASE k = BITS - 1
  <2>1. BitOf(s, k) = BitOf(x, BITS - 1)
    <3>1. n = 0 => k + n = BITS - 1
      BY <1>1, <1>7
    <3>2. n # 0 => ~ (k + n < BITS)
      BY <1>1, <1>7
    <3>3. QED
      BY <1>6, <3>1, <3>2
  <2>2. BitOf(a, k) = IF BitOf(x, k) = 1 THEN 1 ELSE 0
    BY <1>2, <1>4, <1>7
  <2>3. BitOf(SRA32(x, y), k) = BitOf(s, k)
    BY <1>4, <1>5, <1>7, <2>1, <2>2
  <2>4. QED
    BY <1>6, <2>3 DEF n
<1>8. CASE k # BITS - 1
  <2>1. BitOf(a, k) = 0
    BY <1>2, <1>4, <1>8
  <2>2. BitOf(SRA32(x, y), k) = BitOf(s, k)
    BY <1>5, <2>1
  <2>3. QED
    BY <1>6, <2>2 DEF n
<1>9. QED
  BY <1>7, <1>8

(* A word below 2^HALF has no bits in the upper half, and the other way    *)
(* round; words of the same bits there have the same upper half.           *)
LEMMA UpperHalf ==
  ASSUME NEW u \in Word, NEW v \in Word
  PROVE  /\ u < 2^HALF => \A k \in HALF .. BITS - 1 : BitOf(u, k) = 0
         /\ (\A k \in HALF .. BITS - 1 : BitOf(u, k) = BitOf(v, k)) => u \div 2^HALF = v \div 2^HALF
         /\ (\A k \in HALF .. BITS - 1 : BitOf(u, k) = 0) => u < 2^HALF
<1> DEFINE h == Power(HALF)
           High(x) == x \div h
<1>1. HALF \in Nat \ {0} /\ BITS = HALF + HALF /\ BITS \in Nat
  BY WidthAssumption DEF HALF
<1>2. h \in Nat \ {0} /\ WORD = h * h
  BY WidthsAre DEF Power
<1>3. ASSUME NEW x \in Word
      PROVE  High(x) \in 0 .. h - 1 /\ x = h * High(x) + (x % h) /\ (x % h) \in 0 .. h - 1
  <2> DEFINE q == x \div h
             r == x % h
  <2> HIDE DEF h
  <2>1. x \in Int /\ x >= 0 /\ x < h * h
    BY <1>2, WordRange
  <2>2. q \in Int /\ r \in 0 .. h - 1 /\ x = h * q + r
    BY <1>2, <2>1
  <2> HIDE DEF q, r
  <2>3. h * q \in Int /\ h * (h - 1) + h = h * h
    BY <1>2, <2>2
  <2>4. q >= 0
    <3>1. ASSUME q < 0 PROVE FALSE
      <4>1. h * q <= -h
        BY <1>2, <2>2, <3>1
      <4>2. QED
        BY <1>2, <2>1, <2>2, <2>3, <4>1
    <3>2. QED
      BY <2>2, <3>1
  <2>5. q < h
    <3>1. ASSUME q >= h PROVE FALSE
      <4>1. h * q >= h * h /\ h * h \in Int
        BY <1>2, <2>2, <3>1
      <4>2. QED
        BY <2>1, <2>2, <2>3, <4>1
    <3>2. QED
      BY <1>2, <2>2, <3>1
  <2>6. q \in 0 .. h - 1
    BY <1>2, <2>2, <2>4, <2>5
  <2>7. QED
    BY <2>2, <2>6 DEF q, r
<1>4. ASSUME NEW x \in Word, NEW k \in 0 .. HALF - 1
      PROVE  BitOf(High(x), k) = BitOf(x, k + HALF) /\ k + HALF \in HALF .. BITS - 1
  <2>1. x \in Int /\ HALF \in Nat /\ k \in Nat
    BY <1>1, WordIsInt
  <2>2. BitOf(x \div Power(HALF), k) = BitOf(x, k + HALF)
    BY <2>1, BitsMoveDown
  <2>3. QED
    BY <1>1, <2>2
<1>5. ASSUME NEW k \in HALF .. BITS - 1, u < h PROVE BitOf(u, k) = 0
  <2> DEFINE j == k - HALF
  <2>1. j \in Nat /\ j + HALF = k
    BY <1>1
  <2>2. u \in Int /\ u \div h = 0
    <3>1. u \in Nat
      BY WordIsInt
    <3> HIDE DEF h
    <3>2. u = h * 0 + u /\ u \in 0 .. h - 1
      BY <1>2, <1>5, <3>1
    <3>3. QED
      BY <1>2, <3>1, <3>2, DivisionIs
  <2>3. HALF \in Nat
    BY <1>1
  <2> HIDE DEF j
  <2>4. BitOf(u \div Power(HALF), j) = BitOf(u, j + HALF)
    BY <2>1, <2>2, <2>3, BitsMoveDown
  <2>5. BitOf(0, j) = 0
    <3>1. 0 \in Word /\ Power(j) \in Nat \ {0}
      BY <2>1, WordRange, PowerCounts
    <3>2. 0 \div Power(j) = 0
      <4> DEFINE p == Power(j)
      <4>1. p \in Nat \ {0}
        BY <3>1
      <4> HIDE DEF p
      <4>2. 0 = p * 0 + 0 /\ 0 \in 0 .. p - 1
        BY <4>1
      <4>3. 0 \div p = 0
        BY <4>1, <4>2, DivisionIs
      <4>4. QED
        BY <4>3 DEF p
    <3>3. QED
      BY <3>2 DEF BitOf, Power
  <2>6. QED
    BY <2>1, <2>2, <2>4, <2>5
<1>6. ASSUME \A k \in HALF .. BITS - 1 : BitOf(u, k) = BitOf(v, k)
      PROVE  High(u) = High(v)
  <2>1. ASSUME NEW k \in 0 .. HALF - 1 PROVE BitOf(High(u), k) = BitOf(High(v), k)
    BY <1>4, <1>6
  <2>2. High(u) \in 0 .. Power(HALF) - 1 /\ High(v) \in 0 .. Power(HALF) - 1 /\ HALF \in Nat
    BY <1>1, <1>3
  <2> HIDE DEF High
  <2>3. QED
    BY <2>1, <2>2, BitsTell
<1>7. ASSUME \A k \in HALF .. BITS - 1 : BitOf(u, k) = 0
      PROVE  u < h
  <2>1. High(u) \in 0 .. Power(HALF) - 1 /\ HALF \in Nat /\ 0 \in 0 .. Power(HALF) - 1
    BY <1>1, <1>2, <1>3
  <2>2. ASSUME NEW k \in 0 .. HALF - 1 PROVE BitOf(High(u), k) = BitOf(0, k)
    <3>1. BitOf(High(u), k) = 0
      BY <1>4, <1>7
    <3>2. BitOf(0, k) = 0
      <4>1. 0 * Power(k + 1) = 0 /\ 0 \in Int /\ k + 1 \in Nat /\ k \in Nat /\ k < k + 1
        <5>1. k + 1 \in Nat
          OBVIOUS
        <5>2. Power(k + 1) \in Nat
          BY <5>1, PowerCounts
        <5>3. QED
          BY <5>1, <5>2
      <4>2. BitOf(0 * Power(k + 1), k) = 0
        BY <4>1, BitsMoveUp
      <4>3. QED
        BY <4>1, <4>2
    <3>3. QED
      BY <3>1, <3>2
  <2> HIDE DEF High
  <2>3. High(u) = 0
    BY <2>1, <2>2, BitsTell
  <2>4. u = h * 0 + (u % h) /\ (u % h) \in 0 .. h - 1
    BY <1>3, <2>3
  <2> HIDE DEF h
  <2>5. QED
    BY <1>2, <2>4
<1>8. QED
  BY <1>5, <1>6, <1>7 DEF Power

-----------------------------------------------------------------------------
(* The status word: setting one of its flags leaves a word, and the others.*)

LEMMA FlagPowers == 2^N = 1 /\ 2^Z = 2 /\ 2^V = 8 /\ \E m \in Nat : WORD = 16 * m
<1>1. Power(0) = 1 /\ Power(0 + 1) = 2 * Power(0) /\ Power(1 + 1) = 2 * Power(1)
      /\ Power(2 + 1) = 2 * Power(2) /\ Power(3 + 1) = 2 * Power(3)
  BY PowerOfZero, PowerDoubles
<1>2. 0 + 1 = 1 /\ 1 + 1 = 2 /\ 2 + 1 = 3 /\ 3 + 1 = 4
  OBVIOUS
<1>3. Power(1) = 2 /\ Power(3) = 8 /\ Power(4) = 16
  BY <1>1, <1>2
<1>4. BITS - 4 \in Nat /\ (BITS - 4) + 4 = BITS
  BY WidthAssumption
<1>5. Power((BITS - 4) + 4) = Power(BITS - 4) * Power(4) /\ Power(BITS - 4) \in Nat
  BY <1>4, PowerAdds, PowerCounts
<1>6. WORD = 16 * Power(BITS - 4)
  <2>1. WORD = Power(BITS - 4) * 16
    BY <1>3, <1>4, <1>5 DEF WORD, Power
  <2> DEFINE m == Power(BITS - 4)
  <2>2. m \in Nat /\ WORD = m * 16
    BY <1>5, <2>1
  <2> HIDE DEF m
  <2>3. WORD = 16 * m
    BY <2>2
  <2>4. QED
    BY <2>3 DEF m
<1>7. QED
  BY <1>1, <1>3, <1>5, <1>6 DEF Power, N, Z, V

LEMMA WithBitIs ==
  ASSUME NEW x \in Word, NEW k \in {N, Z, V}, NEW b \in BOOLEAN
  PROVE  /\ WithBit(x, k, b) \in Word
         /\ BitOf(WithBit(x, k, b), k) = Bit(b)
         /\ \A j \in {N, Z, V} \ {k} : BitOf(WithBit(x, k, b), j) = BitOf(x, j)
<1>1. PICK m \in Nat : WORD = 16 * m
  BY FlagPowers
<1>2. x \in Nat /\ x < 16 * m
  BY <1>1, WordRange
<1>3. \A n \in Nat : n < 16 * m => n \in Word
  BY <1>1, WordRange
<1> DEFINE d == Bit(b)
           w == WithBit(x, k, b)
<1>4. d \in {0, 1}
  BY DEF Bit
<1>5. \A n \in Int : /\ BitOf(n, N) = (n \div 1) % 2 /\ BitOf(n, Z) = (n \div 2) % 2
                     /\ BitOf(n, V) = (n \div 8) % 2
  BY FlagPowers DEF BitOf
<1>6. \A n \in Int : BitOf(n, N) = n % 2
  <2>1. \A n \in Int : n \div 1 = n
    OBVIOUS
  <2>2. QED
    BY <1>5, <2>1
<1>7. N # Z /\ N # V /\ Z # V
  BY DEF N, Z, V
<1>8. CASE k = N
  <2>1. w = x + (d - (x % 2))
    <3>1. w = x + (d - BitOf(x, N)) * 1 /\ BitOf(x, N) = x % 2
      BY <1>2, <1>6, <1>8, FlagPowers DEF WithBit
    <3> HIDE DEF d, w
    <3>2. QED
      BY <1>2, <1>4, <3>1
  <2> HIDE DEF d, w
  <2>2. w \in Nat /\ w < 16 * m /\ w % 2 = d /\ (w \div 2) % 2 = (x \div 2) % 2
        /\ (w \div 8) % 2 = (x \div 8) % 2
    BY <1>2, <1>4, <2>1
  <2>3. QED
    BY <1>2, <1>3, <1>5, <1>6, <1>8, <2>2 DEF w, d
<1>9. CASE k = Z
  <2>1. w = x + (d - ((x \div 2) % 2)) * 2
    BY <1>2, <1>5, <1>9, FlagPowers DEF WithBit
  <2> HIDE DEF d, w
  <2>2. w \in Nat /\ w < 16 * m /\ w % 2 = x % 2 /\ (w \div 2) % 2 = d
        /\ (w \div 8) % 2 = (x \div 8) % 2
    BY <1>2, <1>4, <2>1
  <2>3. QED
    BY <1>2, <1>3, <1>5, <1>6, <1>9, <2>2 DEF w, d
<1>10. CASE k = V
  <2>1. w = x + (d - ((x \div 8) % 2)) * 8
    BY <1>2, <1>5, <1>10, FlagPowers DEF WithBit
  <2> HIDE DEF d, w
  <2>2. w \in Nat /\ w < 16 * m /\ w % 2 = x % 2 /\ (w \div 2) % 2 = (x \div 2) % 2
        /\ (w \div 8) % 2 = d
    BY <1>2, <1>4, <2>1
  <2>3. QED
    BY <1>2, <1>3, <1>5, <1>6, <1>10, <2>2 DEF w, d
<1>11. QED
  BY <1>8, <1>9, <1>10

-----------------------------------------------------------------------------
(* Types: one lemma for each instruction that computes what it stores.     *)

LEMMA RegisterSet ==
  ASSUME TypeOK, NEW i \in Instructions, NEW v \in Word, NEW r \in [Registers -> Word],
         Assign(r, i.ra, v)
  PROVE  regs' \in [Registers -> Word]
<1>1. i.ra \in Registers
  BY InstructionAssumption
<1>2. QED
  BY <1>1 DEF Assign

LEMMA RegistersAre ==
  ASSUME TypeOK
  PROVE  regs \in [Registers -> Word] /\ regs[SW] \in Word
BY WidthAssumption DEF TypeOK

LEMMA FlaggedIs ==
  ASSUME TypeOK, NEW op, NEW v
  PROVE  /\ Flagged(op, v) \in [Registers -> Word]
         /\ \A k \in {N, Z} : BitOf(Flagged(op, v)[SW], k) = BitOf(regs[SW], k)
<1> DEFINE w == WithBit(regs[SW], V, TRUE)
<1>1. SW \in Registers /\ regs \in [Registers -> Word] /\ regs[SW] \in Word
  BY WidthAssumption, RegistersAre
<1>2. w \in Word /\ \A k \in {N, Z} : BitOf(w, k) = BitOf(regs[SW], k)
  <2>1. V \in {N, Z, V} /\ N # V /\ Z # V
    BY DEF N, Z, V
  <2>2. w \in Word /\ \A k \in {N, Z, V} \ {V} : BitOf(w, k) = BitOf(regs[SW], k)
    BY <1>1, <2>1, WithBitIs
  <2>3. QED
    BY <2>1, <2>2
<1>3. Flagged(op, v) = regs \/ Flagged(op, v) = [regs EXCEPT ![SW] = w]
  BY DEF Flagged
<1> HIDE DEF w
<1>4. QED
  BY <1>1, <1>2, <1>3

LEMMA OperandsAre ==
  ASSUME TypeOK, NEW i \in Instructions
  PROVE  regs[i.ra] \in Word /\ regs[i.rb] \in Word /\ regs[i.rc] \in Word /\ i.c \in Nat
BY InstructionAssumption DEF TypeOK

LEMMA ComputesTypes ==
  ASSUME TypeOK, NEW i \in Instructions, NEW op, NEW x, NEW y,
         Computes(i, op, x, y), Value(op, x, y) \in Word
  PROVE  regs' \in [Registers -> Word] /\ cop' = cop /\ mem' = mem /\ jumped' \in BOOLEAN
<1>1. Assign(Flagged(i.op, Value(op, x, y)), i.ra, Value(op, x, y))
  BY DEF Computes
<1>2. regs' \in [Registers -> Word]
  BY <1>1, FlaggedIs, RegisterSet
<1>3. cop' = cop /\ mem' = mem /\ jumped' \in BOOLEAN
  BY DEF Computes
<1>4. QED
  BY <1>2, <1>3

LEMMA ExecutesTypes ==
  ASSUME TypeOK, NEW i \in Instructions, NEW ops, Executes(i, ops)
  PROVE  alive' \in BOOLEAN /\ turns' \in 0 .. MaxTurns
BY WidthAssumption DEF TypeOK, Executes

LEMMA ThreeRegistersTypes ==
  ASSUME TypeOK, NEW i \in Instructions, ThreeRegisters(i)
  PROVE  TypeOK'
<1>1. Executes(i, Operations2 \cup Shifts) /\ i.op \in Operations2 \cup Shifts
  BY DEF ThreeRegisters, Executes, Operations2, Shifts
<1>2. regs[i.rb] \in Word /\ regs[i.rc] \in Word /\ regs[i.rc] \in Int
  BY OperandsAre, WordIsInt
<1>3. Value(i.op, regs[i.rb], regs[i.rc]) \in Word
  BY <1>1, <1>2, ValueIsWord
<1>4. Computes(i, i.op, regs[i.rb], regs[i.rc])
  BY DEF ThreeRegisters
<1>5. regs' \in [Registers -> Word] /\ cop' = cop /\ mem' = mem /\ jumped' \in BOOLEAN
  BY <1>3, <1>4, ComputesTypes
<1>6. alive' \in BOOLEAN /\ turns' \in 0 .. MaxTurns
  BY <1>1, ExecutesTypes
<1>7. QED
  BY <1>5, <1>6 DEF TypeOK

LEMMA CountBitsTypes ==
  ASSUME TypeOK, NEW i \in Instructions, CountBits(i)
  PROVE  TypeOK'
<1>1. Executes(i, {"CLZ", "CLO"}) /\ i.op \in {"CLZ", "CLO"}
      /\ Computes(i, i.op, regs[i.rb], 0)
  BY DEF CountBits, Executes
<1>2. Value(i.op, regs[i.rb], 0) \in Word
  <2>1. regs[i.rb] \in Word /\ 0 \in Int
    BY OperandsAre
  <2>2. QED
    BY <1>1, <2>1, ValueIsWord
<1>3. regs' \in [Registers -> Word] /\ cop' = cop /\ mem' = mem /\ jumped' \in BOOLEAN
  BY <1>1, <1>2, ComputesTypes
<1>4. alive' \in BOOLEAN /\ turns' \in 0 .. MaxTurns
  BY <1>1, ExecutesTypes
<1>5. QED
  BY <1>1, <1>3, <1>4 DEF TypeOK

(* An immediate is a word, but for the counts of the shifts.               *)
LEMMA ImmediateIs ==
  ASSUME TypeOK, NEW i \in Instructions, i.op \in DOMAIN Plain
  PROVE  LET y == Immediate(i.op, i.c)
         IN  /\ y \in Int
             /\ (Plain[i.op] \in Operations2 /\ y \in Word) \/ Plain[i.op] \in Shifts
             /\ i.op \in {"ANDI", "ORI", "XORI"} => y \in Word /\ y < 2^HALF
<1>1. i.op \in {"ADDIU", "SLTI", "SLTIU", "ANDI", "ORI", "XORI",
               "SRA", "SHL", "SHR", "ROLI", "RORI"}
  BY DEF Plain
<1>2. i.c \in Nat
  BY OperandsAre
<1>3. CASE i.op \in {"SRA", "SHL", "SHR", "ROLI", "RORI"}
  <2>1. Immediate(i.op, i.c) = i.c
    BY <1>3 DEF Immediate
  <2>2. Plain[i.op] \in Shifts
    BY <1>3 DEF Plain, Shifts
  <2>3. i.op \notin {"ANDI", "ORI", "XORI"}
    BY <1>3
  <2>4. QED
    BY <1>2, <2>1, <2>2, <2>3
<1>4. CASE i.op \notin {"SRA", "SHL", "SHR", "ROLI", "RORI"}
  <2>1. i.c < 2^HALF
    BY <1>4, InstructionAssumption
  <2>2. SignExtend(i.c, HALF) \in Word
    BY <1>2, <2>1, SignExtendIsWord
  <2>3. i.c \in Word
    <3>1. 2^HALF \in Nat \ {0} /\ WORD = 2^HALF * 2^HALF
      BY WidthsAre
    <3> DEFINE h == 2^HALF
    <3>2. h \in Nat \ {0} /\ WORD = h * h /\ i.c < h
      BY <2>1, <3>1
    <3> HIDE DEF h
    <3>3. h <= h * h
      BY <3>2
    <3>4. h * h \in Nat /\ i.c < h * h
      BY <1>2, <3>2, <3>3
    <3>5. i.c < WORD
      BY <3>2, <3>4
    <3>6. QED
      BY <1>2, <3>5, WordRange
  <2>4. Immediate(i.op, i.c) \in Word
    BY <2>2, <2>3 DEF Immediate
  <2>5. Plain[i.op] \in Operations2
    BY <1>1, <1>4 DEF Plain, Operations2
  <2>6. Immediate(i.op, i.c) \in Int
    BY <2>4, WordIsInt
  <2>7. i.op \in {"ANDI", "ORI", "XORI"} => Immediate(i.op, i.c) < 2^HALF
    BY <2>1 DEF Immediate
  <2>8. QED
    BY <2>4, <2>5, <2>6, <2>7
<1>5. QED
  BY <1>3, <1>4

LEMMA WithImmediateTypes ==
  ASSUME TypeOK, NEW i \in Instructions, WithImmediate(i)
  PROVE  TypeOK'
<1> DEFINE y == Immediate(i.op, i.c)
<1>1. Executes(i, DOMAIN Plain) /\ i.op \in DOMAIN Plain
      /\ Computes(i, Plain[i.op], regs[i.rb], y)
  BY DEF WithImmediate, Executes
<1>2. regs[i.rb] \in Word
  BY OperandsAre
<1>3. y \in Int /\ ((Plain[i.op] \in Operations2 /\ y \in Word) \/ Plain[i.op] \in Shifts)
  BY <1>1, ImmediateIs
<1> HIDE DEF y
<1>4. Value(Plain[i.op], regs[i.rb], y) \in Word
  BY <1>2, <1>3, ValueIsWord
<1>5. regs' \in [Registers -> Word] /\ cop' = cop /\ mem' = mem /\ jumped' \in BOOLEAN
  BY <1>1, <1>4, ComputesTypes
<1>6. alive' \in BOOLEAN /\ turns' \in 0 .. MaxTurns
  BY <1>1, ExecutesTypes
<1>7. QED
  BY <1>1, <1>5, <1>6 DEF TypeOK

Bytes == 0 .. 2^BYTE - 1

LEMMA BytesAre ==
  ASSUME NEW b, b = 2^BYTE
  PROVE  /\ b \in Nat \ {0} /\ 2^HALF = b * b /\ WORD = b * (b * (b * b)) /\ Bytes = 0 .. b - 1
         /\ b <= WORD /\ b * b <= WORD
<1>1. b \in Nat \ {0} /\ 2^HALF = b * b /\ WORD = 2^HALF * 2^HALF
  BY WidthsAre
<1>2. (b * b) * (b * b) = b * (b * (b * b))
  BY <1>1
<1> DEFINE h == b * b
<1>3. h \in Nat \ {0} /\ b <= h
  BY <1>1
<1>4. h <= h * h /\ WORD = h * h
  <2> HIDE DEF h
  <2>1. h <= h * h
    BY <1>3
  <2>2. WORD = h * h
    BY <1>1 DEF h
  <2>3. QED
    BY <2>1, <2>2
<1>5. b <= WORD /\ h <= WORD
  <2> HIDE DEF h
  <2>1. h * h \in Nat
    BY <1>3
  <2>2. QED
    BY <1>1, <1>3, <1>4, <2>1
<1>6. QED
  BY <1>1, <1>2, <1>5 DEF Bytes

LEMMA FetchedIs ==
  ASSUME TypeOK, NEW a \in Nat, NEW n \in {1, 2, 4}, a + n <= 4
  PROVE  /\ Fetched(a, n) \in Word
         /\ n = 2 => Fetched(a, n) < 2^HALF
         /\ n = 1 => Fetched(a, n) < 2^BYTE
<1> DEFINE b == 2^BYTE
<1>1. /\ b \in Nat \ {0} /\ 2^HALF = b * b /\ WORD = b * (b * (b * b)) /\ Bytes = 0 .. b - 1
      /\ b <= WORD /\ b * b <= WORD
  BY BytesAre
<1>2. \A k \in 0 .. 3 : mem[k] \in 0 .. b - 1
  BY DEF TypeOK
<1> DEFINE v2 == mem[2] + b * mem[3]
           v1 == mem[1] + b * v2
           v0 == mem[0] + b * v1
<1>3. Fetched(a, n) = IF n = 4 THEN v0 ELSE IF n = 2 THEN mem[a] + b * mem[a + 1] ELSE mem[a]
  BY DEF Fetched
<1> HIDE DEF b
<1>4. mem[0] \in 0 .. b - 1 /\ mem[1] \in 0 .. b - 1 /\ mem[2] \in 0 .. b - 1
      /\ mem[3] \in 0 .. b - 1
  BY <1>2
<1>5. v2 \in 0 .. b * b - 1
  BY <1>1, <1>4, DigitsAre
<1> HIDE DEF v2
<1>6. v1 \in 0 .. b * (b * b) - 1
  <2>1. b * b \in Nat
    BY <1>1
  <2>2. QED
    BY <1>1, <1>4, <1>5, <2>1, DigitsAre
<1> HIDE DEF v1
<1>7. v0 \in 0 .. b * (b * (b * b)) - 1
  <2>1. b * (b * b) \in Nat
    BY <1>1
  <2>2. QED
    BY <1>1, <1>4, <1>6, <2>1, DigitsAre
<1> HIDE DEF v0
<1>8. CASE n = 4
  <2>1. v0 \in Word
    BY <1>1, <1>7 DEF Word
  <2>2. QED
    BY <1>3, <1>8, <2>1
<1>9. CASE n = 2
  <2>1. a \in 0 .. 3 /\ a + 1 \in 0 .. 3
    BY <1>9
  <2>2. mem[a] \in 0 .. b - 1 /\ mem[a + 1] \in 0 .. b - 1
    BY <1>2, <2>1
  <2>3. mem[a] + b * mem[a + 1] \in 0 .. b * b - 1
    BY <1>1, <2>2, DigitsAre
  <2> DEFINE w == mem[a] + b * mem[a + 1]
             h == b * b
  <2>4. w \in 0 .. h - 1 /\ h <= WORD /\ h \in Nat /\ WORD \in Nat
    BY <1>1, <2>3, WordRange
  <2>5. Fetched(a, n) = w
    BY <1>3, <1>9
  <2> HIDE DEF w, h
  <2>6. w \in Nat /\ w < WORD /\ w < h
    BY <2>4
  <2>7. w \in Word
    BY <2>6, WordRange
  <2>8. Fetched(a, n) < 2^HALF
    BY <1>1, <2>5, <2>6 DEF h
  <2>9. QED
    BY <1>9, <2>5, <2>7, <2>8
<1>10. CASE n = 1
  <2>1. a \in 0 .. 3
    BY <1>10
  <2>2. mem[a] \in 0 .. b - 1
    BY <1>2, <2>1
  <2>3. Fetched(a, n) = mem[a]
    BY <1>3, <1>10
  <2>4. mem[a] \in Nat /\ mem[a] < b /\ mem[a] < WORD
    BY <1>1, <2>2, WordRange
  <2>5. mem[a] \in Word
    BY <2>4, WordRange
  <2>6. QED
    BY <1>10, <2>3, <2>4, <2>5 DEF b
<1>11. QED
  BY <1>8, <1>9, <1>10

LEMMA AtIs ==
  ASSUME TypeOK, NEW i \in Instructions, i.c < 2^HALF
  PROVE  At(i) \in Nat
<1>1. regs[i.rb] \in Word /\ i.c \in Nat
  BY OperandsAre
<1>2. SignExtend(i.c, HALF) \in Word
  BY <1>1, SignExtendIsWord
<1>3. regs[i.rb] + SignExtend(i.c, HALF) \in Int
  <2>1. regs[i.rb] \in Int
    BY <1>1, WordIsInt
  <2>2. SignExtend(i.c, HALF) \in Int
    BY <1>2, WordIsInt
  <2>3. QED
    BY <2>1, <2>2
<1>4. Wrap(regs[i.rb] + SignExtend(i.c, HALF)) \in Word
  BY <1>3, WrapIs
<1>5. QED
  BY <1>4, WordRange DEF At

LEMMA LoadTypes ==
  ASSUME TypeOK, NEW i \in Instructions, Load(i)
  PROVE  TypeOK'
<1> DEFINE n == Width(i.op)
           v == Fetched(At(i), n)
           u == IF i.op \in {"LH", "LB"} THEN SignExtend(v, n * BYTE) ELSE v
<1>1. /\ Executes(i, {"LD", "LH", "LHU", "LB", "LBU"}) /\ i.op \in {"LD", "LH", "LHU", "LB", "LBU"}
      /\ InMemory(i) /\ Assign(regs, i.ra, u) /\ jumped' = FALSE
      /\ cop' = cop /\ mem' = mem
  BY DEF Load, Executes
<1>2. /\ n \in {1, 2, 4} /\ (i.op = "LH" => n = 2) /\ (i.op = "LB" => n = 1)
  BY <1>1 DEF Width
<1>3. At(i) \in Nat /\ At(i) + n <= 4
  <2>1. i.c < 2^HALF
    BY <1>1, InstructionAssumption
  <2>2. At(i) \in Nat
    BY <2>1, AtIs
  <2>3. QED
    BY <1>1, <2>2 DEF InMemory
<1> HIDE DEF n
<1>4. v \in Word /\ (n = 2 => v < 2^HALF) /\ (n = 1 => v < 2^BYTE)
  BY <1>2, <1>3, FetchedIs
<1> HIDE DEF v
<1>5. v \in Nat
  BY <1>4, WordIsInt
<1>6. 2 * BYTE = HALF /\ 1 * BYTE = BYTE
  BY WidthAssumption DEF BYTE, HALF
<1>7. i.op = "LH" => SignExtend(v, n * BYTE) \in Word
  <2>1. ASSUME i.op = "LH" PROVE SignExtend(v, n * BYTE) \in Word
    <3>1. n * BYTE = HALF /\ v < 2^HALF
      BY <1>2, <1>4, <1>6, <2>1
    <3>2. SignExtend(v, HALF) \in Word
      BY <1>5, <3>1, SignExtendIsWord
    <3>3. QED
      BY <3>1, <3>2
  <2>2. QED
    BY <2>1
<1>8. i.op = "LB" => SignExtend(v, n * BYTE) \in Word
  <2>1. ASSUME i.op = "LB" PROVE SignExtend(v, n * BYTE) \in Word
    <3>1. n * BYTE = BYTE /\ v < 2^BYTE
      BY <1>2, <1>4, <1>6, <2>1
    <3>2. SignExtend(v, BYTE) \in Word
      BY <1>5, <3>1, SignExtendIsWord
    <3>3. QED
      BY <3>1, <3>2
  <2>2. QED
    BY <2>1
<1>9. u \in Word
  BY <1>4, <1>7, <1>8
<1> HIDE DEF u
<1>10. regs' \in [Registers -> Word]
  BY <1>1, <1>9, RegistersAre, RegisterSet
<1>11. alive' \in BOOLEAN /\ turns' \in 0 .. MaxTurns
  BY <1>1, ExecutesTypes
<1>12. QED
  BY <1>1, <1>10, <1>11 DEF TypeOK

LEMMA StoreTypes ==
  ASSUME TypeOK, NEW i \in Instructions, Store(i)
  PROVE  TypeOK'
<1> DEFINE n == Width(i.op)
           at == At(i)
           byte(k) == (regs[i.ra] \div 2^(BYTE * (k - at))) % 2^BYTE
<1>1. /\ Executes(i, {"ST", "SH", "SB"}) /\ i.op \in {"ST", "SH", "SB"}
      /\ mem' = [k \in DOMAIN mem |-> IF k \in at .. at + n - 1 THEN byte(k) ELSE mem[k]]
      /\ jumped' = FALSE /\ cop' = cop /\ regs' = regs
  BY DEF Store, Executes
<1>2. at \in Nat
  <2>1. i.c < 2^HALF
    BY <1>1, InstructionAssumption
  <2>2. QED
    BY <2>1, AtIs
<1>3. n \in Nat
  BY <1>1 DEF Width
<1>4. ASSUME NEW k \in 0 .. 3, k \in at .. at + n - 1 PROVE byte(k) \in Bytes
  <2>1. k - at \in Nat /\ BYTE \in Nat
    <3>1. BYTE \in Nat
      BY WidthsAre
    <3> HIDE DEF at, n
    <3>2. QED
      BY <1>2, <1>3, <1>4, <3>1
  <2>2. BYTE * (k - at) \in Nat
    <3> HIDE DEF at
    <3>1. QED
      BY <2>1
  <2>3. 2^(BYTE * (k - at)) \in Nat \ {0}
    BY <2>2, PowerCounts DEF Power
  <2>4. regs[i.ra] \in Int
    BY OperandsAre, WordIsInt
  <2>5. 2^BYTE \in Nat \ {0}
    BY WidthsAre
  <2> DEFINE p == 2^(BYTE * (k - at))
             w == regs[i.ra]
             b == 2^BYTE
  <2>6. p \in Nat \ {0} /\ w \in Int /\ b \in Nat \ {0}
    BY <2>3, <2>4, <2>5
  <2>7. byte(k) = (w \div p) % b /\ Bytes = 0 .. b - 1
    BY DEF Bytes
  <2> HIDE DEF p, w, b, byte
  <2>8. w \div p \in Int
    BY <2>6
  <2>9. ((w \div p) % b) \in 0 .. b - 1
    BY <2>6, <2>8
  <2>10. QED
    BY <2>7, <2>9
<1> HIDE DEF byte, n, at
<1>5. mem \in [0 .. 3 -> Bytes]
  BY DEF TypeOK, Bytes
<1>6. mem' \in [0 .. 3 -> Bytes]
  BY <1>1, <1>4, <1>5
<1>7. alive' \in BOOLEAN /\ turns' \in 0 .. MaxTurns
  BY <1>1, ExecutesTypes
<1>8. mem' \in [0 .. 3 -> 0 .. 2^BYTE - 1]
  BY <1>6 DEF Bytes
<1>9. QED
  BY <1>1, <1>7, <1>8 DEF TypeOK

(* LUI, MOVZ and MOVN.                                                     *)
LEMMA MovesTypes ==
  ASSUME TypeOK, NEW i \in Instructions, LoadUpper(i) \/ MoveIf(i)
  PROVE  TypeOK'
<1>1. CASE LoadUpper(i)
  <2>1. /\ Executes(i, {"LUI"}) /\ Assign(regs, i.ra, Wrap(i.c * 2^HALF))
        /\ jumped' = FALSE /\ cop' = cop /\ mem' = mem
    BY <1>1 DEF LoadUpper
  <2>2. i.c * 2^HALF \in Int
    <3>1. i.c \in Int /\ 2^HALF \in Int
      BY OperandsAre, WidthsAre
    <3> DEFINE h == 2^HALF
    <3>2. i.c \in Int /\ h \in Int
      BY <3>1
    <3> HIDE DEF h
    <3>3. i.c * h \in Int
      BY <3>2
    <3>4. QED
      BY <3>3 DEF h
  <2>3. Wrap(i.c * 2^HALF) \in Word
    BY <2>2, WrapIs
  <2>4. regs' \in [Registers -> Word]
    BY <2>1, <2>3, RegistersAre, RegisterSet
  <2>5. alive' \in BOOLEAN /\ turns' \in 0 .. MaxTurns
    BY <2>1, ExecutesTypes
  <2>6. QED
    BY <2>1, <2>4, <2>5 DEF TypeOK
<1>2. CASE MoveIf(i)
  <2> DEFINE v == IF (i.op = "MOVZ") = (regs[i.rc] = 0) THEN regs[i.rb] ELSE regs[i.ra]
  <2>1. /\ Executes(i, {"MOVZ", "MOVN"}) /\ Assign(regs, i.ra, v)
        /\ jumped' = FALSE /\ cop' = cop /\ mem' = mem
    BY <1>2 DEF MoveIf
  <2>2. v \in Word
    BY OperandsAre
  <2> HIDE DEF v
  <2>3. regs' \in [Registers -> Word]
    BY <2>1, <2>2, RegistersAre, RegisterSet
  <2>4. alive' \in BOOLEAN /\ turns' \in 0 .. MaxTurns
    BY <2>1, ExecutesTypes
  <2>5. QED
    BY <2>1, <2>3, <2>4 DEF TypeOK
<1>3. QED
  BY <1>1, <1>2

(* The comparison and the jumps.                                           *)
LEMMA ComparedFlags ==
  ASSUME TypeOK, NEW i \in Instructions, Compare(i)
  PROVE  LET t == Signed(Wrap(regs[i.ra] - regs[i.rb]))
         IN  /\ regs' \in [Registers -> Word]
             /\ Flag(N)' <=> t < 0
             /\ Flag(Z)' <=> t = 0
<1> DEFINE t == Signed(Wrap(regs[i.ra] - regs[i.rb]))
           neg == t < 0
           zero == t = 0
           w == WithBit(regs[SW], N, neg)
           u == WithBit(w, Z, zero)
<1>1. regs' = [regs EXCEPT ![SW] = u]
  BY DEF Compare
<1>2. SW \in Registers /\ regs \in [Registers -> Word] /\ regs[SW] \in Word
  BY WidthAssumption, RegistersAre
<1>3. neg \in BOOLEAN /\ zero \in BOOLEAN /\ N \in {N, Z, V} /\ Z \in {N, Z, V} /\ N # Z
  BY DEF N, Z, V
<1> HIDE DEF neg, zero
<1>4. w \in Word /\ BitOf(w, N) = Bit(neg)
  BY <1>2, <1>3, WithBitIs
<1> HIDE DEF w
<1>5. u \in Word /\ BitOf(u, N) = BitOf(w, N) /\ BitOf(u, Z) = Bit(zero)
  BY <1>3, <1>4, WithBitIs
<1> HIDE DEF u
<1>6. regs' \in [Registers -> Word] /\ regs'[SW] = u
  BY <1>1, <1>2, <1>5
<1>7. Flag(N)' <=> neg
  BY <1>3, <1>4, <1>5, <1>6 DEF Flag, Bit
<1>8. Flag(Z)' <=> zero
  BY <1>3, <1>5, <1>6 DEF Flag, Bit
<1>9. QED
  BY <1>6, <1>7, <1>8 DEF neg, zero

LEMMA JumpsTypes ==
  ASSUME TypeOK, NEW i \in Instructions, Compare(i) \/ Jump(i) \/ BranchOnRegisters(i)
  PROVE  TypeOK'
<1>1. cop' = cop /\ mem' = mem
  BY DEF Compare, Jump, BranchOnRegisters
<1>2. \E ops : Executes(i, ops)
  BY DEF Compare, Jump, BranchOnRegisters
<1>3. alive' \in BOOLEAN /\ turns' \in 0 .. MaxTurns
  BY <1>2, ExecutesTypes
<1>4. regs' \in [Registers -> Word]
  <2>1. CASE Compare(i)
    BY <2>1, ComparedFlags
  <2>2. CASE ~ Compare(i)
    BY <2>2 DEF Jump, BranchOnRegisters, TypeOK
  <2>3. QED
    BY <2>1, <2>2
<1>5. jumped' \in BOOLEAN
  <2>1. CASE Compare(i)
    BY <2>1 DEF Compare
  <2>2. CASE Jump(i)
    <3>1. i.op \in {"JEQ", "JNE", "JLT", "JGT", "JLE", "JGE"} /\ jumped' = Taken(i.op)
      BY <2>2 DEF Jump, Executes
    <3>2. Taken(i.op) \in BOOLEAN
      BY <3>1 DEF Taken
    <3>3. QED
      BY <3>1, <3>2
  <2>3. CASE BranchOnRegisters(i)
    BY <2>3 DEF BranchOnRegisters
  <2>4. QED
    BY <2>1, <2>2, <2>3
<1>6. QED
  BY <1>1, <1>3, <1>4, <1>5 DEF TypeOK

-----------------------------------------------------------------------------
(* HI and LO.                                                              *)

LEMMA HiLoIs ==
  ASSUME TypeOK, NEW h \in Word, NEW l \in Word, HiLo(h, l)
  PROVE  cop' \in [Coprocessor -> Word] /\ cop'[HI] = h /\ cop'[LO] = l
BY DEF TypeOK, HiLo, Coprocessor, EPC, HI, LO

LEMMA ProductWord ==
  ASSUME NEW a \in Word, NEW b \in Word
  PROVE  Wrap(a * b) \in Word /\ a * b \in Int
<1>1. a \in Int /\ b \in Int
  BY WordIsInt
<1>2. a * b \in Int
  BY <1>1
<1>3. QED
  BY <1>2, WrapIs

(* The operands of a division that does not trap, and what becomes of its  *)
(* quotient and its remainder.                                             *)
LEMMA DivideIs ==
  ASSUME TypeOK, NEW i \in Instructions, Divide(i)
  PROVE  /\ cop' \in [Coprocessor -> Word] /\ multiplied' = <<>>
         /\ divided' # <<>> /\ divided'[2] \in Int /\ divided'[3] \in Int \ {0}
         /\ LET value(v) == IF divided'[1] = "DIV" THEN Signed(v) ELSE v
            IN  /\ value(cop'[LO]) = Quotient(divided'[2], divided'[3])
                /\ value(cop'[HI]) = Remainder(divided'[2], divided'[3])
<1> DEFINE a == regs[i.ra]
           b == regs[i.rb]
           x == IF i.op = "DIV" THEN Signed(a) ELSE a
           y == IF i.op = "DIV" THEN Signed(b) ELSE b
           q == Quotient(x, y)
           r == Remainder(x, y)
           value(v) == IF i.op = "DIV" THEN Signed(v) ELSE v
<1>1. /\ HiLo(Wrap(r), Wrap(q)) /\ divided' = <<i.op, x, y>> /\ multiplied' = <<>>
      /\ ~ Traps(i) /\ i.op \in {"DIV", "DIVU"}
  BY DEF Divide, Executes
<1>2. a \in Word /\ b \in Word
  BY OperandsAre
<1>3. b # 0 /\ ~ (i.op = "DIV" /\ a = MSB /\ b = WORD - 1)
  BY <1>1 DEF Traps
<1> HIDE DEF a, b
<1>4. /\ x \in Int /\ y \in Int \ {0} /\ q \in Int /\ r \in Int
      /\ Wrap(q) \in Word /\ Wrap(r) \in Word
      /\ value(Wrap(q)) = q /\ value(Wrap(r)) = r
  <2>1. CASE i.op = "DIV"
    <3>1. x = Signed(a) /\ y = Signed(b)
      BY <2>1
    <3>2. x \in Ints /\ y \in Ints
      BY <1>2, <3>1, SignedIs
    <3>3. a \in Nat /\ a < WORD /\ b \in Nat /\ b < WORD /\ MSB \in Nat \ {0} /\ WORD = 2 * MSB
      BY <1>2, WordRange
    <3>4. /\ (x = a /\ a < MSB) \/ (x = a - WORD /\ a >= MSB)
          /\ (y = b /\ b < MSB) \/ (y = b - WORD /\ b >= MSB)
      BY <1>2, <3>1, SignedIs
    <3> HIDE DEF x, y, q, r
    <3>5. y # 0 /\ ~ (x = -MSB /\ y = -1)
      <4>1. y # 0
        BY <1>3, <3>3, <3>4
      <4>2. ASSUME x = -MSB, y = -1 PROVE FALSE
        <5>1. a = MSB
          BY <3>3, <3>4, <4>2
        <5>2. b = WORD - 1
          BY <3>3, <3>4, <4>2
        <5>3. QED
          BY <1>3, <2>1, <5>1, <5>2
      <4>3. QED
        BY <4>1, <4>2
    <3>6. q \in Ints /\ r \in Ints
      BY <3>2, <3>5, DivideSigned DEF q, r
    <3>7. q \in Int /\ r \in Int /\ x \in Int /\ y \in Int
      BY <3>2, <3>3, <3>6 DEF Ints
    <3>8. 0 \in Int /\ q = WORD * 0 + q /\ r = WORD * 0 + r
      BY <3>3, <3>7
    <3>9. Signed(Wrap(q)) = q /\ Signed(Wrap(r)) = r
      BY <3>6, <3>7, <3>8, SignedWrap
    <3>10. Wrap(q) \in Word /\ Wrap(r) \in Word
      BY <3>7, WrapIs
    <3>11. QED
      BY <2>1, <3>5, <3>7, <3>9, <3>10
  <2>2. CASE i.op # "DIV"
    <3>1. x = a /\ y = b
      BY <2>2
    <3>2. q \in Word /\ r \in Word
      BY <1>2, <1>3, <3>1, DivideUnsigned
    <3>3. x \in Int /\ y \in Int /\ y # 0
      BY <1>2, <1>3, <3>1, WordIsInt
    <3> HIDE DEF x, y, q, r
    <3>4. q \in Int /\ r \in Int
      BY <3>2, WordIsInt
    <3>5. Wrap(q) = q /\ Wrap(r) = r
      <4>1. 0 \in Int
        OBVIOUS
      <4>2. QED
        BY <3>2, <4>1, WrapForgets
    <3>6. QED
      BY <2>2, <3>2, <3>3, <3>4, <3>5
  <2>3. QED
    BY <2>1, <2>2
<1> HIDE DEF x, y, q, r
<1>5. cop' \in [Coprocessor -> Word] /\ cop'[HI] = Wrap(r) /\ cop'[LO] = Wrap(q)
  BY <1>1, <1>4, HiLoIs
<1>6. divided' # <<>> /\ divided'[1] = i.op /\ divided'[2] = x /\ divided'[3] = y
  BY <1>1
<1>7. QED
  BY <1>1, <1>4, <1>5, <1>6 DEF q, r

(* HI and LO after a multiplication.                                       *)
LEMMA MultiplyIs ==
  ASSUME TypeOK, NEW i \in Instructions, Multiply(i)
  PROVE  /\ cop' \in [Coprocessor -> Word] /\ divided' = <<>>
         /\ ProductInHiLo'
<1> DEFINE a == regs[i.ra]
           b == regs[i.rb]
           t == Wrap(a * b)
           h == IF i.op = "MULT" /\ Signed(t) < 0 THEN WORD - 1 ELSE 0
<1>1. /\ HiLo(h, t) /\ multiplied' = <<i.op, a, b>> /\ divided' = <<>>
      /\ i.op \in {"MULT", "MULTU"}
  BY DEF Multiply, Executes
<1>2. a \in Word /\ b \in Word
  BY OperandsAre
<1> HIDE DEF a, b
<1>3. t \in Word /\ a * b \in Int
  BY <1>2, ProductWord
<1>4. h \in Word
  BY WordRange
<1> HIDE DEF h, t
<1>5. cop' \in [Coprocessor -> Word] /\ cop'[HI] = h /\ cop'[LO] = t
  BY <1>1, <1>3, <1>4, HiLoIs
<1>6. multiplied'[1] = i.op /\ multiplied'[2] = a /\ multiplied'[3] = b
  BY <1>1
<1>7. MSB \in Nat \ {0} /\ WORD = 2 * MSB /\ WORD \in Nat
  BY WordRange
<1>8. ASSUME i.op = "MULT", Signed(a) * Signed(b) \in Ints
      PROVE  Signed(h) * WORD + t = Signed(a) * Signed(b)
  <2> DEFINE v == Signed(a) * Signed(b)
             n == a * b
  <2>1. PICK k \in Int : n = WORD * k + v
    BY <1>2, ProductIs
  <2>2. t = Wrap(n)
    BY DEF t
  <2>3. v \in Ints /\ n \in Int
    BY <1>3, <1>8
  <2> HIDE DEF v, n
  <2>4. Signed(t) = v
    BY <2>1, <2>2, <2>3, SignedWrap
  <2>5. t \in Nat /\ t < WORD /\ ((v = t /\ t < MSB) \/ (v = t - WORD /\ t >= MSB))
    BY <1>3, <2>4, SignedIs, WordRange
  <2>6. h = IF v < 0 THEN WORD - 1 ELSE 0
    BY <1>8, <2>4 DEF h
  <2>7. CASE v < 0
    <3>1. h = WORD - 1
      BY <2>6, <2>7
    <3>2. 2 * h >= WORD
      BY <1>7, <3>1
    <3>3. Signed(h) = -1
      BY <1>7, <3>1, <3>2 DEF Signed
    <3>4. v = t - WORD
      BY <2>5, <2>7
    <3>5. (-1) * WORD + t = t - WORD
      BY <1>7, <2>5
    <3>6. Signed(h) * WORD + t = v
      BY <3>3, <3>4, <3>5
    <3>7. QED
      BY <3>6 DEF v
  <2>8. CASE ~ (v < 0)
    <3>1. h = 0
      BY <2>6, <2>8
    <3>2. Signed(h) = 0
      BY <1>7, <3>1 DEF Signed
    <3>3. v = t
      BY <1>7, <2>5, <2>8
    <3>4. 0 * WORD + t = t
      BY <1>7, <2>5
    <3>5. Signed(h) * WORD + t = v
      BY <3>2, <3>3, <3>4
    <3>6. QED
      BY <3>5 DEF v
  <2>9. QED
    BY <2>7, <2>8
<1>9. ASSUME i.op # "MULT", a * b \in Word
      PROVE  h * WORD + t = a * b
  <2>1. h = 0
    BY <1>9 DEF h
  <2>2. t = a * b
    <3>1. 0 \in Int
      OBVIOUS
    <3>2. QED
      BY <1>9, <3>1, WrapForgets DEF t
  <2>3. t \in Int
    BY <1>3, WordIsInt
  <2>4. 0 * WORD + t = t
    BY <1>7, <2>3
  <2>5. QED
    BY <2>1, <2>2, <2>4
<1>10. Ints = -MSB .. MSB - 1
  BY DEF Ints
<1>11. ProductInHiLo'
  <2>1. CASE i.op = "MULT"
    BY <1>5, <1>6, <1>8, <1>10, <2>1 DEF ProductInHiLo
  <2>2. CASE i.op # "MULT"
    BY <1>5, <1>6, <1>9, <2>2 DEF ProductInHiLo
  <2>3. QED
    BY <2>1, <2>2
<1>12. QED
  BY <1>1, <1>5, <1>11

LEMMA HiLoTypes ==
  ASSUME TypeOK, NEW i \in Instructions, Multiply(i) \/ Divide(i)
  PROVE  TypeOK'
<1>1. cop' \in [Coprocessor -> Word]
  BY MultiplyIs, DivideIs
<1>2. regs' = regs /\ mem' = mem /\ jumped' = FALSE
  BY DEF Multiply, Divide
<1>3. \E ops : Executes(i, ops)
  BY DEF Multiply, Divide
<1>4. alive' \in BOOLEAN /\ turns' \in 0 .. MaxTurns
  BY <1>3, ExecutesTypes
<1>5. QED
  BY <1>1, <1>2, <1>4 DEF TypeOK

LEMMA CoprocessorTypes ==
  ASSUME TypeOK, NEW i \in Instructions, DivideTraps(i) \/ MoveFrom(i) \/ MoveTo(i)
  PROVE  TypeOK'
<1>1. CASE DivideTraps(i)
  BY <1>1 DEF DivideTraps, TypeOK
<1>2. CASE MoveFrom(i)
  <2> DEFINE c == CASE i.op = "MFHI" -> HI [] i.op = "MFLO" -> LO [] i.op = "MFC0" -> i.c
  <2>1. /\ Executes(i, {"MFHI", "MFLO", "MFC0"}) /\ i.op \in {"MFHI", "MFLO", "MFC0"}
        /\ \E v \in Held(c) : Assign(regs, i.ra, v)
        /\ jumped' = FALSE /\ cop' = cop /\ mem' = mem
    BY <1>2 DEF MoveFrom, Executes
  <2>2. i.op = "MFC0" => i.c \in Coprocessor \cup {PC}
    BY InstructionAssumption
  <2>3. HI \in Coprocessor /\ LO \in Coprocessor /\ cop \in [Coprocessor -> Word]
    BY DEF TypeOK, Coprocessor
  <2>4. c \in Coprocessor \cup {PC}
    BY <2>1, <2>2, <2>3
  <2> HIDE DEF c
  <2>5. PICK v \in Held(c) : Assign(regs, i.ra, v)
    BY <2>1
  <2>6. v \in Word
    BY <2>3, <2>4, <2>5 DEF Held
  <2>7. regs' \in [Registers -> Word]
    BY <2>5, <2>6, RegistersAre, RegisterSet
  <2>8. alive' \in BOOLEAN /\ turns' \in 0 .. MaxTurns
    BY <2>1, ExecutesTypes
  <2>9. QED
    BY <2>1, <2>7, <2>8 DEF TypeOK
<1>3. CASE MoveTo(i)
  <2> DEFINE c == CASE i.op = "MTHI" -> HI [] i.op = "MTLO" -> LO
                    [] i.op \in {"MTC0", "C0MOV"} -> i.c
             v == IF i.op = "MTHI" THEN regs[i.ra] ELSE regs[i.rb]
  <2>1. /\ Executes(i, {"MTHI", "MTLO", "MTC0", "C0MOV"})
        /\ cop' = [r \in Coprocessor |-> IF r = c THEN v ELSE cop[r]]
        /\ jumped' = (c = PC) /\ regs' = regs /\ mem' = mem
    BY <1>3 DEF MoveTo
  <2>2. v \in Word
    BY OperandsAre
  <2> HIDE DEF v, c
  <2>3. cop' \in [Coprocessor -> Word]
    BY <2>1, <2>2 DEF TypeOK
  <2>4. alive' \in BOOLEAN /\ turns' \in 0 .. MaxTurns /\ jumped' \in BOOLEAN
    BY <2>1, ExecutesTypes
  <2>5. QED
    BY <2>1, <2>3, <2>4 DEF TypeOK
<1>4. QED
  BY <1>1, <1>2, <1>3

-----------------------------------------------------------------------------
(* The history a comparison leaves: N and Z are those of the difference of *)
(* the two values it saw, which ADD and MUL do not touch, until a word is  *)
(* put in their place.                                                     *)
CompareHeld ==
  compared # <<>> =>
    /\ compared[1] \in Word /\ compared[2] \in Word
    /\ LET t == Signed(Wrap(compared[1] - compared[2]))
       IN  (Flag(N) <=> t < 0) /\ (Flag(Z) <=> t = 0)

(* The history of the last value: it is that of its operands, and what the *)
(* logical instructions take with it is a field of half a word.            *)
PlainOp(op) == IF op \in DOMAIN Plain THEN Plain[op] ELSE op

ValueHeld ==
  last.op # "none" =>
    /\ last.x \in Word /\ last.y \in Int
    /\ last.r = Value(PlainOp(last.op), last.x, last.y)
    /\ last.op \in {"ANDI", "ORI", "XORI"} => last.y \in Word /\ last.y < 2^HALF

IInv == TypeOK /\ CompareHeld /\ HiLoInv /\ ValueHeld

LEMMA InitHolds == Init => IInv
<1> SUFFICES ASSUME Init PROVE IInv
  OBVIOUS
<1>1. 0 \in Word /\ 0 \in Bytes
  BY WordRange, WidthsAre DEF Bytes
<1>2. TypeOK
  <2>1. regs \in [Registers -> Word] /\ jumped \in BOOLEAN /\ alive \in BOOLEAN
    BY DEF Init
  <2>2. cop \in [Coprocessor -> Word]
    BY <1>1 DEF Init
  <2>3. mem \in [0 .. 3 -> Bytes]
    BY <1>1 DEF Init
  <2>4. turns \in 0 .. MaxTurns
    BY WidthAssumption DEF Init
  <2>5. QED
    BY <2>1, <2>2, <2>3, <2>4 DEF TypeOK, Bytes
<1>3. compared = <<>> /\ divided = <<>> /\ multiplied = <<>>
  BY DEF Init
<1>4. CompareHeld /\ HiLoInv
  BY <1>3 DEF CompareHeld, HiLoInv, QuotientAndRemainder, ProductInHiLo
<1>5. ValueHeld
  BY DEF Init, NoResult, ValueHeld
<1>6. QED
  BY <1>2, <1>4, <1>5 DEF IInv

LEMMA TypesStep ==
  ASSUME TypeOK, NEW i \in Instructions, Execute(i)
  PROVE  TypeOK'
<1>1. CASE ThreeRegisters(i)
  BY <1>1, ThreeRegistersTypes
<1>2. CASE CountBits(i)
  BY <1>2, CountBitsTypes
<1>3. CASE WithImmediate(i)
  BY <1>3, WithImmediateTypes
<1>4. CASE LoadUpper(i) \/ MoveIf(i)
  BY <1>4, MovesTypes
<1>5. CASE Load(i)
  BY <1>5, LoadTypes
<1>6. CASE Store(i)
  BY <1>6, StoreTypes
<1>7. CASE Compare(i) \/ Jump(i) \/ BranchOnRegisters(i)
  BY <1>7, JumpsTypes
<1>8. CASE Multiply(i) \/ Divide(i)
  BY <1>8, HiLoTypes
<1>9. CASE DivideTraps(i) \/ MoveFrom(i) \/ MoveTo(i)
  BY <1>9, CoprocessorTypes
<1>10. QED
  BY <1>1, <1>2, <1>3, <1>4, <1>5, <1>6, <1>7, <1>8, <1>9 DEF Execute

(* Only a comparison writes N and Z, and what is written to SW itself.     *)
LEMMA AssignKeepsFlags ==
  ASSUME TypeOK, CompareHeld, NEW r \in [Registers -> Word], NEW a \in Registers, NEW v,
         Assign(r, a, v), \A k \in {N, Z} : BitOf(r[SW], k) = BitOf(regs[SW], k)
  PROVE  CompareHeld'
<1>1. CASE a = SW
  BY <1>1 DEF Assign, CompareHeld
<1>2. CASE a # SW
  <2>1. compared' = compared /\ regs'[SW] = r[SW]
    BY <1>2, WidthAssumption DEF Assign
  <2>2. Flag(N)' = Flag(N) /\ Flag(Z)' = Flag(Z)
    BY <2>1 DEF Flag
  <2>3. QED
    BY <2>1, <2>2 DEF CompareHeld
<1>3. QED
  BY <1>1, <1>2

LEMMA CompareStep ==
  ASSUME TypeOK, CompareHeld, NEW i \in Instructions, Execute(i)
  PROVE  CompareHeld'
<1>1. CASE Compare(i)
  <2> DEFINE t == Signed(Wrap(regs[i.ra] - regs[i.rb]))
  <2>1. compared' = <<regs[i.ra], regs[i.rb]>>
    BY <1>1 DEF Compare
  <2>2. compared'[1] = regs[i.ra] /\ compared'[2] = regs[i.rb]
    BY <2>1
  <2>3. regs[i.ra] \in Word /\ regs[i.rb] \in Word
    BY OperandsAre
  <2>4. t = Signed(Wrap(compared'[1] - compared'[2]))
    BY <2>2
  <2>5. (Flag(N)' <=> t < 0) /\ (Flag(Z)' <=> t = 0)
    BY <1>1, ComparedFlags
  <2> HIDE DEF t
  <2>6. QED
    BY <2>2, <2>3, <2>4, <2>5 DEF CompareHeld
<1>2. CASE ThreeRegisters(i) \/ CountBits(i) \/ WithImmediate(i)
  <2>1. PICK op, x, y : Computes(i, op, x, y)
    BY <1>2 DEF ThreeRegisters, CountBits, WithImmediate
  <2>2. Assign(Flagged(i.op, Value(op, x, y)), i.ra, Value(op, x, y)) /\ i.ra \in Registers
    BY <2>1, InstructionAssumption DEF Computes
  <2>3. QED
    BY <2>2, FlaggedIs, AssignKeepsFlags
<1>3. CASE LoadUpper(i) \/ MoveIf(i) \/ Load(i) \/ MoveFrom(i)
  <2>1. \E v : Assign(regs, i.ra, v)
    BY <1>3 DEF LoadUpper, MoveIf, Load, MoveFrom
  <2>2. i.ra \in Registers
    BY InstructionAssumption
  <2>3. QED
    BY <2>1, <2>2, RegistersAre, AssignKeepsFlags
<1>4. CASE Store(i) \/ Jump(i) \/ BranchOnRegisters(i) \/ Multiply(i) \/ Divide(i)
           \/ DivideTraps(i) \/ MoveTo(i)
  <2>1. compared' = compared /\ regs' = regs
    BY <1>4 DEF Store, Jump, BranchOnRegisters, Multiply, Divide, DivideTraps, MoveTo, history
  <2>2. QED
    BY <2>1 DEF CompareHeld, Flag
<1>5. QED
  BY <1>1, <1>2, <1>3, <1>4 DEF Execute

(* HI and LO change with the history of their own, and with nothing else.  *)
LEMMA HiLoStep ==
  ASSUME TypeOK, HiLoInv, NEW i \in Instructions, Execute(i)
  PROVE  HiLoInv'
<1>1. CASE Divide(i)
  <2> DEFINE x == divided'[2]
             y == divided'[3]
             value(v) == IF divided'[1] = "DIV" THEN Signed(v) ELSE v
             q == Quotient(x, y)
             r == Remainder(x, y)
  <2>1. /\ multiplied' = <<>> /\ x \in Int /\ y \in Int \ {0}
        /\ value(cop'[LO]) = q /\ value(cop'[HI]) = r
    BY <1>1, DivideIs
  <2>2. q * y + r = x /\ Abs(r) < Abs(y) /\ (r # 0 => (r < 0 <=> x < 0))
    BY <2>1, QuotientIs
  <2> HIDE DEF q, r
  <2>3. QuotientAndRemainder'
    BY <2>1, <2>2 DEF QuotientAndRemainder
  <2>4. ProductInHiLo'
    BY <2>1 DEF ProductInHiLo
  <2>5. QED
    BY <2>3, <2>4 DEF HiLoInv
<1>2. CASE Multiply(i)
  <2>1. divided' = <<>> /\ ProductInHiLo'
    BY <1>2, MultiplyIs
  <2>2. QED
    BY <2>1 DEF HiLoInv, QuotientAndRemainder
<1>3. CASE MoveTo(i)
  <2>1. (divided' = <<>> /\ multiplied' = <<>>)
        \/ (/\ divided' = divided /\ multiplied' = multiplied
            /\ cop'[HI] = cop[HI] /\ cop'[LO] = cop[LO])
    BY <1>3 DEF MoveTo, Coprocessor
  <2>2. QED
    BY <2>1 DEF HiLoInv, QuotientAndRemainder, ProductInHiLo
<1>4. CASE ~ Divide(i) /\ ~ Multiply(i) /\ ~ MoveTo(i)
  <2>1. cop' = cop /\ divided' = divided /\ multiplied' = multiplied
    BY <1>4 DEF Execute, ThreeRegisters, CountBits, WithImmediate, Computes, LoadUpper, MoveIf,
                Load, Store, Compare, Jump, BranchOnRegisters, DivideTraps, MoveFrom, history
  <2>2. QED
    BY <2>1 DEF HiLoInv, QuotientAndRemainder, ProductInHiLo
<1>5. QED
  BY <1>1, <1>2, <1>3, <1>4

(* What decides a jump, the difference of two words, has the sign of the   *)
(* difference of the two ints they are when that is an int.                *)
LEMMA CompareDecides ==
  ASSUME CompareHeld
  PROVE  ComparisonDecides
<1> SUFFICES ASSUME compared # <<>>,
                    Signed(compared[1]) - Signed(compared[2]) \in -MSB .. MSB - 1
             PROVE  JumpsFollow(Signed(compared[1]), Signed(compared[2]))
  BY DEF ComparisonDecides
<1> DEFINE a == compared[1]
           b == compared[2]
           x == Signed(a)
           y == Signed(b)
           n == a - b
           t == Signed(Wrap(n))
<1>1. a \in Word /\ b \in Word /\ (Flag(N) <=> t < 0) /\ (Flag(Z) <=> t = 0)
  BY DEF CompareHeld
<1>2. x - y \in Ints
  BY DEF Ints
<1> HIDE DEF a, b, t
<1>3. x \in Int /\ y \in Int
  BY <1>1, SignedIs, WordRange DEF Ints
<1>4. PICK d \in 0 .. 1 : a = x + WORD * d
  BY <1>1, SignedIs
<1>5. PICK e \in 0 .. 1 : b = y + WORD * e
  BY <1>1, SignedIs
<1> HIDE DEF x, y
<1>6. n = WORD * (d - e) + (x - y) /\ d - e \in Int /\ n \in Int
  <2> DEFINE w == WORD
  <2>1. w \in Int
    BY WordRange
  <2>2. a = x + w * d /\ b = y + w * e
    BY <1>4, <1>5
  <2> HIDE DEF w
  <2>3. w * (d - e) = w * d - w * e /\ w * d \in Int /\ w * e \in Int /\ d - e \in Int
    BY <2>1
  <2> DEFINE wd == w * d
             we == w * e
             wde == w * (d - e)
  <2>4. n = wde + (x - y) /\ n \in Int
    <3>1. a = x + wd /\ b = y + we /\ wde = wd - we /\ wd \in Int /\ we \in Int
      BY <2>2, <2>3
    <3> HIDE DEF wd, we, wde
    <3>2. QED
      BY <1>3, <3>1
  <2>5. QED
    BY <2>3, <2>4 DEF w
<1>7. t = x - y
  BY <1>2, <1>6, SignedWrap DEF t
<1>8. (Flag(N) <=> x < y) /\ (Flag(Z) <=> x = y)
  BY <1>1, <1>3, <1>7
<1>9. JumpsFollow(x, y)
  <2>1. ASSUME NEW op \in {"JEQ", "JNE", "JLT", "JGT", "JLE", "JGE"}
        PROVE  Taken(op) = Relation(op, x, y)
    BY <1>3, <1>8 DEF Taken, Relation
  <2>2. QED
    BY <2>1 DEF JumpsFollow
<1>10. QED
  BY <1>9 DEF x, y, a, b

(* Only what computes a value is recorded, with its operands.              *)
LEMMA ValueStep ==
  ASSUME TypeOK, ValueHeld, NEW i \in Instructions, Execute(i)
  PROVE  ValueHeld'
<1>1. ASSUME NEW op, NEW x \in Word, NEW y \in Int, Computes(i, op, x, y), op = PlainOp(i.op),
             i.op \in {"ANDI", "ORI", "XORI"} => y \in Word /\ y < 2^HALF
      PROVE  ValueHeld'
  <2>1. last' = [op |-> i.op, x |-> x, y |-> y, r |-> Value(op, x, y)]
    BY <1>1 DEF Computes
  <2>2. last'.op = i.op /\ last'.x = x /\ last'.y = y /\ last'.r = Value(PlainOp(i.op), x, y)
    BY <1>1, <2>1
  <2>3. QED
    BY <1>1, <2>2 DEF ValueHeld
<1>2. regs[i.rb] \in Word /\ regs[i.rc] \in Word /\ regs[i.rc] \in Int /\ i.c \in Nat
  BY OperandsAre, WordIsInt
<1>3. CASE ThreeRegisters(i)
  <2>1. /\ i.op \in Operations2 \cup Shifts
        /\ Computes(i, i.op, regs[i.rb], regs[i.rc])
    BY <1>3 DEF ThreeRegisters, Executes, Operations2, Shifts
  <2>2. PlainOp(i.op) = i.op /\ i.op \notin {"ANDI", "ORI", "XORI"}
    BY <2>1 DEF PlainOp, Plain, Operations2, Shifts
  <2>3. QED
    BY <1>1, <1>2, <2>1, <2>2
<1>4. CASE CountBits(i)
  <2>1. i.op \in {"CLZ", "CLO"} /\ Computes(i, i.op, regs[i.rb], 0)
    BY <1>4 DEF CountBits, Executes
  <2>2. PlainOp(i.op) = i.op /\ i.op \notin {"ANDI", "ORI", "XORI"} /\ 0 \in Int
    BY <2>1 DEF PlainOp, Plain
  <2>3. QED
    BY <1>1, <1>2, <2>1, <2>2
<1>5. CASE WithImmediate(i)
  <2> DEFINE y == Immediate(i.op, i.c)
  <2>1. /\ i.op \in DOMAIN Plain /\ Computes(i, Plain[i.op], regs[i.rb], y)
    BY <1>5 DEF WithImmediate, Executes
  <2>2. Plain[i.op] = PlainOp(i.op)
    BY <2>1 DEF PlainOp
  <2>3. /\ y \in Int
        /\ i.op \in {"ANDI", "ORI", "XORI"} => y \in Word /\ y < 2^HALF
    BY <2>1, ImmediateIs
  <2> HIDE DEF y
  <2>4. QED
    BY <1>1, <1>2, <2>1, <2>2, <2>3
<1>6. CASE ~ ThreeRegisters(i) /\ ~ CountBits(i) /\ ~ WithImmediate(i)
  <2>1. last' = last
    BY <1>6 DEF Execute, LoadUpper, MoveIf, Load, Store, Compare, Jump, BranchOnRegisters,
                Multiply, Divide, DivideTraps, MoveFrom, MoveTo, history
  <2>2. QED
    BY <2>1 DEF ValueHeld
<1>7. QED
  BY <1>3, <1>4, <1>5, <1>6

(* The bits of a value that ValueHeld describes.                           *)
LEMMA ShiftsMove ==
  ASSUME ValueHeld
  PROVE  ShiftsMoveBits
<1> DEFINE op == PlainOp(last.op)
           x == last.x
           y == last.y
           n == Count(y)
           bit(k) == IF k \in 0 .. BITS - 1 THEN BitOf(x, k) ELSE 0
<1>1. SUFFICES ASSUME op \in Shifts
      PROVE  \A k \in 0 .. BITS - 1 :
               /\ op = "ROL"  => BitOf(last.r, k) = bit((k - n) % BITS)
               /\ op = "ROR"  => BitOf(last.r, k) = bit((k + n) % BITS)
               /\ op = "SHLV" => BitOf(last.r, k) = bit(k - n)
               /\ op = "SHRV" => BitOf(last.r, k) = bit(k + n)
               /\ op = "SRAV" => BitOf(last.r, k) = IF k + n < BITS THEN bit(k + n) ELSE bit(BITS - 1)
  BY <1>1 DEF ShiftsMoveBits, PlainOp, Shifts
<1>2. last.op # "none"
  BY <1>1 DEF PlainOp, Plain, Shifts
<1>3. x \in Word /\ y \in Int /\ last.r = Value(op, x, y)
  BY <1>2 DEF ValueHeld
<1> HIDE DEF op, x, y
<1>4. TAKE k \in 0 .. BITS - 1
<1>5. BITS \in Nat \ {0} /\ n \in 0 .. BITS - 1
  BY <1>3, WidthsAre, CountIs
<1>6. op = "ROL" => BitOf(last.r, k) = bit((k - n) % BITS)
  <2>1. op = "ROL" => last.r = ROL32(x, y)
    BY <1>3 DEF Value
  <2>2. BitOf(ROL32(x, y), k) = BitOf(x, (k - n) % BITS)
    BY <1>3, RotatedBits
  <2>3. (k - n) % BITS \in 0 .. BITS - 1
    BY <1>5
  <2>4. QED
    BY <2>1, <2>2, <2>3
<1>7. op = "ROR" => BitOf(last.r, k) = bit((k + n) % BITS)
  <2>1. op = "ROR" => last.r = ROR32(x, y)
    BY <1>3 DEF Value
  <2>2. BitOf(ROR32(x, y), k) = BitOf(x, (k + n) % BITS)
    BY <1>3, RotatedBits
  <2>3. (k + n) % BITS \in 0 .. BITS - 1
    BY <1>5
  <2>4. QED
    BY <2>1, <2>2, <2>3
<1>8. op = "SRAV" => BitOf(last.r, k) = IF k + n < BITS THEN bit(k + n) ELSE bit(BITS - 1)
  <2>1. op = "SRAV" => last.r = SRA32(x, y)
    BY <1>3 DEF Value
  <2>2. BitOf(SRA32(x, y), k) = IF k + n < BITS THEN BitOf(x, k + n) ELSE BitOf(x, BITS - 1)
    BY <1>3, SraBits
  <2> HIDE DEF n
  <2>3. (k + n < BITS => k + n \in 0 .. BITS - 1) /\ BITS - 1 \in 0 .. BITS - 1
    BY <1>5
  <2>4. QED
    BY <2>1, <2>2, <2>3
<1>9. /\ op = "SHLV" => BitOf(last.r, k) = bit(k - n)
      /\ op = "SHRV" => BitOf(last.r, k) = bit(k + n)
  <2>1. (op = "SHLV" => last.r = Shl(x, y)) /\ (op = "SHRV" => last.r = Shr(x, y))
    BY <1>3 DEF Value
  <2>2. /\ BitOf(Shl(x, y), k) = IF k >= n THEN BitOf(x, k - n) ELSE 0
        /\ BitOf(Shr(x, y), k) = IF k + n < BITS THEN BitOf(x, k + n) ELSE 0
    BY <1>3, ShiftedBits
  <2> HIDE DEF n
  <2>3. (k >= n <=> k - n \in 0 .. BITS - 1) /\ (k + n < BITS <=> k + n \in 0 .. BITS - 1)
    BY <1>5
  <2>4. QED
    BY <2>1, <2>2, <2>3
<1>10. QED
  BY <1>6, <1>7, <1>8, <1>9

LEMMA ImmediatesKeep ==
  ASSUME ValueHeld
  PROVE  ImmediatesKeepUpperHalf
<1> SUFFICES ASSUME last.op \in {"ANDI", "ORI", "XORI"} PROVE ImmediatesKeepUpperHalf
  BY DEF ImmediatesKeepUpperHalf
<1> DEFINE x == last.x
           y == last.y
           r == last.r
<1>1. x \in Word /\ y \in Word /\ y < 2^HALF /\ r = Value(PlainOp(last.op), x, y)
  BY DEF ValueHeld
<1>2. r = CASE last.op = "ANDI" -> BitAnd(x, y)
            [] last.op = "ORI" -> BitOr(x, y)
            [] last.op = "XORI" -> BitXor(x, y)
  BY <1>1 DEF PlainOp, Plain, Value
<1> HIDE DEF x, y, r
<1>3. \A k \in HALF .. BITS - 1 : BitOf(y, k) = 0
  BY <1>1, UpperHalf
<1>4. ASSUME NEW k \in HALF .. BITS - 1
      PROVE  /\ BitOf(BitAnd(x, y), k) = 0 /\ BitOf(BitOr(x, y), k) = BitOf(x, k)
             /\ BitOf(BitXor(x, y), k) = BitOf(x, k)
  <2>1. k \in 0 .. BITS - 1
    BY WidthsAre
  <2>2. /\ BitOf(x, k) \in {0, 1} /\ BitOf(y, k) = 0
        /\ BitOf(BitOr(x, y), k) = IF BitOf(x, k) = 1 THEN 1 ELSE BitOf(y, k)
        /\ BitOf(BitAnd(x, y), k) = IF BitOf(x, k) = 1 THEN BitOf(y, k) ELSE 0
        /\ BitOf(BitXor(x, y), k) = IF BitOf(x, k) = BitOf(y, k) THEN 0 ELSE 1
    BY <1>1, <1>3, <2>1, LogicalBits
  <2>3. QED
    BY <2>2
<1>5. BitAnd(x, y) \in Word /\ BitOr(x, y) \in Word /\ BitXor(x, y) \in Word
  BY <1>1, BitwiseAssumption
<1>6. BitAnd(x, y) < 2^HALF
  BY <1>4, <1>5, UpperHalf
<1>7. BitOr(x, y) \div 2^HALF = x \div 2^HALF /\ BitXor(x, y) \div 2^HALF = x \div 2^HALF
  BY <1>1, <1>4, <1>5, UpperHalf
<1>8. QED
  BY <1>2, <1>6, <1>7 DEF ImmediatesKeepUpperHalf, x, r

LEMMA Steps == IInv /\ [Next]_vars => IInv'
<1> SUFFICES ASSUME IInv, [Next]_vars PROVE IInv'
  OBVIOUS
<1>1. TypeOK /\ CompareHeld /\ HiLoInv /\ ValueHeld
  BY DEF IInv
<1>2. CASE Next
  <2>1. PICK i \in Instructions : Execute(i)
    BY <1>2 DEF Next
  <2>2. TypeOK' /\ CompareHeld' /\ HiLoInv' /\ ValueHeld'
    BY <1>1, <2>1, TypesStep, CompareStep, HiLoStep, ValueStep
  <2>3. QED
    BY <2>2 DEF IInv
<1>3. CASE UNCHANGED vars
  <2>1. /\ regs' = regs /\ cop' = cop /\ mem' = mem /\ jumped' = jumped
        /\ alive' = alive /\ turns' = turns /\ compared' = compared
        /\ multiplied' = multiplied /\ divided' = divided /\ last' = last
    BY <1>3 DEF vars
  <2>2. TypeOK'
    BY <1>1, <2>1 DEF TypeOK
  <2>3. CompareHeld'
    BY <1>1, <2>1 DEF CompareHeld, Flag
  <2>4. HiLoInv'
    BY <1>1, <2>1 DEF HiLoInv, QuotientAndRemainder, ProductInHiLo
  <2>5. ValueHeld'
    BY <1>1, <2>1 DEF ValueHeld
  <2>6. QED
    BY <2>2, <2>3, <2>4, <2>5 DEF IInv
<1>4. QED
  BY <1>2, <1>3

LEMMA InvariantHolds == Spec => []IInv
BY InitHolds, Steps, PTL DEF Spec

-----------------------------------------------------------------------------
(* Registers, HI, LO and the bytes of memory hold words and bytes at every *)
(* width, whatever sums, products, shifts and quotients of run_loop they   *)
(* come from.                                                              *)
THEOREM TypesHold == Spec => []TypeOK
<1>1. IInv => TypeOK
  BY DEF IInv
<1>2. QED
  BY <1>1, InvariantHolds, PTL

(* A jump goes where the relation of the two values last compared says,    *)
(* however many instructions ran since then, when their difference is an   *)
(* int: N and Z, taken from a wrapped difference, are enough for that.     *)
THEOREM JumpsFollowComparison == Spec => []ComparisonDecides
<1>1. IInv => ComparisonDecides
  BY CompareDecides DEF IInv
<1>2. QED
  BY <1>1, InvariantHolds, PTL

(* HI and LO hold C's remainder and quotient of the last DIV or DIVU, or   *)
(* the whole product of the last MULT or MULTU when it fits one word,      *)
(* until an instruction puts something else into them.                     *)
THEOREM HiLoHolds == Spec => []HiLoInv
<1>1. IInv => HiLoInv
  BY DEF IInv
<1>2. QED
  BY <1>1, InvariantHolds, PTL
(* A shift or a rotation leaves the operand's bits where its count says,   *)
(* at 0, at the width and beyond it, and a logical immediate leaves the    *)
(* upper half alone: run_loop's C expressions do what the instructions are *)
(* named for.                                                              *)
THEOREM ValuesHold == Spec => []ValueInv
<1>1. IInv => ValueInv
  BY ShiftsMove, ImmediatesKeep DEF IInv, ValueInv
<1>2. QED
  BY <1>1, InvariantHolds, PTL
==============================================================================
