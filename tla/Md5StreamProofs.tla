-------------------------- MODULE Md5StreamProofs ---------------------------
(***************************************************************************)
(* Proofs about the streaming half of MD5, for every block size, every     *)
(* width of the bit count and every way to cut a message.                  *)
(*                                                                         *)
(* The bit count after n bytes is Count(n), whatever the pieces were: its  *)
(* carry is found from the quotients (CountedIs), and since a word counts  *)
(* whole blocks the index in the buffer is what n leaves of a block        *)
(* (IndexIs).  With the index known, MD5Update appends its input to what   *)
(* was transformed and what waits (UpdateJoins), and MD5Final is two more  *)
(* updates, after which nothing waits.                                     *)
(***************************************************************************)
EXTENDS Md5Stream, FiniteSetTheorems, SequenceTheorems, TLAPS

(* Quotient and remainder are what one multiplication says they are.       *)
LEMMA DivisionIs ==
  ASSUME NEW a \in Int, NEW d \in Nat \ {0}, NEW q \in Int, NEW r \in 0 .. d - 1,
         a = d * q + r
  PROVE  a \div d = q /\ a % d = r
OBVIOUS

LEMMA Division ==
  ASSUME NEW a \in Int, NEW d \in Nat \ {0}
  PROVE  a \div d \in Int /\ (a % d) \in 0 .. d - 1 /\ a = d * (a \div d) + (a % d)
OBVIOUS

LEMMA NatDivision ==
  ASSUME NEW a \in Nat, NEW d \in Nat \ {0}
  PROVE  a \div d \in Nat
OBVIOUS

(* A remainder may be taken of the parts of a sum.                         *)
LEMMA Absorb ==
  ASSUME NEW a \in Int, NEW x \in Int, NEW d \in Nat \ {0}
  PROVE  ((a % d) + x) % d = (a + x) % d
<1> DEFINE q == a \div d
           r == a % d
           p == (r + x) \div d
           s == (r + x) % d
<1>1. q \in Int /\ r \in Int /\ a = d * q + r
  BY Division
<1> HIDE DEF q, r
<1>2. r + x \in Int
  BY <1>1
<1>3. p \in Int /\ s \in 0 .. d - 1 /\ r + x = d * p + s
  BY <1>2, Division
<1> HIDE DEF p, s
<1>4. q + p \in Int /\ a + x \in Int /\ d * (q + p) = d * q + d * p
  BY <1>1, <1>3
<1>5. a + x = d * (q + p) + s
  BY <1>1, <1>3, <1>4
<1>6. (a + x) % d = s
  BY <1>3, <1>4, <1>5, DivisionIs
<1>7. QED
  BY <1>6 DEF s, r

(* Adding whole blocks leaves the remainder.                               *)
LEMMA AddMultiple ==
  ASSUME NEW a \in Int, NEW d \in Nat \ {0}, NEW k \in Int
  PROVE  (a + d * k) % d = a % d
<1> DEFINE q == a \div d
           r == a % d
<1>1. q \in Int /\ r \in 0 .. d - 1 /\ a = d * q + r
  BY Division
<1> HIDE DEF q, r
<1>2. q + k \in Int /\ d * (q + k) = d * q + d * k /\ d * k \in Int
  BY <1>1
<1>3. a + d * k \in Int /\ a + d * k = d * (q + k) + r
  BY <1>1, <1>2
<1>4. QED
  BY <1>1, <1>2, <1>3, DivisionIs DEF r

-----------------------------------------------------------------------------
(* The constants.                                                          *)

LEMMA PowerIsNat ==
  ASSUME NEW k \in Nat
  PROVE  2^k \in Nat \ {0}
<1>1. IsFiniteSet(1 .. k) /\ Cardinality(1 .. k) = k
  BY FS_Interval
<1>2. IsFiniteSet(SUBSET (1 .. k)) /\ Cardinality(SUBSET (1 .. k)) = 2^k
  BY <1>1, FS_SUBSET
<1>3. Cardinality(SUBSET (1 .. k)) \in Nat
  BY <1>2, FS_CardinalityType
<1>4. Cardinality(SUBSET (1 .. k)) # 0
  BY <1>2, FS_EmptySet
<1>5. QED
  BY <1>2, <1>3, <1>4

LEMMA SizesAre ==
  /\ BLOCK \in Nat \ {0} /\ HALF \in Nat \ {0} /\ 2 * HALF < BLOCK
  /\ BYTE \in Nat \ {0} /\ WORD \in Nat \ {0}
<1>1. BYTE * HALF \in Nat
  BY Md5Assumption
<1>2. WORD \in Nat \ {0}
  BY <1>1, PowerIsNat DEF WORD
<1>3. QED
  BY <1>2, Md5Assumption

(* A word counts the bits of whole blocks.                                 *)
LEMMA WordIsBlocks ==
  \E m \in Nat \ {0} : WORD = BYTE * (BLOCK * m)
<1> DEFINE unit == BYTE * BLOCK
           m == WORD \div unit
<1>1. unit \in Nat \ {0} /\ WORD \in Nat \ {0} /\ WORD % unit = 0
  BY SizesAre, Md5Assumption DEF WORD
<1>2. m \in Int /\ WORD = unit * m + 0
  <2> HIDE DEF unit
  <2>1. QED
    BY <1>1, Division
<1> HIDE DEF m
<1>3. m \in Nat \ {0}
  <2> HIDE DEF unit
  <2>1. ASSUME m <= 0 PROVE FALSE
    <3>1. unit * m <= 0
      BY <1>1, <1>2, <2>1
    <3>2. QED
      BY <1>1, <1>2, <3>1
  <2>2. QED
    BY <1>2, <2>1
<1>4. unit * m = BYTE * (BLOCK * m)
  BY <1>3, SizesAre
<1>5. QED
  BY <1>1, <1>2, <1>3, <1>4

-----------------------------------------------------------------------------
(* The bit count.                                                          *)

(* The halves of the number of bits in n bytes.                            *)
Count(n) == <<(BYTE * n) % WORD, ((BYTE * n) \div WORD) % WORD>>

Counts == (0 .. WORD - 1) \X (0 .. WORD - 1)

LEMMA CountTypes ==
  ASSUME NEW n \in Nat
  PROVE  Count(n) \in Counts
<1>1. BYTE * n \in Int /\ (BYTE * n) \div WORD \in Int
  BY SizesAre
<1>2. (BYTE * n) % WORD \in 0 .. WORD - 1
  BY <1>1, SizesAre, Division
<1>3. ((BYTE * n) \div WORD) % WORD \in 0 .. WORD - 1
  BY <1>1, SizesAre, Division
<1>4. QED
  BY <1>2, <1>3 DEF Count, Counts

(* The index MD5Update computes from the low half is what the length       *)
(* leaves of a block, although the low half forgets the bits above it.     *)
LEMMA IndexIs ==
  ASSUME NEW n \in Nat
  PROVE  Index(Count(n)) = n % BLOCK
<1>1. PICK m \in Nat \ {0} : WORD = BYTE * (BLOCK * m)
  BY WordIsBlocks
<1> DEFINE M == BLOCK * m
           q == n \div M
           r == n % M
<1>2. M \in Nat \ {0} /\ WORD = BYTE * M
  BY <1>1, SizesAre
<1> HIDE DEF M
<1>3. q \in Int /\ r \in 0 .. M - 1 /\ n = M * q + r
  <2>1. n \in Int /\ M \in Nat \ {0}
    BY <1>2
  <2>2. QED
    BY <2>1, Division
<1> HIDE DEF q, r
<1>4. (BYTE * n) % WORD = BYTE * r
  <2>1. BYTE * n = (BYTE * M) * q + BYTE * r
    BY <1>2, <1>3, SizesAre
  <2>2. BYTE * r >= 0 /\ BYTE * r <= BYTE * (M - 1) /\ BYTE * r \in Int
    BY <1>2, <1>3, SizesAre
  <2>3. BYTE * (M - 1) = BYTE * M - BYTE /\ BYTE * M \in Int
    BY <1>2, SizesAre
  <2>4. BYTE * r \in 0 .. WORD - 1
    BY <1>2, <2>2, <2>3, SizesAre
  <2>5. BYTE * n \in Int /\ BYTE * n = WORD * q + BYTE * r
    BY <1>2, <2>1, SizesAre
  <2>6. QED
    BY <1>3, <2>4, <2>5, SizesAre, DivisionIs
<1>5. (BYTE * r) \div BYTE = r
  <2>1. BYTE * r \in Int /\ BYTE * r = BYTE * r + 0 /\ r \in Int /\ 0 \in 0 .. BYTE - 1
    BY <1>2, <1>3, SizesAre
  <2>2. QED
    BY <2>1, SizesAre, DivisionIs
<1>6. n % BLOCK = r % BLOCK
  <2>1. M * q = BLOCK * (m * q) /\ m * q \in Int /\ r \in Int
    BY <1>2, <1>3, SizesAre DEF M
  <2>2. n = r + BLOCK * (m * q)
    BY <1>2, <1>3, <2>1
  <2> DEFINE z == m * q
  <2> HIDE DEF z
  <2>3. (r + BLOCK * z) % BLOCK = r % BLOCK
    BY <2>1, SizesAre, AddMultiple DEF z
  <2>4. QED
    BY <2>2, <2>3 DEF z
<1>7. Count(n)[1] = BYTE * r
  BY <1>4 DEF Count
<1>8. QED
  BY <1>5, <1>6, <1>7 DEF Index

(* MD5Update's carry between the halves: after len more bytes the count is *)
(* that of all the bytes.                                                  *)
LEMMA CountedIs ==
  ASSUME NEW n \in Nat, NEW len \in Nat
  PROVE  Counted(Count(n), len) = Count(n + len)
<1> DEFINE b == BYTE * n
           l == len * BYTE
           q1 == b \div WORD
           r1 == b % WORD
           q2 == l \div WORD
           r2 == l % WORD
           low == (r1 + r2) % WORD
           carry == IF low < r2 THEN 1 ELSE 0
<1>1. b \in Nat /\ l \in Nat /\ BYTE * (n + len) = b + l /\ WORD \in Nat \ {0}
  BY SizesAre
<1> HIDE DEF b, l
<1>2. /\ q1 \in Int /\ r1 \in 0 .. WORD - 1 /\ b = WORD * q1 + r1
      /\ q2 \in Int /\ r2 \in 0 .. WORD - 1 /\ l = WORD * q2 + r2
  BY <1>1, Division
<1>3. Counted(Count(n), len) = <<low, ((q1 % WORD) + carry + q2) % WORD>>
  BY DEF Counted, Count, b, l
<1>4. Count(n + len) = <<(b + l) % WORD, ((b + l) \div WORD) % WORD>>
  BY <1>1 DEF Count
<1> HIDE DEF q1, r1, q2, r2
<1>5. low = IF r1 + r2 < WORD THEN r1 + r2 ELSE r1 + r2 - WORD
  <2>1. CASE r1 + r2 < WORD
    <3>1. r1 + r2 \in 0 .. WORD - 1 /\ r1 + r2 \in Int /\ 0 \in Int /\ r1 + r2 = WORD * 0 + (r1 + r2)
      BY <1>1, <1>2, <2>1
    <3>2. (r1 + r2) % WORD = r1 + r2
      BY <1>1, <3>1, DivisionIs
    <3>3. QED
      BY <2>1, <3>2
  <2>2. CASE ~ (r1 + r2 < WORD)
    <3>1. /\ r1 + r2 - WORD \in 0 .. WORD - 1 /\ r1 + r2 \in Int /\ 1 \in Int
          /\ r1 + r2 = WORD * 1 + (r1 + r2 - WORD)
      BY <1>1, <1>2, <2>2
    <3>2. (r1 + r2) % WORD = r1 + r2 - WORD
      BY <1>1, <3>1, DivisionIs
    <3>3. QED
      BY <2>2, <3>2
  <2>3. QED
    BY <2>1, <2>2
<1> HIDE DEF low
<1>6. low \in 0 .. WORD - 1 /\ carry \in 0 .. 1 /\ r1 + r2 = WORD * carry + low
  BY <1>1, <1>2, <1>5
<1> HIDE DEF carry
<1>7. /\ q1 + q2 + carry \in Int
      /\ WORD * (q1 + q2 + carry) = WORD * q1 + WORD * q2 + WORD * carry
  BY <1>1, <1>2, <1>6
<1>8. b + l \in Int /\ b + l = WORD * (q1 + q2 + carry) + low
  <2>1. WORD * q1 \in Int /\ WORD * q2 \in Int /\ WORD * carry \in Int
    BY <1>1, <1>2, <1>6
  <2>2. QED
    BY <1>1, <1>2, <1>6, <1>7, <2>1
<1>9. (b + l) \div WORD = q1 + q2 + carry /\ (b + l) % WORD = low
  BY <1>1, <1>6, <1>7, <1>8, DivisionIs
<1>10. ((q1 % WORD) + carry + q2) % WORD = (q1 + q2 + carry) % WORD
  <2>1. ((q1 % WORD) + (carry + q2)) % WORD = (q1 + (carry + q2)) % WORD
    <3>1. carry + q2 \in Int
      BY <1>2, <1>6
    <3>2. QED
      BY <1>1, <1>2, <3>1, Absorb
  <2>2. q1 % WORD \in Int
    BY <1>1, <1>2
  <2>3. (q1 % WORD) + carry + q2 = (q1 % WORD) + (carry + q2) /\ q1 + q2 + carry = q1 + (carry + q2)
    BY <1>2, <1>6, <2>2
  <2>4. QED
    BY <2>1, <2>3
<1>11. QED
  BY <1>3, <1>4, <1>9, <1>10

(* Together the halves are the number of bits as far as they reach.        *)
LEMMA CountReads ==
  ASSUME NEW n \in Nat
  PROVE  Count(n)[1] + WORD * Count(n)[2] = (BYTE * n) % (WORD * WORD)
<1> DEFINE b == BYTE * n
           q == b \div WORD
           r == b % WORD
           p == q \div WORD
           s == q % WORD
<1>1. b \in Nat /\ WORD \in Nat \ {0} /\ WORD * WORD \in Nat \ {0}
  BY SizesAre
<1>2. Count(n)[1] = r /\ Count(n)[2] = s
  BY DEF Count
<1> HIDE DEF b
<1>3. q \in Int /\ r \in 0 .. WORD - 1 /\ b = WORD * q + r
  BY <1>1, Division
<1> HIDE DEF q, r
<1>4. p \in Int /\ s \in 0 .. WORD - 1 /\ q = WORD * p + s
  BY <1>1, <1>3, Division
<1> HIDE DEF p, s
<1>5. WORD * q = (WORD * WORD) * p + WORD * s
  BY <1>1, <1>4
<1>6. WORD * s + r \in 0 .. (WORD * WORD) - 1
  <2>1. WORD * s >= 0 /\ WORD * s <= WORD * (WORD - 1) /\ WORD * s \in Int
    BY <1>1, <1>4
  <2>2. WORD * (WORD - 1) = WORD * WORD - WORD
    BY <1>1
  <2>3. QED
    BY <1>1, <1>3, <2>1, <2>2
<1>7. b \in Int /\ b = (WORD * WORD) * p + (WORD * s + r)
  <2>1. (WORD * WORD) * p \in Int /\ WORD * s \in Int
    BY <1>1, <1>4
  <2>2. QED
    BY <1>1, <1>3, <1>5, <2>1
<1>8. b % (WORD * WORD) = WORD * s + r
  <2> DEFINE W == WORD * WORD
             t == WORD * s + r
  <2>1. W \in Nat \ {0} /\ t \in 0 .. W - 1 /\ b \in Int /\ b = W * p + t
    BY <1>1, <1>6, <1>7
  <2> HIDE DEF W, t
  <2>2. b % W = t
    BY <1>4, <2>1, DivisionIs
  <2>3. QED
    BY <2>2 DEF W, t
<1>9. r + WORD * s = WORD * s + r
  <2>1. WORD * s \in Int
    BY <1>1, <1>4
  <2>2. QED
    BY <1>3, <2>1
<1>10. QED
  BY <1>2, <1>8, <1>9 DEF b

-----------------------------------------------------------------------------
(* The bytes.                                                              *)

Byte == {"m", "p", "b", "junk"} \X Int

Buffers == [1 .. BLOCK -> Byte]

Contexts == [count : Counts, buffer : Buffers, state : Seq(Byte)]

(* What was transformed, and behind it what waits in the buffer.           *)
Joined(c) == c.state \o SubSeq(c.buffer, 1, Index(c.count))

(* A part of a sequence.                                                   *)
LEMMA PartIs ==
  ASSUME NEW s \in Seq(Byte), NEW a \in Nat \ {0}, NEW b \in Nat,
         a <= b + 1, b <= Len(s)
  PROVE  /\ SubSeq(s, a, b) \in Seq(Byte) /\ Len(SubSeq(s, a, b)) = b - a + 1
         /\ \A i \in 1 .. b - a + 1 : SubSeq(s, a, b)[i] = s[a + i - 1]
<1>1. Len(s) \in Nat /\ s \in [1 .. Len(s) -> Byte]
  BY LenProperties
<1>2. \A i \in a .. b : s[i] \in Byte
  BY <1>1
<1>3. a \in Int /\ b \in Int
  OBVIOUS
<1>4. /\ SubSeq(s, a, b) \in Seq(Byte)
      /\ Len(SubSeq(s, a, b)) = IF a <= b THEN b - a + 1 ELSE 0
      /\ \A i \in 1 .. b - a + 1 : SubSeq(s, a, b)[i] = s[a + i - 1]
  BY <1>2, <1>3, SubSeqProperties
<1>5. QED
  BY <1>3, <1>4

(* A buffer is a sequence of BLOCK bytes.                                  *)
LEMMA BufferIs ==
  ASSUME NEW f \in Buffers
  PROVE  f \in Seq(Byte) /\ Len(f) = BLOCK
<1>1. f \in [1 .. BLOCK -> Byte] /\ BLOCK \in Nat
  BY SizesAre DEF Buffers
<1>2. f \in Seq(Byte)
  BY <1>1, SeqDef
<1>3. Len(f) = BLOCK
  <2>1. Len(f) \in Nat /\ DOMAIN f = 1 .. Len(f) /\ DOMAIN f = 1 .. BLOCK
    BY <1>1, <1>2, LenProperties
  <2>2. QED
    BY <1>1, <2>1
<1>4. QED
  BY <1>2, <1>3

(* memcpy behind the first `at` bytes: what was before them stays, what is *)
(* copied follows.                                                         *)
LEMMA CopyJoins ==
  ASSUME NEW buffer \in Buffers, NEW at \in Nat, NEW bytes \in Seq(Byte),
         at + Len(bytes) <= BLOCK
  PROVE  /\ Copy(buffer, at, bytes) \in Buffers
         /\ SubSeq(Copy(buffer, at, bytes), 1, at + Len(bytes)) =
              SubSeq(buffer, 1, at) \o bytes
<1> DEFINE n == Len(bytes)
           new == Copy(buffer, at, bytes)
<1>1. n \in Nat /\ bytes \in [1 .. n -> Byte] /\ BLOCK \in Nat /\ buffer \in [1 .. BLOCK -> Byte]
  BY LenProperties, SizesAre DEF Buffers
<1>2. new = [j \in 1 .. BLOCK |-> IF j \in at + 1 .. at + n THEN bytes[j - at] ELSE buffer[j]]
  BY DEF Copy
<1> HIDE DEF n, new
<1>3. ASSUME NEW j \in 1 .. BLOCK
      PROVE  /\ new[j] \in Byte
             /\ j <= at => new[j] = buffer[j]
             /\ j \in at + 1 .. at + n => new[j] = bytes[j - at]
  <2>1. CASE j \in at + 1 .. at + n
    <3>1. j - at \in 1 .. n /\ new[j] = bytes[j - at] /\ ~ (j <= at)
      BY <1>1, <1>2, <2>1
    <3>2. QED
      BY <1>1, <3>1
  <2>2. CASE j \notin at + 1 .. at + n
    <3>1. new[j] = buffer[j]
      BY <1>2, <2>2
    <3>2. QED
      BY <1>1, <2>2, <3>1
  <2>3. QED
    BY <2>1, <2>2
<1>4. new \in Buffers
  BY <1>2, <1>3 DEF Buffers
<1>5. new \in Seq(Byte) /\ Len(new) = BLOCK /\ buffer \in Seq(Byte) /\ Len(buffer) = BLOCK
  BY <1>4, BufferIs
<1>6. at + n <= BLOCK /\ at <= BLOCK /\ at + n \in Nat
  BY <1>1 DEF n
<1>7. /\ SubSeq(new, 1, at + n) \in Seq(Byte) /\ Len(SubSeq(new, 1, at + n)) = at + n
      /\ \A i \in 1 .. at + n : SubSeq(new, 1, at + n)[i] = new[i]
  <2>1. /\ SubSeq(new, 1, at + n) \in Seq(Byte) /\ Len(SubSeq(new, 1, at + n)) = (at + n) - 1 + 1
        /\ \A i \in 1 .. (at + n) - 1 + 1 : SubSeq(new, 1, at + n)[i] = new[1 + i - 1]
    BY <1>5, <1>6, PartIs
  <2>2. QED
    BY <1>6, <2>1
<1>8. /\ SubSeq(buffer, 1, at) \in Seq(Byte) /\ Len(SubSeq(buffer, 1, at)) = at
      /\ \A i \in 1 .. at : SubSeq(buffer, 1, at)[i] = buffer[i]
  <2>1. /\ SubSeq(buffer, 1, at) \in Seq(Byte) /\ Len(SubSeq(buffer, 1, at)) = at - 1 + 1
        /\ \A i \in 1 .. at - 1 + 1 : SubSeq(buffer, 1, at)[i] = buffer[1 + i - 1]
    BY <1>5, <1>6, PartIs
  <2>2. QED
    BY <2>1
<1> DEFINE lhs == SubSeq(new, 1, at + n)
           old == SubSeq(buffer, 1, at)
           rhs == old \o bytes
<1> HIDE DEF lhs, old
<1>9. /\ rhs \in Seq(Byte) /\ Len(rhs) = at + n
      /\ \A i \in 1 .. at + n : rhs[i] = IF i <= at THEN old[i] ELSE bytes[i - at]
  <2>1. old \in Seq(Byte) /\ Len(old) = at
    BY <1>8 DEF old
  <2>2. /\ old \o bytes \in Seq(Byte) /\ Len(old \o bytes) = Len(old) + Len(bytes)
        /\ \A i \in 1 .. Len(old) + Len(bytes) :
             (old \o bytes)[i] = IF i <= Len(old) THEN old[i] ELSE bytes[i - Len(old)]
    BY <2>1, ConcatProperties
  <2>3. QED
    BY <2>1, <2>2 DEF n
<1> HIDE DEF rhs
<1>10. \A i \in 1 .. Len(lhs) : lhs[i] = rhs[i]
  <2>1. Len(lhs) = at + n
    BY <1>7 DEF lhs
  <2>2. ASSUME NEW i \in 1 .. at + n PROVE lhs[i] = rhs[i]
    <3>1. lhs[i] = new[i] /\ i \in 1 .. BLOCK
      BY <1>1, <1>6, <1>7 DEF lhs
    <3>2. CASE i <= at
      <4>1. old[i] = buffer[i]
        BY <1>8, <3>2 DEF old
      <4>2. QED
        BY <1>3, <1>9, <3>1, <3>2, <4>1
    <3>3. CASE ~ (i <= at)
      <4>1. i \in at + 1 .. at + n
        BY <1>1, <3>3
      <4>2. QED
        BY <1>3, <1>9, <3>1, <3>3, <4>1
    <3>4. QED
      BY <3>2, <3>3
  <2>3. QED
    BY <2>1, <2>2
<1>11. lhs \in Seq(Byte) /\ Len(lhs) = Len(rhs)
  BY <1>7, <1>9 DEF lhs
<1>12. lhs = rhs
  BY <1>9, <1>10, <1>11, SeqEqual
<1>13. QED
  BY <1>4, <1>12 DEF lhs, rhs, old, n, new

(* Where the brackets go does not matter.                                  *)
LEMMA Associative ==
  ASSUME NEW p \in Seq(Byte), NEW q \in Seq(Byte), NEW r \in Seq(Byte)
  PROVE  (p \o q) \o r = p \o (q \o r)
BY ConcatAssociative

(* Concatenation under a name of its own, for the provers: as \o they try  *)
(* every way to bracket a sequence.                                        *)
Cat(p, q) == p \o q

LEMMA CatIs ==
  ASSUME NEW p \in Seq(Byte), NEW q \in Seq(Byte), NEW r \in Seq(Byte)
  PROVE  Cat(p, q) \in Seq(Byte) /\ Cat(Cat(p, q), r) = Cat(p, Cat(q, r))
<1>1. Cat(p, q) \in Seq(Byte)
  BY ConcatProperties DEF Cat
<1>2. Cat(Cat(p, q), r) = Cat(p, Cat(q, r))
  BY Associative DEF Cat
<1>3. QED
  BY <1>1, <1>2

(* Brackets as MD5Update puts them, and as the message reads.              *)
LEMMA Brackets ==
  ASSUME NEW s \in Seq(Byte), NEW b \in Seq(Byte), NEW x \in Seq(Byte),
         NEW y \in Seq(Byte), NEW z \in Seq(Byte)
  PROVE  Cat(Cat(Cat(s, Cat(b, x)), y), z) = Cat(Cat(s, b), Cat(Cat(x, y), z))
<1>1. Cat(s, b) \in Seq(Byte) /\ Cat(x, y) \in Seq(Byte)
  BY CatIs
<1>2. Cat(s, Cat(b, x)) = Cat(Cat(s, b), x)
  BY CatIs
<1>3. Cat(Cat(Cat(s, b), x), y) = Cat(Cat(s, b), Cat(x, y))
  BY <1>1, CatIs
<1>4. Cat(Cat(Cat(s, b), Cat(x, y)), z) = Cat(Cat(s, b), Cat(Cat(x, y), z))
  BY <1>1, CatIs
<1>5. QED
  BY <1>2, <1>3, <1>4

-----------------------------------------------------------------------------
(* MD5Update.                                                              *)

LEMMA JoinedTypes ==
  ASSUME NEW c \in Contexts, Index(c.count) \in 0 .. BLOCK - 1
  PROVE  /\ SubSeq(c.buffer, 1, Index(c.count)) \in Seq(Byte)
         /\ Len(SubSeq(c.buffer, 1, Index(c.count))) = Index(c.count)
         /\ Joined(c) \in Seq(Byte)
<1> DEFINE x == Index(c.count)
<1>1. c.buffer \in Buffers /\ c.state \in Seq(Byte)
  BY DEF Contexts
<1>2. c.buffer \in Seq(Byte) /\ Len(c.buffer) = BLOCK
  BY <1>1, BufferIs
<1>3. x \in Nat /\ 1 <= x + 1 /\ x <= BLOCK /\ BLOCK \in Nat
  BY SizesAre
<1> HIDE DEF x
<1>4. SubSeq(c.buffer, 1, x) \in Seq(Byte) /\ Len(SubSeq(c.buffer, 1, x)) = x - 1 + 1
  BY <1>2, <1>3, PartIs
<1>5. c.state \o SubSeq(c.buffer, 1, x) \in Seq(Byte)
  BY <1>1, <1>4, ConcatProperties
<1>6. QED
  BY <1>3, <1>4, <1>5 DEF Joined, x

(* However much of a block waits, and however long the input is, after     *)
(* MD5Update what was transformed and what waits is what it was with the   *)
(* input behind it.                                                        *)
LEMMA UpdateJoins ==
  ASSUME NEW c \in Contexts, Len(c.state) % BLOCK = 0,
         NEW n \in Nat, c.count = Count(n), NEW input \in Seq(Byte)
  PROVE  LET d == Update(c, input)
         IN  /\ d \in Contexts /\ Len(d.state) % BLOCK = 0
             /\ d.count = Count(n + Len(input))
             /\ Joined(d) = Joined(c) \o input
<1> DEFINE len     == Len(input)
           index   == Index(c.count)
           partlen == BLOCK - index
           q       == (len - partlen) \div BLOCK
           r       == (len - partlen) % BLOCK
           i       == partlen + q * BLOCK
           first   == SubSeq(input, 1, partlen)
           middle  == SubSeq(input, partlen + 1, i)
           rest    == SubSeq(input, i + 1, len)
           filled  == Copy(c.buffer, index, first)
           waits   == SubSeq(c.buffer, 1, index)
           d       == Update(c, input)
<1>1. len \in Nat /\ BLOCK \in Nat \ {0} /\ n + len \in Nat
  BY LenProperties, SizesAre
<1>2. index = n % BLOCK /\ index \in 0 .. BLOCK - 1
  <2>1. n \in Int /\ (n % BLOCK) \in 0 .. BLOCK - 1
    BY <1>1
  <2>2. index = n % BLOCK
    BY IndexIs
  <2>3. QED
    BY <2>1, <2>2
<1>3. /\ c.count \in Counts /\ c.buffer \in Buffers /\ c.state \in Seq(Byte)
      /\ c = [count |-> c.count, buffer |-> c.buffer, state |-> c.state]
  BY DEF Contexts
<1>4. Counted(c.count, len) = Count(n + len) /\ Count(n + len) \in Counts
  BY <1>1, CountedIs, CountTypes
<1>5. Index(Count(n + len)) = (n + len) % BLOCK
  BY <1>1, IndexIs
<1>6. (n + len) % BLOCK = (index + len) % BLOCK
  <2> HIDE DEF len
  <2>1. n \in Int /\ len \in Int
    BY <1>1
  <2>2. ((n % BLOCK) + len) % BLOCK = (n + len) % BLOCK
    BY <1>1, <2>1, Absorb
  <2>3. QED
    BY <1>2, <2>2
<1>7. waits \in Seq(Byte) /\ Len(waits) = index /\ Joined(c) = c.state \o waits
  <2>1. SubSeq(c.buffer, 1, Index(c.count)) \in Seq(Byte) /\ Len(SubSeq(c.buffer, 1, Index(c.count))) = Index(c.count)
    BY <1>2, JoinedTypes
  <2>2. QED
    BY <2>1 DEF Joined
<1>8. CASE ~ (len >= partlen)
  <2>1. d = [count |-> Count(n + len), buffer |-> Copy(c.buffer, index, input), state |-> c.state]
    BY <1>3, <1>4, <1>8 DEF Update, Completes
  <2> HIDE DEF d, waits
  <2>2. index + len \in 0 .. BLOCK - 1 /\ index + len <= BLOCK /\ index \in Nat
    BY <1>1, <1>2, <1>8
  <2>3. (index + len) % BLOCK = index + len
    <3>1. index + len = BLOCK * 0 + (index + len) /\ index + len \in Int /\ 0 \in Int
      BY <1>1, <2>2
    <3>2. QED
      BY <1>1, <2>2, <3>1, DivisionIs
  <2> HIDE DEF index
  <2>4. /\ Copy(c.buffer, index, input) \in Buffers
        /\ SubSeq(Copy(c.buffer, index, input), 1, index + len) = waits \o input
    BY <1>3, <2>2, CopyJoins DEF waits
  <2>5. d \in Contexts /\ d.count = Count(n + len) /\ d.state = c.state
    BY <1>3, <1>4, <2>1, <2>4 DEF Contexts
  <2>6. Joined(d) = c.state \o (waits \o input)
    <3>1. Index(d.count) = index + len
      BY <1>5, <1>6, <2>3, <2>5
    <3>2. SubSeq(d.buffer, 1, Index(d.count)) = waits \o input
      BY <2>1, <2>4, <3>1
    <3>3. QED
      BY <2>5, <3>2 DEF Joined
  <2>7. c.state \o (waits \o input) = (c.state \o waits) \o input
    <3>1. c.state \in Seq(Byte)
      BY <1>3
    <3>2. waits \in Seq(Byte)
      BY <1>7
    <3>3. (c.state \o waits) \o input = c.state \o (waits \o input)
      BY <3>1, <3>2, Associative
    <3>4. QED
      BY <3>3
  <2>8. QED
    BY <1>7, <2>5, <2>6, <2>7 DEF d
<1>9. CASE len >= partlen
  <2>1. d = [count |-> Count(n + len), buffer |-> Copy(filled, 0, rest),
             state |-> (c.state \o filled) \o middle]
    BY <1>4, <1>9 DEF Update, Completes, MD5Transform
  <2> HIDE DEF d, waits
  <2>2. partlen \in 1 .. BLOCK /\ partlen \in Nat /\ len - partlen \in Nat
    BY <1>1, <1>2, <1>9
  <2>3. q \in Nat /\ r \in 0 .. BLOCK - 1 /\ len - partlen = BLOCK * q + r
    <3> HIDE DEF partlen
    <3>1. len - partlen \in Int
      BY <2>2
    <3>2. QED
      BY <1>1, <2>2, <3>1, Division, NatDivision
  <2> HIDE DEF q, r
  <2>4. /\ q * BLOCK = BLOCK * q /\ q * BLOCK \in Nat
        /\ i \in Nat /\ len - i = r /\ partlen <= i /\ i <= len
    <3>1. q * BLOCK = BLOCK * q /\ q * BLOCK \in Nat
      BY <1>1, <2>3
    <3> HIDE DEF partlen
    <3>2. QED
      BY <1>1, <2>2, <2>3, <3>1
  <2>5. Index(Count(n + len)) = r
    <3>1. index + len = BLOCK * (q + 1) + r /\ index + len \in Int /\ q + 1 \in Int
      <4>1. BLOCK * (q + 1) = BLOCK * q + BLOCK /\ BLOCK * q \in Int
        BY <1>1, <2>3
      <4>2. QED
        BY <1>1, <1>2, <2>3, <4>1
    <3>2. (index + len) % BLOCK = r
      BY <1>1, <2>3, <3>1, DivisionIs
    <3>3. QED
      BY <1>5, <1>6, <3>2
  <2>6. index \in Nat /\ index + partlen = BLOCK
    BY <1>1, <1>2
  <2> HIDE DEF index, partlen, i
  <2>7. first \in Seq(Byte) /\ Len(first) = partlen
    BY <1>1, <2>2, <2>4, PartIs
  <2>8. middle \in Seq(Byte) /\ Len(middle) = q * BLOCK
    <3>1. partlen + 1 \in Nat \ {0} /\ partlen + 1 <= i + 1 /\ i <= len
      BY <2>2, <2>4
    <3>2. middle \in Seq(Byte) /\ Len(middle) = i - (partlen + 1) + 1
      BY <2>4, <3>1, PartIs
    <3>3. QED
      BY <2>2, <2>4, <3>2 DEF i
  <2>9. rest \in Seq(Byte) /\ Len(rest) = r
    <3>1. i + 1 \in Nat \ {0} /\ i + 1 <= len + 1 /\ len <= len
      BY <1>1, <2>4
    <3>2. rest \in Seq(Byte) /\ Len(rest) = len - (i + 1) + 1
      BY <1>1, <3>1, PartIs
    <3>3. QED
      BY <1>1, <2>4, <3>2
  <2>10. (first \o middle) \o rest = input
    <3> HIDE DEF len
    <3>1. first \o middle = SubSeq(input, 1, i)
      <4>1. 1 \in 1 .. Len(input) + 1 /\ partlen \in 1 - 1 .. Len(input) /\ i \in partlen .. Len(input)
        BY <1>1, <2>2, <2>4 DEF len
      <4>2. QED
        BY <4>1, ConcatAdjacentSubSeq
    <3>2. SubSeq(input, 1, i) \o rest = SubSeq(input, 1, len)
      <4>1. 1 \in 1 .. Len(input) + 1 /\ i \in 1 - 1 .. Len(input) /\ len \in i .. Len(input)
        BY <1>1, <2>2, <2>4 DEF len
      <4>2. QED
        BY <4>1, ConcatAdjacentSubSeq
    <3>3. SubSeq(input, 1, len) = input
      BY SubSeqFull DEF len
    <3>4. QED
      BY <3>1, <3>2, <3>3
  <2> HIDE DEF first, middle, rest, len
  <2>11. filled \in Buffers /\ filled = waits \o first
    <3>1. index + Len(first) <= BLOCK
      BY <1>1, <2>6, <2>7
    <3>2. filled \in Buffers /\ SubSeq(filled, 1, index + Len(first)) = waits \o first
      BY <1>3, <2>6, <2>7, <3>1, CopyJoins DEF waits
    <3>3. index + Len(first) = BLOCK
      BY <2>6, <2>7
    <3>4. filled \in Seq(Byte) /\ Len(filled) = BLOCK
      BY <3>2, BufferIs
    <3>5. SubSeq(filled, 1, Len(filled)) = filled
      BY <3>4, SubSeqFull
    <3>6. QED
      BY <3>2, <3>3, <3>4, <3>5
  <2>12. filled \in Seq(Byte) /\ Len(filled) = BLOCK
    BY <2>11, BufferIs
  <2> HIDE DEF filled
  <2>13. Copy(filled, 0, rest) \in Buffers /\ SubSeq(Copy(filled, 0, rest), 1, r) = rest
    <3>1. 0 \in Nat /\ 0 + Len(rest) <= BLOCK /\ 0 + Len(rest) = r
      BY <1>1, <2>3, <2>9
    <3>2. /\ Copy(filled, 0, rest) \in Buffers
          /\ SubSeq(Copy(filled, 0, rest), 1, 0 + Len(rest)) = SubSeq(filled, 1, 0) \o rest
      BY <2>9, <2>11, <3>1, CopyJoins
    <3>3. SubSeq(filled, 1, 0) = <<>>
      BY SubSeqEmpty
    <3>4. <<>> \o rest = rest
      BY <2>9, ConcatEmptySeq
    <3>5. QED
      BY <3>1, <3>2, <3>3, <3>4
  <2>14. /\ (c.state \o filled) \o middle \in Seq(Byte)
         /\ Len((c.state \o filled) \o middle) = Len(c.state) + BLOCK + q * BLOCK
    <3>1. c.state \o filled \in Seq(Byte) /\ Len(c.state \o filled) = Len(c.state) + BLOCK
      BY <1>3, <2>12, ConcatProperties
    <3> DEFINE start == c.state \o filled
    <3>2. start \in Seq(Byte) /\ Len(start) = Len(c.state) + BLOCK
      BY <3>1
    <3> HIDE DEF start
    <3>3. start \o middle \in Seq(Byte) /\ Len(start \o middle) = Len(start) + Len(middle)
      BY <2>8, <3>2, ConcatProperties
    <3>4. QED
      BY <2>8, <3>2, <3>3 DEF start
  <2>15. (Len(c.state) + BLOCK + q * BLOCK) % BLOCK = 0
    <3>1. Len(c.state) \in Int /\ q + 1 \in Int
      BY <1>3, <2>3, LenProperties
    <3>2. Len(c.state) + BLOCK + q * BLOCK = Len(c.state) + BLOCK * (q + 1)
      <4>1. BLOCK * (q + 1) = BLOCK * q + BLOCK /\ BLOCK * q \in Int
        BY <1>1, <2>3
      <4>2. QED
        BY <1>1, <2>4, <3>1, <4>1
    <3>3. (Len(c.state) + BLOCK * (q + 1)) % BLOCK = Len(c.state) % BLOCK
      BY <1>1, <3>1, AddMultiple
    <3>4. QED
      BY <3>2, <3>3
  <2>16. /\ d \in Contexts /\ d.count = Count(n + len) /\ Len(d.state) % BLOCK = 0
         /\ d.state = (c.state \o filled) \o middle
    BY <1>4, <2>1, <2>13, <2>14, <2>15 DEF Contexts
  <2>17. Joined(d) = ((c.state \o (waits \o first)) \o middle) \o rest
    <3>1. SubSeq(d.buffer, 1, Index(d.count)) = rest
      BY <2>1, <2>5, <2>13
    <3>2. QED
      BY <2>11, <2>16, <3>1 DEF Joined
  <2>18. Joined(d) = (c.state \o waits) \o ((first \o middle) \o rest)
    <3> DEFINE s == c.state
    <3>1. s \in Seq(Byte)
      BY <1>3
    <3>2. waits \in Seq(Byte) /\ first \in Seq(Byte)
      BY <1>7, <2>7
    <3>3. middle \in Seq(Byte) /\ rest \in Seq(Byte)
      BY <2>8, <2>9
    <3> HIDE DEF s
    <3>4. Cat(Cat(Cat(s, Cat(waits, first)), middle), rest)
            = Cat(Cat(s, waits), Cat(Cat(first, middle), rest))
      BY <3>1, <3>2, <3>3, Brackets
    <3>5. QED
      BY <2>17, <3>4 DEF s, Cat
  <2>19. QED
    BY <1>7, <2>10, <2>16, <2>18 DEF d, len
<1>10. QED
  BY <1>8, <1>9

-----------------------------------------------------------------------------
(* The message, its padding and its length.                                *)

(* Bytes first .. last of the message, and those from the first on.        *)
LEMMA MessageIs ==
  ASSUME NEW first \in Nat \ {0}, NEW last \in Nat, first <= last + 1
  PROVE  /\ Message(first, last) \in Seq(Byte)
         /\ Len(Message(first, last)) = last - first + 1
         /\ \A i \in 1 .. last - first + 1 : Message(first, last)[i] = <<"m", first + i - 1>>
<1> DEFINE k == last - first + 1
           s == Message(first, last)
<1>1. k \in Nat
  OBVIOUS
<1>2. s = [i \in 1 .. k |-> <<"m", first + i - 1>>]
  BY DEF Message
<1> HIDE DEF k, s
<1>3. s \in [1 .. k -> Byte] /\ DOMAIN s = 1 .. k
  <2>1. \A i \in 1 .. k : <<"m", first + i - 1>> \in Byte
    BY DEF Byte
  <2>2. QED
    BY <1>2, <2>1
<1>4. s \in Seq(Byte)
  BY <1>1, <1>3, SeqDef
<1>5. Len(s) = k
  <2>1. Len(s) \in Nat /\ DOMAIN s = 1 .. Len(s)
    BY <1>4, LenProperties
  <2>2. QED
    BY <1>1, <1>3, <2>1
<1>6. QED
  BY <1>2, <1>4, <1>5 DEF k, s

LEMMA MessageFromFirst ==
  ASSUME NEW n \in Nat
  PROVE  /\ Message(1, n) \in Seq(Byte) /\ Len(Message(1, n)) = n
         /\ \A i \in 1 .. n : Message(1, n)[i] = <<"m", i>>
<1>1. PICK first \in Nat \ {0} : first = 1
  OBVIOUS
<1>2. first <= n + 1
  BY <1>1
<1>3. /\ Message(first, n) \in Seq(Byte) /\ Len(Message(first, n)) = n - first + 1
      /\ \A i \in 1 .. n - first + 1 : Message(first, n)[i] = <<"m", first + i - 1>>
  BY <1>2, MessageIs
<1>4. n - first + 1 = n /\ \A i \in Int : first + i - 1 = i
  BY <1>1
<1>5. QED
  BY <1>1, <1>3, <1>4

(* A piece continues the message.                                          *)
LEMMA MessageJoins ==
  ASSUME NEW n \in Nat, NEW len \in Nat
  PROVE  Message(1, n) \o Message(n + 1, n + len) = Message(1, n + len)
<1> DEFINE a == Message(1, n)
           b == Message(n + 1, n + len)
           c == Message(1, n + len)
<1>1. a \in Seq(Byte) /\ Len(a) = n /\ \A i \in 1 .. n : a[i] = <<"m", i>>
  BY MessageFromFirst
<1>2. b \in Seq(Byte) /\ Len(b) = len /\ \A i \in 1 .. len : b[i] = <<"m", n + i>>
  <2>1. n + 1 \in Nat \ {0} /\ n + len \in Nat /\ n + 1 <= (n + len) + 1
    OBVIOUS
  <2>2. /\ b \in Seq(Byte) /\ Len(b) = (n + len) - (n + 1) + 1
        /\ \A i \in 1 .. (n + len) - (n + 1) + 1 : b[i] = <<"m", (n + 1) + i - 1>>
    BY <2>1, MessageIs
  <2>3. (n + len) - (n + 1) + 1 = len /\ \A i \in Int : (n + 1) + i - 1 = n + i
    OBVIOUS
  <2> HIDE DEF b
  <2>4. QED
    BY <2>2, <2>3
<1>3. /\ c \in Seq(Byte) /\ Len(c) = n + len
      /\ \A i \in 1 .. n + len : c[i] = <<"m", i>>
  <2>1. n + len \in Nat
    OBVIOUS
  <2>2. QED
    BY <2>1, MessageFromFirst
<1> HIDE DEF a, b, c
<1> DEFINE ab == a \o b
<1>4. /\ ab \in Seq(Byte) /\ Len(ab) = n + len
      /\ \A i \in 1 .. n + len : ab[i] = IF i <= n THEN a[i] ELSE b[i - n]
  <2>1. /\ a \o b \in Seq(Byte) /\ Len(a \o b) = Len(a) + Len(b)
        /\ \A i \in 1 .. Len(a) + Len(b) :
             (a \o b)[i] = IF i <= Len(a) THEN a[i] ELSE b[i - Len(a)]
    BY <1>1, <1>2, ConcatProperties
  <2>2. QED
    BY <1>1, <1>2, <2>1
<1> HIDE DEF ab
<1>5. ASSUME NEW i \in 1 .. n + len PROVE ab[i] = c[i]
  <2>1. CASE i <= n
    <3>1. i \in 1 .. n
      BY <2>1
    <3>2. a[i] = <<"m", i>> /\ c[i] = <<"m", i>> /\ ab[i] = a[i]
      BY <1>1, <1>3, <1>4, <3>1
    <3>3. QED
      BY <3>2
  <2>2. CASE ~ (i <= n)
    <3>1. i - n \in 1 .. len /\ n + (i - n) = i
      BY <2>2
    <3>2. b[i - n] = <<"m", i>>
      BY <1>2, <3>1
    <3>3. QED
      BY <1>3, <1>4, <2>2, <3>2
  <2>3. QED
    BY <2>1, <2>2
<1>6. ab = c
  <2>1. \A i \in 1 .. Len(ab) : ab[i] = c[i]
    BY <1>4, <1>5
  <2>2. QED
    BY <1>3, <1>4, <2>1, SeqEqual
<1>7. QED
  BY <1>6 DEF ab, a, b, c

LEMMA PaddingIs ==
  ASSUME NEW n \in Nat
  PROVE  PADDING(n) \in Seq(Byte) /\ Len(PADDING(n)) = n
<1> DEFINE s == PADDING(n)
<1>1. s = [i \in 1 .. n |-> <<"p", IF i = 1 THEN 128 ELSE 0>>]
  BY DEF PADDING
<1> HIDE DEF s
<1>2. s \in [1 .. n -> Byte] /\ DOMAIN s = 1 .. n
  <2>1. \A i \in 1 .. n : <<"p", IF i = 1 THEN 128 ELSE 0>> \in Byte
    BY DEF Byte
  <2>2. QED
    BY <1>1, <2>1
<1>3. s \in Seq(Byte)
  BY <1>2, SeqDef
<1>4. Len(s) \in Nat /\ DOMAIN s = 1 .. Len(s)
  BY <1>3, LenProperties
<1>5. QED
  BY <1>2, <1>3, <1>4 DEF s

LEMMA EncodedIs ==
  ASSUME NEW count \in Counts
  PROVE  Encoded(count) \in Seq(Byte) /\ Len(Encoded(count)) = 2 * HALF
<1> DEFINE byte(w, i) == <<"b", (w \div 2^(BYTE * i)) % 2^BYTE>>
           at(i) == IF i <= HALF THEN byte(count[1], i - 1) ELSE byte(count[2], i - HALF - 1)
           k == 2 * HALF
           s == Encoded(count)
<1>1. HALF \in Nat \ {0} /\ BYTE \in Nat \ {0} /\ WORD \in Nat \ {0} /\ k \in Nat
  BY SizesAre
<1>2. count[1] \in Int /\ count[2] \in Int
  BY <1>1 DEF Counts
<1>3. ASSUME NEW w \in Int, NEW i \in Nat PROVE byte(w, i) \in Byte
  <2> DEFINE d == 2^(BYTE * i)
             m == 2^BYTE
  <2>1. BYTE * i \in Nat /\ BYTE \in Nat
    BY <1>1
  <2>2. d \in Nat \ {0} /\ m \in Nat \ {0}
    BY <2>1, PowerIsNat
  <2> HIDE DEF d, m
  <2>3. w \div d \in Int
    BY <2>2
  <2>4. (w \div d) % m \in Int
    BY <2>2, <2>3
  <2>5. <<"b", (w \div d) % m>> \in Byte
    BY <2>4 DEF Byte
  <2>6. QED
    BY <2>5 DEF d, m
<1>4. s = [i \in 1 .. k |-> at(i)]
  BY DEF Encoded
<1> HIDE DEF byte
<1>5. \A i \in 1 .. k : at(i) \in Byte
  <2>1. ASSUME NEW i \in 1 .. k PROVE at(i) \in Byte
    <3>1. CASE i <= HALF
      <4>1. i - 1 \in Nat
        OBVIOUS
      <4>2. byte(count[1], i - 1) \in Byte
        BY <1>2, <1>3, <4>1
      <4>3. QED
        BY <3>1, <4>2
    <3>2. CASE ~ (i <= HALF)
      <4>1. i - HALF - 1 \in Nat
        BY <1>1, <3>2
      <4>2. byte(count[2], i - HALF - 1) \in Byte
        BY <1>2, <1>3, <4>1
      <4>3. QED
        BY <3>2, <4>2
    <3>3. QED
      BY <3>1, <3>2
  <2>2. QED
    BY <2>1
<1> HIDE DEF at, k, s
<1>6. s \in [1 .. k -> Byte] /\ DOMAIN s = 1 .. k
  BY <1>4, <1>5
<1>7. s \in Seq(Byte)
  BY <1>1, <1>6, SeqDef
<1>8. Len(s) \in Nat /\ DOMAIN s = 1 .. Len(s)
  BY <1>7, LenProperties
<1>9. QED
  BY <1>1, <1>6, <1>7, <1>8 DEF s, k

(* padlen fills the last block up to where the count goes, takes at least  *)
(* one byte and never more than a block: the one number RFC 1321 allows.   *)
LEMMA PadLenIs ==
  ASSUME NEW n \in Nat
  PROVE  LET pad == PadLen(n % BLOCK)
         IN  /\ pad \in 1 .. BLOCK /\ (n + pad + 2 * HALF) % BLOCK = 0
             /\ \A k \in 1 .. BLOCK : (n + k + 2 * HALF) % BLOCK = 0 => k = pad
<1> DEFINE q == n \div BLOCK
           x == n % BLOCK
           h == 2 * HALF
           pad == PadLen(x)
<1>1. BLOCK \in Nat \ {0} /\ h \in Nat \ {0} /\ h < BLOCK
  BY SizesAre
<1>2. q \in Int /\ x \in 0 .. BLOCK - 1 /\ n = BLOCK * q + x
  <2>1. n \in Int
    OBVIOUS
  <2>2. QED
    BY <1>1, <2>1, Division
<1>3. pad = IF x < BLOCK - h THEN BLOCK - h - x ELSE 2 * BLOCK - h - x
  BY DEF PadLen
<1> HIDE DEF q, x, h, pad
<1>4. pad \in 1 .. BLOCK /\ (x + pad + h = BLOCK \/ x + pad + h = 2 * BLOCK)
  BY <1>1, <1>2, <1>3
<1>5. ASSUME NEW k \in 1 .. BLOCK
      PROVE  (n + k + h) % BLOCK = (x + k + h) % BLOCK
  <2>1. k + h \in Int /\ n \in Int /\ x \in Int
    BY <1>1, <1>2
  <2>2. ((n % BLOCK) + (k + h)) % BLOCK = (n + (k + h)) % BLOCK
    BY <1>1, <2>1, Absorb
  <2>3. n + k + h = n + (k + h) /\ x + k + h = x + (k + h)
    BY <1>1, <2>1
  <2>4. QED
    BY <2>2, <2>3 DEF x
<1>6. ASSUME NEW e \in 1 .. 2
      PROVE  (BLOCK * e) % BLOCK = 0
  <2>1. BLOCK * e \in Int /\ BLOCK * e = BLOCK * e + 0 /\ 0 \in 0 .. BLOCK - 1 /\ e \in Int
    BY <1>1
  <2>2. QED
    BY <1>1, <2>1, DivisionIs
<1>7. (n + pad + h) % BLOCK = 0
  <2>1. (n + pad + h) % BLOCK = (x + pad + h) % BLOCK
    BY <1>4, <1>5
  <2>2. (BLOCK * 1) % BLOCK = 0 /\ (BLOCK * 2) % BLOCK = 0
    BY <1>6
  <2>3. BLOCK * 1 = BLOCK /\ BLOCK * 2 = 2 * BLOCK
    BY <1>1
  <2>4. QED
    BY <1>4, <2>1, <2>2, <2>3
<1>8. ASSUME NEW k \in 1 .. BLOCK, (n + k + h) % BLOCK = 0 PROVE k = pad
  <2> DEFINE t == x + k + h
             p == t \div BLOCK
  <2>1. t \in Int /\ 0 < t /\ t < 3 * BLOCK /\ t % BLOCK = 0
    <3>1. t \in Int /\ 0 < t /\ t < 3 * BLOCK
      BY <1>1, <1>2
    <3>2. (n + k + h) % BLOCK = t % BLOCK
      BY <1>5
    <3> HIDE DEF t
    <3>3. QED
      BY <1>8, <3>1, <3>2
  <2>2. p \in Int /\ t = BLOCK * p + 0
    <3> HIDE DEF t
    <3>1. QED
      BY <1>1, <2>1, Division
  <2> HIDE DEF p
  <2>3. p \in 1 .. 2
    <3> HIDE DEF t
    <3>1. ASSUME p <= 0 PROVE FALSE
      <4>1. BLOCK * p <= 0 /\ BLOCK * p \in Int
        BY <1>1, <2>2, <3>1
      <4>2. QED
        BY <2>1, <2>2, <4>1
    <3>2. ASSUME p >= 3 PROVE FALSE
      <4>1. BLOCK * p >= BLOCK * 3 /\ BLOCK * p \in Int
        BY <1>1, <2>2, <3>2
      <4>2. QED
        BY <1>1, <2>1, <2>2, <4>1
    <3>3. QED
      BY <2>2, <3>1, <3>2
  <2>4. t = BLOCK \/ t = 2 * BLOCK
    <3>1. BLOCK * 1 = BLOCK /\ BLOCK * 2 = 2 * BLOCK /\ (p = 1 \/ p = 2)
      BY <1>1, <2>3
    <3> HIDE DEF t
    <3>2. t = BLOCK * 1 \/ t = BLOCK * 2
      <4>1. CASE p = 1
        BY <1>1, <2>2, <4>1
      <4>2. CASE p = 2
        BY <1>1, <2>2, <4>2
      <4>3. QED
        BY <3>1, <4>1, <4>2
    <3>3. QED
      BY <3>1, <3>2
  <2>5. QED
    BY <1>1, <1>2, <1>3, <2>4
<1>9. QED
  BY <1>4, <1>7, <1>8 DEF pad, x, h

(* The padded message of the definition takes the padding of the code.     *)
LEMMA PaddedTakes ==
  ASSUME NEW n \in Nat
  PROVE  Padded(n) = (Message(1, n) \o PADDING(PadLen(n % BLOCK))) \o Encoded(Count(n))
<1> DEFINE fits(k) == k > 0 /\ (n + k + 2 * HALF) % BLOCK = 0
           pad == CHOOSE k \in 1 .. BLOCK : fits(k)
           code == PadLen(n % BLOCK)
<1>1. /\ code \in 1 .. BLOCK /\ (n + code + 2 * HALF) % BLOCK = 0
      /\ \A k \in 1 .. BLOCK : (n + k + 2 * HALF) % BLOCK = 0 => k = code
  BY PadLenIs
<1> HIDE DEF code
<1>2. \E k \in 1 .. BLOCK : fits(k)
  <2>1. code > 0
    BY <1>1
  <2>2. QED
    BY <1>1, <2>1
<1>3. pad \in 1 .. BLOCK /\ fits(pad)
  <2> HIDE DEF fits
  <2>1. QED
    BY <1>2
<1>4. pad = code
  BY <1>1, <1>3
<1>5. Padded(n) = (Message(1, n) \o PADDING(pad)) \o Encoded(Count(n))
  BY DEF Padded, Count
<1>6. QED
  BY <1>4, <1>5 DEF code

-----------------------------------------------------------------------------
(* The steps.                                                              *)

(* Of a context at the end of n bytes, MD5Final makes the padded message.  *)
LEMMA FinalIs ==
  ASSUME NEW c \in Contexts, Len(c.state) % BLOCK = 0, NEW n \in Nat,
         c.count = Count(n), Joined(c) = Message(1, n)
  PROVE  LET padded == Update(c, PADDING(PadLen(Index(c.count))))
             d      == Update(padded, Encoded(c.count))
         IN  /\ d \in Contexts /\ Len(d.state) % BLOCK = 0
             /\ d.state = Padded(n)
<1> DEFINE pad == PadLen(n % BLOCK)
           m == Message(1, n)
           p == PADDING(pad)
           e == Encoded(Count(n))
           padded == Update(c, p)
           d == Update(padded, e)
<1>1. Index(c.count) = n % BLOCK
  BY IndexIs
<1>2. pad \in Nat /\ pad \in 1 .. BLOCK /\ (n + pad + 2 * HALF) % BLOCK = 0
  BY SizesAre, PadLenIs
<1> HIDE DEF pad
<1>3. p \in Seq(Byte) /\ Len(p) = pad
  BY <1>2, PaddingIs
<1>4. e \in Seq(Byte) /\ Len(e) = 2 * HALF
  BY CountTypes, EncodedIs
<1>5. Padded(n) = (m \o p) \o e
  BY PaddedTakes DEF pad
<1>6. d = Update(Update(c, PADDING(PadLen(Index(c.count)))), Encoded(c.count))
  BY <1>1 DEF pad
<1> HIDE DEF m, p, e
<1>7. /\ padded \in Contexts /\ Len(padded.state) % BLOCK = 0
      /\ padded.count = Count(n + pad) /\ Joined(padded) = m \o p
  BY <1>3, UpdateJoins DEF m
<1> HIDE DEF padded
<1>8. n + pad \in Nat /\ n + pad + 2 * HALF \in Nat
  BY <1>2, SizesAre
<1>9. /\ d \in Contexts /\ Len(d.state) % BLOCK = 0
      /\ d.count = Count(n + pad + 2 * HALF) /\ Joined(d) = (m \o p) \o e
  BY <1>4, <1>7, <1>8, UpdateJoins
<1> HIDE DEF d
<1>10. Index(d.count) = 0
  BY <1>2, <1>8, <1>9, IndexIs
<1>11. Joined(d) = d.state
  <2>1. SubSeq(d.buffer, 1, Index(d.count)) = <<>>
    BY <1>10, SubSeqEmpty
  <2>2. d.state \in Seq(Byte)
    BY <1>9 DEF Contexts
  <2>3. d.state \o <<>> = d.state
    BY <2>2, ConcatEmptySeq
  <2>4. QED
    BY <2>1, <2>3 DEF Joined
<1>12. d \in Contexts /\ Len(d.state) % BLOCK = 0 /\ d.state = Padded(n)
  BY <1>5, <1>9, <1>11
<1>13. QED
  BY <1>6, <1>12 DEF d, padded

(* A context as MD5Init leaves it, whatever is in the buffer.              *)
LEMMA EmptyIs ==
  ASSUME NEW buffer \in Buffers
  PROVE  LET c == [count |-> <<0, 0>>, buffer |-> buffer, state |-> <<>>]
         IN  /\ c \in Contexts /\ Len(c.state) % BLOCK = 0
             /\ c.count = Count(0) /\ Joined(c) = Message(1, 0)
<1> DEFINE c == [count |-> <<0, 0>>, buffer |-> buffer, state |-> <<>>]
<1>1. BLOCK \in Nat \ {0} /\ BYTE \in Nat \ {0} /\ WORD \in Nat \ {0}
  BY SizesAre
<1>2. Count(0) = <<0, 0>>
  <2>1. BYTE * 0 = 0
    BY <1>1
  <2>2. 0 \in Int /\ 0 \in 0 .. WORD - 1 /\ 0 = WORD * 0 + 0
    BY <1>1
  <2>3. 0 \div WORD = 0 /\ 0 % WORD = 0
    BY <1>1, <2>2, DivisionIs
  <2>4. QED
    BY <2>1, <2>3 DEF Count
<1>3. <<0, 0>> \in Counts
  BY <1>1 DEF Counts
<1>4. <<>> \in Seq(Byte) /\ Len(<<>>) = 0
  BY EmptySeq
<1>5. 0 % BLOCK = 0
  <2>1. 0 \in Int /\ 0 \in 0 .. BLOCK - 1 /\ 0 = BLOCK * 0 + 0
    BY <1>1
  <2>2. QED
    BY <1>1, <2>1, DivisionIs
<1>6. Index(Count(0)) = 0
  BY <1>5, IndexIs
<1>7. SubSeq(buffer, 1, 0) = <<>>
  BY SubSeqEmpty
<1>8. <<>> \o <<>> = <<>>
  BY <1>4, ConcatEmptySeq
<1>9. Message(1, 0) = <<>>
  <2>1. Message(1, 0) \in Seq(Byte) /\ Len(Message(1, 0)) = 0
    BY MessageFromFirst
  <2>2. QED
    BY <2>1, EmptySeq
<1>10. c \in Contexts /\ Len(c.state) % BLOCK = 0 /\ c.count = Count(0)
  BY <1>2, <1>3, <1>4, <1>5 DEF Contexts
<1>11. Joined(c) = Message(1, 0)
  BY <1>2, <1>6, <1>7, <1>8, <1>9 DEF Joined
<1>12. QED
  BY <1>10, <1>11

(* The inductive invariant: the types, with the types of the buffer and of *)
(* the state which TypeOK leaves out; what the count and the context say   *)
(* while a message comes in; and what the last digest was.                 *)
StreamInv ==
  /\ context \in Contexts /\ Len(context.state) % BLOCK = 0
  /\ total \in 0 .. MaxTotal
  /\ Streaming => context.count = Count(total) /\ Joined(context) = Message(1, total)
  /\ DigestOfMessage

LEMMA InitHolds == Init => StreamInv
<1> SUFFICES ASSUME Init PROVE StreamInv
  OBVIOUS
<1> DEFINE junk == [j \in 1 .. BLOCK |-> <<"junk", 0>>]
<1>1. junk \in Buffers
  BY DEF Buffers, Byte
<1>2. context = [count |-> <<0, 0>>, buffer |-> junk, state |-> <<>>]
  BY DEF Init
<1> HIDE DEF junk
<1>3. context \in Contexts /\ Len(context.state) % BLOCK = 0
  BY <1>1, <1>2, EmptyIs
<1>4. total \in 0 .. MaxTotal
  BY Md5Assumption DEF Init
<1>5. stage = "none"
  BY DEF Init
<1>6. QED
  BY <1>3, <1>4, <1>5 DEF StreamInv, Streaming, DigestOfMessage

LEMMA NextHolds == StreamInv /\ [Next]_vars => StreamInv'
<1> SUFFICES ASSUME StreamInv, [Next]_vars PROVE StreamInv'
  OBVIOUS
<1>1. context \in Contexts /\ Len(context.state) % BLOCK = 0 /\ total \in 0 .. MaxTotal
  BY DEF StreamInv
<1>2. MaxTotal \in Nat /\ total \in Nat
  BY <1>1, Md5Assumption
<1>3. Streaming => context.count = Count(total) /\ Joined(context) = Message(1, total)
  BY DEF StreamInv
<1>4. CASE MD5Init
  <2>1. /\ context.buffer \in Buffers
        /\ context' = [count |-> <<0, 0>>, buffer |-> context.buffer, state |-> <<>>]
    BY <1>1, <1>4 DEF MD5Init, Contexts
  <2>2. total' = 0 /\ stage' = "MD5Init"
    BY <1>4 DEF MD5Init
  <2>3. /\ context' \in Contexts /\ Len(context'.state) % BLOCK = 0
        /\ context'.count = Count(total') /\ Joined(context') = Message(1, total')
    BY <2>1, <2>2, EmptyIs
  <2>4. total' \in 0 .. MaxTotal
    BY <1>2, <2>2
  <2>5. QED
    BY <2>2, <2>3, <2>4 DEF StreamInv, DigestOfMessage, Contexts, Counts, Buffers, Joined, Count
<1>5. ASSUME NEW inputlen \in Pieces, MD5Update(inputlen) PROVE StreamInv'
  <2>1. inputlen \in Nat
    BY Md5Assumption
  <2> DEFINE input == Message(total + 1, total + inputlen)
  <2>2. /\ Streaming /\ total + inputlen <= MaxTotal /\ stage' = "MD5Update"
        /\ context' = Update(context, input) /\ total' = total + inputlen
    BY <1>5 DEF MD5Update, Streaming
  <2>3. input \in Seq(Byte) /\ Len(input) = inputlen
    <3>1. total + 1 \in Nat \ {0} /\ total + inputlen \in Nat /\ total + 1 <= (total + inputlen) + 1
      BY <1>2, <2>1
    <3>2. input \in Seq(Byte) /\ Len(input) = (total + inputlen) - (total + 1) + 1
      BY <3>1, MessageIs
    <3>3. (total + inputlen) - (total + 1) + 1 = inputlen
      BY <1>2, <2>1
    <3>4. QED
      BY <3>2, <3>3
  <2>4. Message(1, total) \o input = Message(1, total + inputlen)
    BY <1>2, <2>1, MessageJoins
  <2> HIDE DEF input
  <2>5. context.count = Count(total) /\ Joined(context) = Message(1, total)
    BY <1>3, <2>2
  <2>6. LET d == Update(context, input)
        IN  /\ d \in Contexts /\ Len(d.state) % BLOCK = 0
            /\ d.count = Count(total + Len(input)) /\ Joined(d) = Joined(context) \o input
    BY <1>1, <1>2, <2>3, <2>5, UpdateJoins
  <2>7. /\ context' \in Contexts /\ Len(context'.state) % BLOCK = 0
        /\ context'.count = Count(total') /\ Joined(context') = Message(1, total')
    BY <2>2, <2>3, <2>4, <2>5, <2>6
  <2>8. total' \in 0 .. MaxTotal
    BY <1>2, <2>1, <2>2
  <2>9. QED
    BY <2>2, <2>7, <2>8 DEF StreamInv, DigestOfMessage, Contexts, Counts, Buffers, Joined, Count
<1>6. CASE MD5Final
  <2> DEFINE padded == Update(context, PADDING(PadLen(Index(context.count))))
             d == Update(padded, Encoded(context.count))
  <2>1. /\ Streaming /\ stage' = "MD5Final" /\ context' = d /\ digest' = context'.state
        /\ total' = total
    BY <1>6 DEF MD5Final, Streaming
  <2>2. context.count = Count(total) /\ Joined(context) = Message(1, total)
    BY <1>3, <2>1
  <2>3. d \in Contexts /\ Len(d.state) % BLOCK = 0 /\ d.state = Padded(total)
    BY <1>1, <1>2, <2>2, FinalIs
  <2> HIDE DEF padded, d
  <2>4. /\ context' \in Contexts /\ Len(context'.state) % BLOCK = 0
        /\ total' \in 0 .. MaxTotal /\ digest' = Padded(total)
    BY <1>1, <2>1, <2>3
  <2>5. DigestOfMessage'
    <3>1. Padded(total) = Padded(total')
      BY <2>1
    <3>2. digest' = Padded(total')
      BY <2>4, <3>1
    <3>3. QED
      BY <3>2 DEF DigestOfMessage, Padded, Message, PADDING, Encoded, WORD
  <2>6. ~ Streaming'
    BY <2>1 DEF Streaming
  <2>7. QED
    BY <2>4, <2>5, <2>6 DEF StreamInv, Contexts, Counts, Buffers
<1>7. CASE UNCHANGED vars
  BY <1>7 DEF vars, StreamInv, Streaming, DigestOfMessage, Joined, Count, Contexts, Counts, Buffers
<1>8. QED
  BY <1>4, <1>5, <1>6, <1>7 DEF Next

-----------------------------------------------------------------------------
(* The theorems.                                                           *)

(* StreamInv holds of every context, in whatever order it is used.         *)
THEOREM StreamInvariant == Spec => []StreamInv
BY InitHolds, NextHolds, PTL DEF Spec

(* Only whole blocks are ever transformed, the halves of the count stay    *)
(* words, and across every carry they are the length in bits.              *)
THEOREM CountsTheMessage == Spec => []ContextInv
<1>1. StreamInv => ContextInv
  <2> SUFFICES ASSUME StreamInv PROVE ContextInv
    OBVIOUS
  <2>1. context.count \in (0 .. WORD - 1) \X (0 .. WORD - 1)
    BY DEF StreamInv, Contexts, Counts
  <2>2. TypeOK
    BY <2>1 DEF TypeOK, StreamInv
  <2>3. total \in Nat
    BY Md5Assumption DEF StreamInv
  <2>4. CountIsLength
    <3>1. Streaming => context.count = Count(total)
      BY DEF StreamInv
    <3>2. Count(total)[1] + WORD * Count(total)[2] = (BYTE * total) % (WORD * WORD)
      BY <2>3, CountReads
    <3>3. QED
      BY <3>1, <3>2 DEF CountIsLength
  <2>5. QED
    BY <2>2, <2>4 DEF ContextInv
<1>2. QED
  BY <1>1, StreamInvariant, PTL

(* No byte of a message is lost, repeated or left from an earlier one,     *)
(* wherever MD5Update cuts it.                                             *)
THEOREM NoByteDropped == Spec => []NothingDropped
<1>1. StreamInv => NothingDropped
  BY DEF StreamInv, NothingDropped, Joined
<1>2. QED
  BY <1>1, StreamInvariant, PTL

(* MD5Final feeds MD5Transform the padded message of RFC 1321.             *)
THEOREM DigestIsOfMessage == Spec => []DigestOfMessage
<1>1. StreamInv => DigestOfMessage
  BY DEF StreamInv
<1>2. QED
  BY <1>1, StreamInvariant, PTL
==============================================================================
