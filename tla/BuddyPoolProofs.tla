--------------------------- MODULE BuddyPoolProofs ---------------------------
(***************************************************************************)
(* Proofs about BuddyPool for every number of buckets, pages and every     *)
(* threshold.  The arithmetic of sizes comes first: powers of two, the     *)
(* highest bit of a request and what its bucket holds.  Then come adjacent *)
(* blocks, and what moving blocks does to the partition of the pool:       *)
(* taking, giving back, and calling the same bytes by another bucket, of   *)
(* which splits and merges are made; what is known of a call that has      *)
(* begun; the inductive invariant with the theorems; and the refinement of *)
(* HeapSpec.                                                               *)
(*                                                                         *)
(* The second half is about FreeList, where the lists are links.  What n   *)
(* rounds of a loop do is told by a function on 0 .. n, and induction over *)
(* the rounds is the choice of a least number.  Lists are well linked when *)
(* every link leads to the next member: then a walk along them finds the   *)
(* members in order and no others.  Writing one link takes members out or  *)
(* puts members in, and so each step is one of BuddyPool.                  *)
(***************************************************************************)
EXTENDS FreeList, MCSizeClass, FiniteSetTheorems, WellFoundedInduction, TLAPS

(* A set of natural numbers that is not empty has a least one.             *)
LEMMA LeastNatural ==
  ASSUME NEW S \in SUBSET Nat, S # {}
  PROVE  \E x \in S : \A y \in S : x <= y
<1> DEFINE R == {ss \in Nat \X Nat : ss[1] < ss[2]}
<1>1. OpToRel(<, Nat) = R
  BY DEF OpToRel
<1>2. IsWellFoundedOn(R, Nat)
  BY <1>1, NatLessThanWellFounded
<1>3. \A x, y \in Nat : <<x, y>> \in R <=> x < y
  OBVIOUS
<1> HIDE DEF R
<1>4. PICK x \in S : \A y \in S : ~ (<<y, x>> \in R)
  BY <1>2, WFMin
<1>5. ASSUME NEW y \in S PROVE x <= y
  <2>1. x \in Nat /\ y \in Nat
    OBVIOUS
  <2>2. ~ (y < x)
    BY <1>3, <1>4, <2>1
  <2>3. QED
    BY <2>1, <2>2
<1>6. QED
  BY <1>5

-----------------------------------------------------------------------------
(* The powers of two.                                                      *)

Power(k) == 2^k

LEMMA PowerCounts ==
  ASSUME NEW k \in Nat
  PROVE  Power(k) = Cardinality(SUBSET (1 .. k)) /\ Power(k) \in Nat \ {0}
<1>1. IsFiniteSet(1 .. k) /\ Cardinality(1 .. k) = k
  BY FS_Interval
<1>2. IsFiniteSet(SUBSET (1 .. k)) /\ Cardinality(SUBSET (1 .. k)) = 2^k
  BY <1>1, FS_SUBSET
<1>3. Cardinality(SUBSET (1 .. k)) \in Nat
  BY <1>2, FS_CardinalityType
<1>4. Cardinality(SUBSET (1 .. k)) # 0
  BY <1>2, FS_EmptySet
<1>5. QED
  BY <1>2, <1>3, <1>4 DEF Power

(* Half the subsets of 1 .. k + 1 hold k + 1, the other half does not.     *)
LEMMA PowerDoubles ==
  ASSUME NEW k \in Nat
  PROVE  Power(k + 1) = 2 * Power(k)
<1> DEFINE A == SUBSET (1 .. k)
           B == {t \cup {k + 1} : t \in A}
<1>1. SUBSET (1 .. k + 1) = A \cup B
  <2>1. ASSUME NEW t \in SUBSET (1 .. k + 1), t \notin A PROVE t \in B
    <3>1. k + 1 \in t
      BY <2>1
    <3>2. t \ {k + 1} \in A
      OBVIOUS
    <3>3. t = (t \ {k + 1}) \cup {k + 1}
      BY <3>1
    <3>4. QED
      BY <3>2, <3>3
  <2>2. A \subseteq SUBSET (1 .. k + 1) /\ B \subseteq SUBSET (1 .. k + 1)
    <3>1. \A i \in 1 .. k : i \in 1 .. k + 1
      OBVIOUS
    <3>2. k + 1 \in 1 .. k + 1
      OBVIOUS
    <3>3. A \subseteq SUBSET (1 .. k + 1)
      BY <3>1
    <3>4. ASSUME NEW t \in A PROVE t \cup {k + 1} \subseteq 1 .. k + 1
      BY <3>1, <3>2
    <3>5. QED
      BY <3>3, <3>4
  <2>3. QED
    BY <2>1, <2>2
<1>2. A \cap B = {}
  OBVIOUS
<1>3. IsFiniteSet(A) /\ Cardinality(A) = Power(k)
  <2>1. IsFiniteSet(1 .. k)
    BY FS_Interval
  <2>2. QED
    BY <2>1, FS_SUBSET, PowerCounts
<1>4. IsFiniteSet(B) /\ Cardinality(B) = Cardinality(A)
  <2> DEFINE f == [t \in A |-> t \cup {k + 1}]
  <2>1. f \in Bijection(A, B)
    <3>1. f \in [A -> B]
      OBVIOUS
    <3>2. \A u \in B : \E t \in A : f[t] = u
      OBVIOUS
    <3>3. ASSUME NEW t \in A, NEW u \in A, f[t] = f[u] PROVE t = u
      <4>1. k + 1 \notin t /\ k + 1 \notin u /\ t \cup {k + 1} = u \cup {k + 1}
        BY <3>3
      <4>2. QED
        BY <4>1
    <3>4. \A t, u \in A : f[t] = f[u] => t = u
      BY <3>3
    <3> HIDE DEF f, A, B
    <3>5. f \in Injection(A, B)
      BY <3>1, <3>4, Zenon DEF Injection, IsInjective
    <3>6. f \in Surjection(A, B)
      BY <3>1, <3>2, Zenon DEF Surjection
    <3>7. QED
      BY <3>5, <3>6, Zenon DEF Bijection
  <2>2. ExistsBijection(A, B)
    BY <2>1 DEF ExistsBijection
  <2>3. QED
    BY <1>3, <2>2, FS_Bijection
<1>5. Cardinality(A \cup B) = Cardinality(A) + Cardinality(B) - Cardinality(A \cap B)
  BY <1>3, <1>4, FS_Union
<1>6. Cardinality(A \cap B) = 0
  BY <1>2, FS_EmptySet
<1>7. Power(k + 1) = Cardinality(SUBSET (1 .. k + 1)) /\ Power(k) \in Nat
  <2>1. k + 1 \in Nat
    OBVIOUS
  <2>2. QED
    BY <2>1, PowerCounts
<1> HIDE DEF A, B
<1>8. Power(k + 1) = Cardinality(A \cup B)
  BY <1>1, <1>7
<1>9. Cardinality(A \cup B) = Power(k) + Power(k) - 0
  BY <1>3, <1>4, <1>5, <1>6
<1>10. QED
  BY <1>7, <1>8, <1>9

LEMMA PowerOfZero == Power(0) = 1
BY DEF Power

(* A greater exponent gives at least twice as much.                        *)
LEMMA PowerGrows ==
  ASSUME NEW j \in Nat, NEW k \in Nat, j < k
  PROVE  2 * Power(j) <= Power(k)
<1> DEFINE S == {m \in Nat : j < m /\ ~ (2 * Power(j) <= Power(m))}
<1>1. SUFFICES ASSUME S # {} PROVE FALSE
  BY <1>1
<1>2. PICK m \in S : \A y \in S : m <= y
  BY <1>1, LeastNatural
<1>3. m \in Nat /\ j < m /\ ~ (2 * Power(j) <= Power(m))
  OBVIOUS
<1> HIDE DEF S
<1>4. m - 1 \in Nat /\ Power((m - 1) + 1) = 2 * Power(m - 1) /\ (m - 1) + 1 = m
  BY <1>3, PowerDoubles
<1>5. Power(m - 1) \in Nat \ {0} /\ Power(j) \in Nat \ {0}
  BY <1>4, PowerCounts
<1>6. CASE m - 1 = j
  BY <1>3, <1>4, <1>5, <1>6
<1>7. CASE m - 1 # j
  <2>1. m - 1 \notin S /\ j < m - 1
    BY <1>2, <1>3, <1>4, <1>7
  <2>2. 2 * Power(j) <= Power(m - 1)
    BY <1>4, <2>1 DEF S
  <2>3. QED
    BY <1>3, <1>4, <1>5, <2>2
<1>8. QED
  BY <1>6, <1>7

LEMMA PowerExceeds ==
  ASSUME NEW n \in Nat
  PROVE  n < Power(n)
<1> DEFINE S == {m \in Nat : ~ (m < Power(m))}
<1>1. SUFFICES ASSUME S # {} PROVE FALSE
  BY <1>1
<1>2. PICK m \in S : \A y \in S : m <= y
  BY <1>1, LeastNatural
<1>3. m \in Nat /\ ~ (m < Power(m))
  OBVIOUS
<1> HIDE DEF S
<1>4. m # 0
  BY <1>3, PowerOfZero
<1>5. m - 1 \in Nat /\ Power((m - 1) + 1) = 2 * Power(m - 1) /\ (m - 1) + 1 = m
  BY <1>3, <1>4, PowerDoubles
<1>6. m - 1 \notin S
  BY <1>2, <1>3, <1>5
<1>7. m - 1 < Power(m - 1) /\ Power(m - 1) \in Nat
  BY <1>5, <1>6, PowerCounts DEF S
<1>8. QED
  BY <1>3, <1>5, <1>7

(* The code's loop finds the one position whose power n lies above.        *)
LEMMA TopBitIs ==
  ASSUME NEW n \in Nat \ {0}
  PROVE  LET k == TopBit(n)
         IN  k \in Nat /\ Power(k) <= n /\ n < 2 * Power(k)
<1> DEFINE S == {m \in Nat : n < Power(m)}
<1>1. n \in S
  BY PowerExceeds
<1>2. PICK m \in S : \A y \in S : m <= y
  BY <1>1, LeastNatural
<1>3. m \in Nat /\ n < Power(m) /\ m <= n
  BY <1>1, <1>2
<1>4. m # 0
  BY <1>3, PowerOfZero
<1>5. m - 1 \in 0 .. n /\ ~ (n < Power(m - 1))
  BY <1>2, <1>3, <1>4
<1> HIDE DEF S
<1>6. Power(m - 1) <= n /\ n < Power((m - 1) + 1)
  <2>1. m - 1 \in Nat /\ (m - 1) + 1 = m
    BY <1>3, <1>4
  <2>2. Power(m - 1) \in Nat
    BY <2>1, PowerCounts
  <2>3. QED
    BY <1>3, <1>5, <2>1, <2>2
<1>7. \E k \in 0 .. n : 2^k <= n /\ n < 2^(k + 1)
  BY <1>5, <1>6 DEF Power
<1> DEFINE k == TopBit(n)
<1>8. k \in 0 .. n /\ 2^k <= n /\ n < 2^(k + 1)
  BY <1>7 DEF TopBit
<1> HIDE DEF k
<1>9. k \in Nat /\ Power(k) <= n /\ n < Power(k + 1)
  BY <1>8 DEF Power
<1>10. Power(k + 1) = 2 * Power(k)
  BY <1>9, PowerDoubles
<1>11. QED
  BY <1>9, <1>10 DEF k

-----------------------------------------------------------------------------
(* Rounding.                                                               *)

LEMMA RoundUpIs ==
  ASSUME NEW n \in Nat, NEW unit \in Nat \ {0}
  PROVE  /\ RoundUp(n, unit) \in Nat
         /\ n <= RoundUp(n, unit) /\ RoundUp(n, unit) < n + unit
         /\ \E q \in Nat : RoundUp(n, unit) = unit * q /\ RoundUp(n, unit) \div unit = q
<1> DEFINE y == n + unit - 1
           q == y \div unit
<1>1. y \in Nat
  OBVIOUS
<1>2. q \in Nat /\ q * unit <= y /\ y < q * unit + unit /\ q * unit \in Nat
  <2> HIDE DEF y
  <2>1. QED
    BY <1>1
<1>3. RoundUp(n, unit) = q * unit
  BY DEF RoundUp
<1> HIDE DEF q
<1>4. n <= q * unit /\ q * unit < n + unit
  BY <1>1, <1>2
<1>5. q * unit = unit * q /\ (unit * q) \div unit = q
  BY <1>2
<1>6. QED
  BY <1>2, <1>3, <1>4, <1>5

(* What a request takes is a multiple of 8, no more than it must be.       *)
LEMMA PaddedIs ==
  ASSUME NEW n \in Nat \ {0}
  PROVE  /\ Padded(n) \in Nat /\ Padded(n) >= 16
         /\ n + HEADER <= Padded(n) /\ Padded(n) < n + HEADER + 8
         /\ \E q \in Nat : Padded(n) = 8 * q
<1>1. Padded(n) = RoundUp(n + 8, 8) /\ HEADER = 8 /\ n + 8 \in Nat
  BY DEF Padded, MEM_ALIGN, HEADER
<1>2. /\ Padded(n) \in Nat /\ n + 8 <= Padded(n) /\ Padded(n) < n + 8 + 8
      /\ \E q \in Nat : Padded(n) = 8 * q
  BY <1>1, RoundUpIs
<1>3. QED
  BY <1>1, <1>2

-----------------------------------------------------------------------------
(* The bucket.                                                             *)

(* A number between a power and its double is rounded to itself only when  *)
(* it is the power.                                                        *)
LEMMA ExactIs ==
  ASSUME NEW p \in Nat \ {0}, NEW n \in Nat, p <= n, n < 2 * p
  PROVE  RoundUp(n, p) = n <=> n = p
<1>1. PICK q \in Nat : RoundUp(n, p) = p * q
  BY RoundUpIs
<1>2. ASSUME p * q = n PROVE n = p
  <2>1. q # 0
    BY <1>2
  <2>2. CASE q = 1
    BY <1>2, <2>2
  <2>3. CASE q >= 2
    <3>1. p * q >= p * 2
      BY <2>3, Zenon, SMT
    <3>2. QED
      BY <1>2, <3>1
  <2>4. QED
    BY <2>1, <2>2, <2>3
<1>3. ASSUME n = p PROVE p * q = n
  <2>1. p <= p * q /\ p * q < p + p /\ p * q \in Nat
    BY <1>1, <1>3, RoundUpIs
  <2>2. q # 0
    BY <2>1
  <2>3. CASE q = 1
    BY <1>3, <2>3
  <2>4. CASE q >= 2
    <3>1. p * q >= p * 2
      BY <2>4
    <3>2. QED
      BY <2>1, <3>1
  <2>5. QED
    BY <2>2, <2>3, <2>4
<1>4. QED
  BY <1>1, <1>2, <1>3

(* The block of bucket k.                                                  *)
LEMMA ObjSizeIs ==
  ASSUME NEW k \in Nat
  PROVE  ObjSize(k) = Power(k + 4) /\ ObjSize(k) \in Nat \ {0}
<1>1. /\ k + 1 \in Nat /\ k + 2 \in Nat /\ k + 3 \in Nat
      /\ (k + 1) + 1 = k + 2 /\ (k + 2) + 1 = k + 3 /\ (k + 3) + 1 = k + 4
  OBVIOUS
<1>2. /\ Power(k + 1) = 2 * Power(k) /\ Power((k + 1) + 1) = 2 * Power(k + 1)
      /\ Power((k + 2) + 1) = 2 * Power(k + 2) /\ Power((k + 3) + 1) = 2 * Power(k + 3)
  BY <1>1, PowerDoubles
<1>3. /\ Power(k + 1) = 2 * Power(k) /\ Power(k + 2) = 2 * Power(k + 1)
      /\ Power(k + 3) = 2 * Power(k + 2) /\ Power(k + 4) = 2 * Power(k + 3)
  BY <1>1, <1>2
<1>4. Power(k) \in Nat \ {0}
  BY PowerCounts
<1>5. Power(k + 4) = 16 * Power(k) /\ Power(k) \in Nat \ {0}
  BY <1>3, <1>4
<1>6. ObjSize(k) = 16 * Power(k)
  BY DEF ObjSize, OBJ_MIN, Power
<1>7. QED
  BY <1>5, <1>6

(* Where the top bit of what a request takes is, there is its bucket: the  *)
(* smallest whose blocks hold it.                                          *)
LEMMA BucketIs ==
  ASSUME NEW n \in Nat \ {0}
  PROVE  LET b == BucketOf(n)
         IN  /\ b \in Nat /\ Padded(n) <= ObjSize(b)
             /\ b > 0 => Padded(n) > ObjSize(b - 1)
<1> DEFINE P == Padded(n)
           t == TopBit(P)
           b == BucketOf(n)
<1>1. P \in Nat /\ P >= 16
  BY PaddedIs
<1>2. t \in Nat /\ Power(t) <= P /\ P < 2 * Power(t)
  <2> HIDE DEF P
  <2>1. QED
    BY <1>1, TopBitIs
<1>3. b = (IF RoundUp(P, 2^t) = P THEN t - 1 ELSE t) - 3
  BY DEF BucketOf
<1> HIDE DEF P, t, b
<1>4. Power(t) \in Nat \ {0} /\ Power(t + 1) = 2 * Power(t)
  BY <1>2, PowerCounts, PowerDoubles
<1>5. RoundUp(P, 2^t) = P <=> P = Power(t)
  <2>1. RoundUp(P, Power(t)) = P <=> P = Power(t)
    BY <1>1, <1>2, <1>4, ExactIs
  <2>2. QED
    BY <2>1 DEF Power
<1>6. t >= 4
  <2>1. ASSUME t < 4 PROVE FALSE
    <3>1. Power(4) = 16
      <4>1. Power(0 + 1) = 2 * Power(0) /\ Power(1 + 1) = 2 * Power(1)
            /\ Power(2 + 1) = 2 * Power(2) /\ Power(3 + 1) = 2 * Power(3)
        BY PowerDoubles
      <4>2. 0 + 1 = 1 /\ 1 + 1 = 2 /\ 2 + 1 = 3 /\ 3 + 1 = 4
        OBVIOUS
      <4>3. QED
        BY <4>1, <4>2, PowerOfZero
    <3>2. 2 * Power(t) <= Power(4)
      BY <1>2, <2>1, PowerGrows
    <3>3. QED
      BY <1>1, <1>2, <1>4, <3>1, <3>2
  <2>2. QED
    BY <1>2, <2>1
<1>7. CASE P = Power(t)
  <2>1. b = t - 4 /\ b \in Nat /\ b + 4 = t
    BY <1>2, <1>3, <1>5, <1>6, <1>7
  <2>2. ObjSize(b) = Power(t)
    BY <2>1, ObjSizeIs
  <2>3. b > 0 => b - 1 \in Nat /\ ObjSize(b - 1) = Power(t - 1) /\ 2 * Power(t - 1) <= Power(t)
                 /\ Power(t - 1) \in Nat \ {0}
    <3>1. SUFFICES ASSUME b > 0
                   PROVE  /\ b - 1 \in Nat /\ ObjSize(b - 1) = Power(t - 1)
                          /\ 2 * Power(t - 1) <= Power(t) /\ Power(t - 1) \in Nat \ {0}
      OBVIOUS
    <3>2. b - 1 \in Nat /\ (b - 1) + 4 = t - 1 /\ t - 1 \in Nat /\ t - 1 < t
      BY <1>2, <2>1, <3>1
    <3>3. QED
      BY <1>2, <3>2, ObjSizeIs, PowerGrows, PowerCounts
  <2>4. QED
    BY <1>4, <1>7, <2>1, <2>2, <2>3 DEF P, b
<1>8. CASE P # Power(t)
  <2>1. b = t - 3 /\ b \in Nat /\ b + 4 = t + 1 /\ b - 1 \in Nat /\ (b - 1) + 4 = t
    BY <1>2, <1>3, <1>5, <1>6, <1>8
  <2>2. ObjSize(b) = Power(t + 1) /\ ObjSize(b - 1) = Power(t)
    BY <2>1, ObjSizeIs
  <2>3. QED
    BY <1>1, <1>2, <1>4, <1>8, <2>1, <2>2 DEF P, b
<1>9. QED
  BY <1>7, <1>8

-----------------------------------------------------------------------------
(* What a request gets.                                                    *)

(* The bucket pool_malloc indexes bds[] with exists, for every number of   *)
(* buckets, and is the smallest one whose blocks hold the request and its  *)
(* header.                                                                 *)
THEOREM SmallRequestHeld ==
  ASSUME NEW n \in Nat \ {0}, NEW count \in Nat \ {0}, Padded(n) <= ObjSize(count - 1)
  PROVE  /\ BucketOf(n) \in 0 .. count - 1
         /\ n + HEADER <= ObjSize(BucketOf(n))
         /\ BucketOf(n) > 0 => Padded(n) > ObjSize(BucketOf(n) - 1)
<1> DEFINE b == BucketOf(n)
           P == Padded(n)
<1>1. b \in Nat /\ P <= ObjSize(b) /\ (b > 0 => P > ObjSize(b - 1))
  BY BucketIs
<1>2. n + HEADER <= P /\ P \in Nat /\ HEADER = 8
  BY PaddedIs DEF HEADER
<1> HIDE DEF b, P
<1>3. ObjSize(b) \in Nat
  BY <1>1, ObjSizeIs
<1>4. b <= count - 1
  <2>1. ASSUME b > count - 1 PROVE FALSE
    <3>1. b - 1 \in Nat /\ count - 1 \in Nat /\ b > 0
      BY <1>1, <2>1
    <3>2. /\ ObjSize(b - 1) = Power((b - 1) + 4) /\ ObjSize(b - 1) \in Nat
          /\ ObjSize(count - 1) = Power((count - 1) + 4) /\ ObjSize(count - 1) \in Nat
      BY <3>1, ObjSizeIs
    <3>3. ObjSize(count - 1) <= ObjSize(b - 1)
      <4> DEFINE x == (count - 1) + 4
                 y == (b - 1) + 4
      <4>1. x \in Nat /\ y \in Nat /\ (x = y \/ x < y)
        BY <1>1, <2>1, <3>1
      <4> HIDE DEF x, y
      <4>2. Power(x) <= Power(y)
        <5>1. Power(x) \in Nat /\ Power(y) \in Nat
          BY <4>1, PowerCounts
        <5>2. QED
          BY <4>1, <5>1, PowerGrows
      <4>3. QED
        BY <3>2, <4>2 DEF x, y
    <3>4. P <= ObjSize(count - 1) /\ P > ObjSize(b - 1)
      BY <1>1, <3>1 DEF P
    <3>5. QED
      BY <1>2, <3>2, <3>3, <3>4
  <2>2. QED
    BY <1>1, <2>1
<1>5. b \in 0 .. count - 1 /\ n + HEADER <= ObjSize(b)
  BY <1>1, <1>2, <1>3, <1>4
<1>6. QED
  BY <1>1, <1>5 DEF b, P

(* The pages of a large request hold it with its header, and one page less *)
(* would not.                                                              *)
THEOREM LargeRequestHeld ==
  ASSUME NEW n \in Nat \ {0}, NEW k \in Nat
  PROVE  /\ PagesOf(n, ObjSize(k)) \in Nat \ {0}
         /\ n + HEADER <= PagesOf(n, ObjSize(k)) * ObjSize(k)
         /\ (PagesOf(n, ObjSize(k)) - 1) * ObjSize(k) < n + HEADER
<1> DEFINE P == Padded(n)
           page == ObjSize(k)
           pages == PagesOf(n, page)
<1>1. P \in Nat /\ P >= 16 /\ n + HEADER <= P /\ P < n + HEADER + 8 /\ HEADER = 8
  BY PaddedIs DEF HEADER
<1>2. PICK e \in Nat : P = 8 * e
  BY PaddedIs
<1>3. page \in Nat \ {0} /\ \E h \in Nat : page = 8 * h
  <2>1. page \in Nat \ {0} /\ page = 16 * Power(k) /\ Power(k) \in Nat
    BY ObjSizeIs, PowerCounts DEF ObjSize, OBJ_MIN, Power
  <2>2. 16 * Power(k) = 8 * (2 * Power(k)) /\ 2 * Power(k) \in Nat
    BY <2>1
  <2>3. QED
    BY <2>1, <2>2
<1>4. PICK h \in Nat : page = 8 * h
  BY <1>3
<1> HIDE DEF P, page
<1>5. PICK q \in Nat : RoundUp(P, page) = page * q /\ RoundUp(P, page) \div page = q
  BY <1>1, <1>3, RoundUpIs
<1>6. P <= page * q /\ page * q < P + page /\ pages = q
  BY <1>1, <1>3, <1>5, RoundUpIs DEF PagesOf, P
<1> HIDE DEF pages
<1>7. q # 0
  <2>1. page * 0 = 0
    BY <1>3
  <2>2. ASSUME q = 0 PROVE FALSE
    <3>1. page * q = 0
      BY <2>1, <2>2
    <3>2. QED
      BY <1>1, <1>6, <3>1
  <2>3. QED
    BY <2>2
<1>8. (q - 1) * page = page * q - page /\ page * q \in Nat /\ q * page = page * q
  BY <1>3
<1>9. page * q - page <= P - 8
  <2>1. page * q = 8 * (h * q) /\ h * q \in Nat
    BY <1>4
  <2> DEFINE z == h * q
  <2> HIDE DEF z
  <2>2. 8 * z < 8 * e + 8 * h /\ z \in Nat
    BY <1>2, <1>4, <1>6, <2>1 DEF z
  <2>3. 8 * z - 8 * h <= 8 * e - 8
    BY <2>2
  <2>4. QED
    BY <1>2, <1>4, <2>1, <2>3 DEF z
<1>10. pages \in Nat \ {0} /\ n + HEADER <= pages * page /\ (pages - 1) * page < n + HEADER
  BY <1>1, <1>3, <1>6, <1>7, <1>8, <1>9
<1>11. QED
  BY <1>10 DEF pages, page

(* Every request from 1 byte upwards gets the smallest block, or the       *)
(* fewest pages, that hold it with its header.                             *)
THEOREM RequestsHeld == SizesSpec => []RequestHeld
<1>1. FirstSize => tried \in Nat \ {0}
  BY DEF FirstSize
<1>2. tried \in Nat \ {0} /\ [NextSize]_tried => (tried \in Nat \ {0})'
  BY DEF NextSize
<1>3. tried \in Nat \ {0} => RequestHeld
  <2>1. SUFFICES ASSUME tried \in Nat \ {0} PROVE RequestHeld
    OBVIOUS
  <2>2. Buckets \in Nat \ {0} /\ Buckets - 1 \in Nat /\ Page = ObjSize(Buckets - 1)
    BY BucketsAssumption DEF Page, ObjSize
  <2>3. Page \in Nat /\ Padded(tried) \in Nat
    BY <2>1, <2>2, ObjSizeIs, PaddedIs
  <2>4. ~ NeedsPages => Padded(tried) <= ObjSize(Buckets - 1)
    BY <2>2, <2>3 DEF NeedsPages
  <2>5. BucketFits /\ BucketSmallest
    BY <2>1, <2>2, <2>4, SmallRequestHeld DEF BucketFits, BucketSmallest
  <2>6. PagesTight
    BY <2>1, <2>2, LargeRequestHeld DEF PagesTight
  <2>7. QED
    BY <2>5, <2>6 DEF RequestHeld
<1>4. QED
  BY <1>1, <1>2, <1>3, PTL DEF SizesSpec

-----------------------------------------------------------------------------
(* Adjacent blocks.                                                        *)

(* Multiples of a block size.                                              *)
LEMMA Multiples ==
  ASSUME NEW i \in Int, NEW j \in Int, NEW z \in Nat \ {0}
  PROVE  /\ i * z \in Int
         /\ (i + 1) * z = i * z + z
         /\ i <= j => i * z <= j * z
         /\ i * z < j * z => i < j
         /\ i * z = j * z => i = j
         /\ 0 <= i => 0 <= i * z
OBVIOUS

(* A byte of n adjacent blocks lies in one of them.                        *)
LEMMA ByteInPiece ==
  ASSUME NEW a \in Nat, NEW x \in Nat, NEW z \in Nat \ {0}, NEW n \in Nat,
         a <= x, x < a + n * z
  PROVE  \E i \in 0 .. n - 1 : a + i * z <= x /\ x < a + i * z + z
<1> DEFINE i == (x - a) \div z
<1>1. /\ i \in Nat
      /\ i * z <= x - a
      /\ x - a < i * z + z
  OBVIOUS
<1>2. i < n
  <2>1. i * z < n * z
    BY <1>1, Multiples
  <2>2. QED
    BY <1>1, <2>1, Multiples
<1>3. i \in 0 .. n - 1
  BY <1>1, <1>2
<1>4. a + i * z <= x /\ x < a + i * z + z
  BY <1>1, Multiples
<1> HIDE DEF i
<1>5. QED
  BY <1>3, <1>4

(* A block lies within the run it belongs to.                              *)
LEMMA PieceInRun ==
  ASSUME NEW a \in Nat, NEW z \in Nat \ {0}, NEW n \in Nat, NEW i \in 0 .. n - 1
  PROVE  /\ a + i * z \in Nat
         /\ a <= a + i * z
         /\ a + i * z + z <= a + n * z
<1>1. i * z \in Nat
  BY Multiples
<1>2. (i + 1) * z = i * z + z /\ (i + 1) * z <= n * z /\ n * z \in Nat
  BY Multiples
<1>3. QED
  BY <1>1, <1>2

(* What is apart from every block of a run is apart from the run.          *)
LEMMA PiecesApart ==
  ASSUME NEW a \in Nat, NEW b \in Nat, NEW z \in Nat \ {0}, NEW n \in Nat \ {0},
         NEW m \in Nat \ {0},
         \A i \in 0 .. n - 1 : Apart(a + i * z, z, b, m)
  PROVE  Apart(a, n * z, b, m)
<1>1. n * z \in Nat
  BY Multiples
<1>2. SUFFICES ASSUME b < a + n * z, a < b + m
               PROVE  FALSE
  BY <1>1 DEF Apart
<1>3. PICK x \in Nat : a <= x /\ x < a + n * z /\ b <= x /\ x < b + m
  <2>1. 0 < n * z
    BY Multiples
  <2>2. CASE a <= b
    BY <2>2, <1>1, <1>2, <2>1
  <2>3. CASE b < a
    BY <2>3, <1>1, <1>2, <2>1
  <2>4. QED
    BY <2>2, <2>3
<1>4. PICK i \in 0 .. n - 1 : a + i * z <= x /\ x < a + i * z + z
  BY <1>3, ByteInPiece
<1>5. i * z \in Int
  BY Multiples
<1>6. Apart(a + i * z, z, b, m)
  OBVIOUS
<1>7. QED
  BY <1>3, <1>4, <1>5, <1>6 DEF Apart

(* What is apart from a run is apart from each block of it, either way     *)
(* round.                                                                  *)
LEMMA RunApart ==
  ASSUME NEW a \in Nat, NEW b \in Nat, NEW z \in Nat \ {0}, NEW n \in Nat \ {0},
         NEW m \in Nat \ {0}, NEW i \in 0 .. n - 1,
         Apart(a, n * z, b, m)
  PROVE  Apart(a + i * z, z, b, m) /\ Apart(b, m, a + i * z, z)
<1>1. n * z \in Nat
  BY Multiples
<1>2. QED
  BY <1>1, PieceInRun DEF Apart

(* The blocks of a run are apart from each other.                          *)
LEMMA BlocksApart ==
  ASSUME NEW a \in Nat, NEW z \in Nat \ {0}, NEW i \in Nat, NEW j \in Nat, i # j
  PROVE  Apart(a + i * z, z, a + j * z, z)
<1>1. CASE i < j
  BY <1>1, Multiples, (i + 1) * z <= j * z DEF Apart
<1>2. CASE j < i
  BY <1>2, Multiples, (j + 1) * z <= i * z DEF Apart
<1>3. QED
  BY <1>1, <1>2

(* The sizes of the buckets double.                                        *)
LEMMA SizeFacts ==
  /\ Top \in Levels
  /\ \A k \in Levels : k \in Nat /\ Size[k] \in Nat \ {0} /\ Size[k] = ObjSize(k)
  /\ \A k \in Levels : k + 1 < BUDY_COUNT => k + 1 \in Levels /\ Size[k + 1] = 2 * Size[k]
<1>1. Top \in Levels
  BY PoolAssumption DEF Levels, Top
<1>2. ASSUME NEW k \in Levels
      PROVE  k \in Nat /\ Size[k] \in Nat \ {0} /\ Size[k] = ObjSize(k)
  <2>1. k \in Nat /\ Size[k] = ObjSize(k)
    BY PoolAssumption DEF Levels, Size
  <2>2. QED
    BY <2>1, ObjSizeIs
<1>3. ASSUME NEW k \in Levels, k + 1 < BUDY_COUNT
      PROVE  k + 1 \in Levels /\ Size[k + 1] = 2 * Size[k]
  <2>1. k \in Nat /\ k + 1 \in Nat /\ k + 1 \in Levels
    BY <1>3, PoolAssumption DEF Levels
  <2>2. Size[k] = Power(k + 4) /\ Size[k + 1] = Power((k + 1) + 4)
    BY <1>2, <2>1, ObjSizeIs
  <2>3. k + 4 \in Nat /\ (k + 1) + 4 = (k + 4) + 1
    BY <2>1
  <2>4. Power((k + 4) + 1) = 2 * Power(k + 4)
    BY <2>3, PowerDoubles
  <2>5. QED
    BY <2>1, <2>2, <2>3, <2>4
<1>4. QED
  BY <1>1, <1>2, <1>3

(* pool_malloc indexes bds[] with a bucket that is there and whose blocks  *)
(* are long enough, or asks for pages enough.                              *)
LEMMA RequestFits ==
  ASSUME NEW size \in Requests \ {0}
  PROVE  IF Padded(size) <= Size[Top]
         THEN BucketOf(size) \in Levels /\ size + HEADER <= Size[BucketOf(size)]
         ELSE /\ PagesOf(size, Size[Top]) \in Nat \ {0}
              /\ size + HEADER <= PagesOf(size, Size[Top]) * Size[Top]
<1>1. /\ size \in Nat \ {0} /\ BUDY_COUNT \in Nat \ {0} /\ BUDY_COUNT - 1 \in Nat
      /\ Levels = 0 .. BUDY_COUNT - 1 /\ Size[Top] = ObjSize(BUDY_COUNT - 1)
  BY PoolAssumption, SizeFacts DEF Levels, Top
<1>2. CASE Padded(size) <= Size[Top]
  <2>1. BucketOf(size) \in Levels /\ size + HEADER <= ObjSize(BucketOf(size))
    BY <1>1, <1>2, SmallRequestHeld
  <2>2. QED
    BY <1>2, <2>1, SizeFacts
<1>3. CASE ~ (Padded(size) <= Size[Top])
  BY <1>1, <1>3, LargeRequestHeld
<1>4. QED
  BY <1>2, <1>3

(* A run of n blocks has n members.                                        *)
LEMMA BlocksCount ==
  ASSUME NEW a \in Nat, NEW k \in Levels, NEW n \in Nat
  PROVE  /\ IsFiniteSet(Blocks(a, k, n))
         /\ Cardinality(Blocks(a, k, n)) = n
         /\ Blocks(a, k, n) \subseteq Nat
<1> DEFINE z == Size[k]
           f == [i \in 0 .. n - 1 |-> a + i * z]
<1>1. z \in Nat \ {0}
  BY SizeFacts
<1> HIDE DEF z
<1>2. \A i \in 0 .. n - 1 : a + i * z \in Nat
  BY <1>1, PieceInRun
<1>3. Blocks(a, k, n) = {a + i * z : i \in 0 .. n - 1}
  BY DEF Blocks, z
<1>4. f \in Bijection(0 .. n - 1, Blocks(a, k, n))
  <2>1. f \in [0 .. n - 1 -> Blocks(a, k, n)]
    BY <1>3
  <2>2. \A i, j \in 0 .. n - 1 : f[i] = f[j] => i = j
    <3>1. SUFFICES ASSUME NEW i \in 0 .. n - 1, NEW j \in 0 .. n - 1, a + i * z = a + j * z
                   PROVE  i = j
      OBVIOUS
    <3>2. i * z \in Int /\ j * z \in Int
      BY <1>1, Multiples
    <3>3. i * z = j * z
      BY <3>1, <3>2
    <3>4. QED
      BY <3>3, <1>1, Multiples
  <2>3. \A b \in Blocks(a, k, n) : \E i \in 0 .. n - 1 : f[i] = b
    BY <1>3
  <2>4. QED
    BY <2>1, <2>2, <2>3 DEF Bijection, Injection, Surjection, IsInjective
<1>5. IsFiniteSet(0 .. n - 1) /\ Cardinality(0 .. n - 1) = n
  BY FS_Interval
<1>6. IsFiniteSet(Blocks(a, k, n)) /\ Cardinality(Blocks(a, k, n)) = n
  BY <1>4, <1>5, FS_Bijection DEF ExistsBijection
<1>7. QED
  BY <1>2, <1>3, <1>6

(* The padded size is a number, so one of the two cases of pool_malloc     *)
(* applies.                                                                *)
LEMMA PaddedFacts ==
  ASSUME NEW size \in Requests
  PROVE  Padded(size) \in Int
<1>1. size \in Nat
  BY PoolAssumption
<1>2. QED
  BY <1>1 DEF Padded, RoundUp, HEADER, MEM_ALIGN

-----------------------------------------------------------------------------
(* The partition of the pool.                                              *)

(* Lists f, counters c and headers L that divide the pool between them.    *)
Types(f, c, L) ==
  /\ f \in [Levels -> SUBSET Nat]
  /\ c \in [Levels -> Nat]
  /\ L \subseteq Nat \X Levels \X (Nat \ {0})

Partition(f, c, L) ==
  /\ Types(f, c, L)
  /\ Within(f, L)
  /\ NoOverlap(f, L)
  /\ \A x \in PoolStart .. PoolEnd - 1 : Holds(x, f, L)
  /\ Counts(f, c)

(* The pool and the headers are made of natural numbers.                   *)
LEMMA ArenaFacts ==
  /\ PoolStart \in Nat /\ PoolEnd \in Nat
  /\ \A m \in Nat \X Levels \X (Nat \ {0}) :
       /\ m[1] \in Nat /\ m[2] \in Levels /\ m[3] \in Nat \ {0}
       /\ Bytes(m) = m[3] * Size[m[2]] /\ Bytes(m) \in Nat \ {0}
<1>1. PageCount * Size[Top] \in Nat
  BY PoolAssumption, SizeFacts, Multiples
<1>2. PoolStart \in Nat /\ PoolEnd \in Nat
  BY <1>1, PoolAssumption DEF PoolEnd
<1>3. ASSUME NEW m \in Nat \X Levels \X (Nat \ {0})
      PROVE  /\ m[1] \in Nat /\ m[2] \in Levels /\ m[3] \in Nat \ {0}
             /\ Bytes(m) = m[3] * Size[m[2]] /\ Bytes(m) \in Nat \ {0}
  <2>1. m[1] \in Nat /\ m[2] \in Levels /\ m[3] \in Nat \ {0}
    OBVIOUS
  <2>2. Bytes(m) = m[3] * Size[m[2]]
    BY DEF Bytes
  <2>3. m[3] * Size[m[2]] \in Nat /\ 0 * Size[m[2]] < m[3] * Size[m[2]]
    BY <2>1, SizeFacts, Multiples
  <2>4. QED
    BY <2>1, <2>2, <2>3, SizeFacts
<1>4. QED
  BY <1>2, <1>3

(* The free lists are finite, and moving blocks moves the counter.         *)
LEMMA ListCount ==
  ASSUME NEW f, NEW c, NEW L, Types(f, c, L), Within(f, L), NEW k \in Levels
  PROVE  /\ IsFiniteSet(f[k])
         /\ \A B : B \subseteq f[k] =>
              Cardinality(f[k] \ B) = Cardinality(f[k]) - Cardinality(B)
         /\ \A B : IsFiniteSet(B) /\ B \cap f[k] = {} =>
              Cardinality(f[k] \cup B) = Cardinality(f[k]) + Cardinality(B)
<1>1. IsFiniteSet(PoolStart .. PoolEnd)
  BY ArenaFacts, FS_Interval
<1>2. f[k] \subseteq PoolStart .. PoolEnd
  BY ArenaFacts, SizeFacts DEF Types, Within
<1>3. IsFiniteSet(f[k])
  BY <1>1, <1>2, FS_Subset
<1>4. ASSUME NEW B, B \subseteq f[k]
      PROVE  Cardinality(f[k] \ B) = Cardinality(f[k]) - Cardinality(B)
  <2>1. f[k] \cap B = B
    BY <1>4
  <2>2. QED
    BY <1>3, <2>1, FS_Difference
<1>5. ASSUME NEW B, IsFiniteSet(B), B \cap f[k] = {}
      PROVE  Cardinality(f[k] \cup B) = Cardinality(f[k]) + Cardinality(B)
  <2>1. f[k] \cap B = {} /\ Cardinality({}) = 0
    BY <1>5, FS_EmptySet
  <2>2. Cardinality(f[k]) \in Nat /\ Cardinality(B) \in Nat
    BY <1>3, <1>5, FS_CardinalityType
  <2>3. Cardinality(f[k] \cup B)
          = Cardinality(f[k]) + Cardinality(B) - Cardinality(f[k] \cap B)
    BY <1>3, <1>5, FS_Union
  <2>4. Cardinality(f[k] \cap B) = 0
    BY <2>1
  <2>5. QED
    BY <2>2, <2>3, <2>4
<1>6. QED
  BY <1>3, <1>4, <1>5

(* n adjacent free blocks become one block in a caller's hands.            *)
LEMMA TakeKeepsPartition ==
  ASSUME NEW f, NEW c, NEW L, Partition(f, c, L),
         NEW k \in Levels, NEW a \in Nat, NEW n \in Nat \ {0},
         Blocks(a, k, n) \subseteq f[k]
  PROVE  Partition(Unlink(f, k, Blocks(a, k, n)), [c EXCEPT ![k] = @ - n],
                   L \cup {<<a, k, n>>})
<1> DEFINE g == Unlink(f, k, Blocks(a, k, n))
           d == [c EXCEPT ![k] = @ - n]
           M == L \cup {<<a, k, n>>}
           z == Size[k]
           B == Blocks(a, k, n)
           t == <<a, k, n>>
<1>1. z \in Nat \ {0} /\ z = Size[k]
  BY SizeFacts
<1>2. B = {a + i * z : i \in 0 .. n - 1} /\ B = Blocks(a, k, n)
  BY DEF Blocks
<1>3. t \in Nat \X Levels \X (Nat \ {0}) /\ t[1] = a /\ t[2] = k /\ t[3] = n
  OBVIOUS
<1>4. Bytes(t) = n * z /\ n * z \in Nat \ {0}
  BY <1>3, <1>1, ArenaFacts
<1>5. M = L \cup {t} /\ d = [c EXCEPT ![k] = @ - n]
  OBVIOUS
<1>6. /\ g \in [Levels -> SUBSET Nat]
      /\ g[k] = f[k] \ B
      /\ \A j \in Levels : j # k => g[j] = f[j]
  BY <1>2 DEF Partition, Types, Unlink
<1> HIDE DEF z, B, t, g, d, M
<1>7. \A i \in 0 .. n - 1 : a + i * z \in f[k]
  BY <1>2
<1>8. IsFiniteSet(g[k]) /\ Cardinality(g[k]) = c[k] - n
  <2>1. /\ IsFiniteSet(f[k])
        /\ \A C : C \subseteq f[k] =>
             Cardinality(f[k] \ C) = Cardinality(f[k]) - Cardinality(C)
    BY ListCount DEF Partition
  <2>2. Cardinality(B) = n
    BY BlocksCount DEF B
  <2>3. Cardinality(f[k] \ B) = Cardinality(f[k]) - n
    BY <1>2, <2>1, <2>2
  <2>4. IsFiniteSet(f[k] \ B)
    BY <2>1, FS_Difference
  <2>5. QED
    BY <1>6, <2>3, <2>4 DEF Partition, Counts
<1>9. Types(g, d, M)
  <2>1. Cardinality(g[k]) \in Nat
    BY <1>8, FS_CardinalityType
  <2>2. d \in [Levels -> Nat]
    BY <1>5, <1>8, <2>1 DEF Partition, Types, Counts
  <2>3. QED
    BY <1>3, <1>5, <1>6, <2>2 DEF Partition, Types
<1>10. Counts(g, d)
  BY <1>5, <1>6, <1>8 DEF Partition, Types, Counts
<1>11. Within(g, M)
  <2>1. a + 0 * z = a /\ a \in f[k]
    BY <1>1, <1>7
  <2>2. /\ a + (n - 1) * z \in f[k]
        /\ a + n * z = a + (n - 1) * z + z
    BY <1>1, <1>7, Multiples
  <2>3. PoolStart <= t[1] /\ t[1] + Bytes(t) <= PoolEnd
    BY <1>1, <1>3, <1>4, <2>1, <2>2 DEF Partition, Within
  <2>4. \A j \in Levels : g[j] \subseteq f[j]
    BY <1>6
  <2>5. QED
    BY <1>5, <2>3, <2>4 DEF Partition, Within
<1>12. NoOverlap(g, M)
  <2>1. \A j \in Levels : g[j] \subseteq f[j]
    BY <1>6
  <2>2. ASSUME NEW j \in Levels, NEW b \in g[j]
        PROVE  Apart(b, Size[j], t[1], Bytes(t))
    <3>1. b \in f[j] /\ b \in Nat /\ Size[j] \in Nat \ {0}
      BY <2>1, <2>2, SizeFacts DEF Partition, Types
    <3>2. ASSUME NEW i \in 0 .. n - 1
          PROVE  Apart(a + i * z, z, b, Size[j])
      <4>1. a + i * z \in f[k] /\ a + i * z \in B
        BY <1>2, <1>7
      <4>2. ~ (k = j /\ a + i * z = b)
        BY <4>1, <1>6, <2>2
      <4>3. QED
        BY <1>1, <3>1, <4>1, <4>2 DEF Partition, NoOverlap
    <3>3. Apart(a, n * z, b, Size[j])
      BY <1>1, <3>1, <3>2, PiecesApart
    <3>4. QED
      BY <1>3, <1>4, <3>1, <3>3 DEF Apart
  <2>3. ASSUME NEW m \in L
        PROVE  Apart(t[1], Bytes(t), m[1], Bytes(m))
    <3>1. m[1] \in Nat /\ Bytes(m) \in Nat \ {0}
      BY <2>3, ArenaFacts DEF Partition, Types
    <3>2. \A i \in 0 .. n - 1 : Apart(a + i * z, z, m[1], Bytes(m))
      BY <1>1, <1>7, <2>3 DEF Partition, NoOverlap
    <3>3. Apart(a, n * z, m[1], Bytes(m))
      BY <1>1, <3>1, <3>2, PiecesApart
    <3>4. QED
      BY <1>3, <1>4, <3>3
  <2>4. \A m \in L : Apart(m[1], Bytes(m), t[1], Bytes(t))
    BY <2>3 DEF Apart
  <2>5. QED
    BY <1>5, <2>1, <2>2, <2>3, <2>4 DEF Partition, NoOverlap, Apart
<1>13. \A x \in PoolStart .. PoolEnd - 1 : Holds(x, g, M)
  <2>1. SUFFICES ASSUME NEW x \in PoolStart .. PoolEnd - 1
                 PROVE  Holds(x, g, M)
    OBVIOUS
  <2>2. CASE \E m \in L : m[1] <= x /\ x < m[1] + Bytes(m)
    BY <1>5, <2>2 DEF Holds
  <2>3. CASE \E j \in Levels : \E b \in f[j] : b <= x /\ x < b + Size[j]
    <3>1. PICK j \in Levels : \E b \in f[j] : b <= x /\ x < b + Size[j]
      BY <2>3
    <3>2. PICK b \in f[j] : b <= x /\ x < b + Size[j]
      BY <3>1
    <3>3. CASE j = k /\ b \in B
      <4>1. PICK i \in 0 .. n - 1 : b = a + i * z
        BY <1>2, <3>3
      <4>2. a <= b /\ b + z <= a + n * z
        BY <1>1, <4>1, PieceInRun
      <4>3. b \in Nat /\ x \in Nat
        BY <1>1, <4>1, PieceInRun, ArenaFacts
      <4>4. t[1] <= x /\ x < t[1] + Bytes(t)
        BY <1>1, <1>3, <1>4, <3>2, <3>3, <4>2, <4>3
      <4>5. QED
        BY <1>5, <4>4 DEF Holds
    <3>4. CASE ~ (j = k /\ b \in B)
      BY <1>6, <3>2, <3>4 DEF Holds
    <3>5. QED
      BY <3>3, <3>4
  <2>4. QED
    BY <2>2, <2>3 DEF Partition, Holds
<1>14. QED
  BY <1>9, <1>10, <1>11, <1>12, <1>13 DEF Partition, g, d, M

(* One block in a caller's hands becomes n adjacent free blocks.           *)
LEMMA GiveKeepsPartition ==
  ASSUME NEW f, NEW c, NEW L, Partition(f, c, L),
         NEW k \in Levels, NEW a \in Nat, NEW n \in Nat \ {0},
         <<a, k, n>> \in L
  PROVE  Partition(AddFree(f, k, a, n), [c EXCEPT ![k] = @ + n],
                   L \ {<<a, k, n>>})
<1> DEFINE g == AddFree(f, k, a, n)
           d == [c EXCEPT ![k] = @ + n]
           M == L \ {<<a, k, n>>}
           z == Size[k]
           B == Blocks(a, k, n)
           t == <<a, k, n>>
<1>1. z \in Nat \ {0} /\ z = Size[k]
  BY SizeFacts
<1>2. B = {a + i * z : i \in 0 .. n - 1} /\ B \subseteq Nat
  BY BlocksCount DEF Blocks
<1>3. t \in L /\ t[1] = a /\ t[2] = k /\ t[3] = n
  OBVIOUS
<1>4. Bytes(t) = n * z /\ n * z \in Nat \ {0}
  BY <1>1, <1>3, ArenaFacts DEF Partition, Types
<1>5. M = L \ {t} /\ d = [c EXCEPT ![k] = @ + n]
  OBVIOUS
<1>6. /\ g \in [Levels -> SUBSET Nat]
      /\ g[k] = f[k] \cup B
      /\ \A j \in Levels : j # k => g[j] = f[j]
  BY <1>2 DEF Partition, Types, AddFree
<1>7. IsFiniteSet(B) /\ Cardinality(B) = n
  BY BlocksCount
<1> HIDE DEF z, B, t, g, d, M
(* What was apart from the run is apart from each of its blocks.           *)
<1>8. ASSUME NEW b \in B, NEW m \in Nat \ {0}, NEW p \in Nat, Apart(t[1], Bytes(t), p, m)
      PROVE  Apart(b, z, p, m) /\ Apart(p, m, b, z)
  <2>1. PICK i \in 0 .. n - 1 : b = a + i * z
    BY <1>2
  <2>2. Apart(a, n * z, p, m)
    BY <1>3, <1>4, <1>8
  <2>3. QED
    BY <1>1, <1>8, <2>1, <2>2, RunApart
<1>9. ASSUME NEW j \in Levels, NEW p \in f[j]
      PROVE  Apart(t[1], Bytes(t), p, Size[j])
  <2>1. p \in Nat /\ Size[j] \in Nat \ {0}
    BY SizeFacts DEF Partition, Types
  <2>2. Apart(p, Size[j], t[1], Bytes(t))
    BY <1>3 DEF Partition, NoOverlap
  <2>3. QED
    BY <2>2 DEF Apart
<1>10. B \cap f[k] = {}
  <2>1. SUFFICES ASSUME NEW b \in B, b \in f[k]
                 PROVE  FALSE
    OBVIOUS
  <2>2. b \in Nat
    BY <1>2
  <2>3. Apart(b, z, b, z)
    BY <1>1, <1>8, <1>9, <2>1, <2>2
  <2>4. QED
    BY <1>1, <2>2, <2>3 DEF Apart
<1>11. IsFiniteSet(g[k]) /\ Cardinality(g[k]) = c[k] + n
  <2>1. IsFiniteSet(f[k]) /\ Cardinality(f[k] \cup B) = Cardinality(f[k]) + Cardinality(B)
    BY <1>7, <1>10, ListCount DEF Partition
  <2>2. IsFiniteSet(f[k] \cup B)
    BY <1>7, <2>1, FS_Union
  <2>3. QED
    BY <1>6, <1>7, <2>1, <2>2 DEF Partition, Counts
<1>12. Types(g, d, M)
  <2>1. c \in [Levels -> Nat] /\ c[k] + n \in Nat
    BY DEF Partition, Types
  <2>2. d \in [Levels -> Nat]
    BY <1>5, <2>1
  <2>3. QED
    BY <1>5, <1>6, <2>2 DEF Partition, Types
<1>13. Counts(g, d)
  BY <1>5, <1>6, <1>11 DEF Partition, Types, Counts
<1>14. Within(g, M)
  <2>1. PoolStart <= a /\ a + n * z <= PoolEnd
    BY <1>3, <1>4 DEF Partition, Within
  <2>2. ASSUME NEW b \in B
        PROVE  PoolStart <= b /\ b + z <= PoolEnd
    <3>1. PICK i \in 0 .. n - 1 : b = a + i * z
      BY <1>2
    <3>2. a <= b /\ b + z <= a + n * z /\ b \in Nat
      BY <1>1, <3>1, PieceInRun
    <3>3. QED
      BY <1>1, <1>4, <2>1, <3>2, ArenaFacts
  <2>3. QED
    BY <1>1, <1>5, <1>6, <2>2 DEF Partition, Within
<1>15. NoOverlap(g, M)
  <2>1. ASSUME NEW b \in B, NEW p \in B
        PROVE  b = p \/ Apart(b, z, p, z)
    <3>1. PICK i \in 0 .. n - 1 : b = a + i * z
      BY <1>2
    <3>2. PICK j \in 0 .. n - 1 : p = a + j * z
      BY <1>2
    <3>3. CASE i = j
      BY <3>1, <3>2, <3>3
    <3>4. CASE i # j
      BY <1>1, <3>1, <3>2, <3>4, BlocksApart
    <3>5. QED
      BY <3>3, <3>4
  <2>2. ASSUME NEW b \in B, NEW j \in Levels, NEW p \in f[j]
        PROVE  Apart(b, z, p, Size[j]) /\ Apart(p, Size[j], b, z)
    <3>1. p \in Nat /\ Size[j] \in Nat \ {0}
      BY SizeFacts DEF Partition, Types
    <3>2. QED
      BY <1>8, <1>9, <3>1
  <2>3. ASSUME NEW b \in B, NEW m \in M
        PROVE  Apart(b, z, m[1], Bytes(m))
    <3>1. m \in L /\ m # t
      BY <1>5
    <3>2. m[1] \in Nat /\ Bytes(m) \in Nat \ {0}
      BY <3>1, ArenaFacts DEF Partition, Types
    <3>3. Apart(t[1], Bytes(t), m[1], Bytes(m))
      BY <1>3, <3>1 DEF Partition, NoOverlap
    <3>4. QED
      BY <1>8, <3>2, <3>3
  <2>4. ASSUME NEW i \in Levels, NEW j \in Levels, NEW b \in g[i], NEW p \in g[j]
        PROVE  (i = j /\ b = p) \/ Apart(b, Size[i], p, Size[j])
    <3>1. CASE b \in f[i] /\ p \in f[j]
      BY <3>1 DEF Partition, NoOverlap
    <3>2. CASE b \notin f[i] /\ p \in f[j]
      BY <1>1, <1>6, <2>2, <3>2
    <3>3. CASE b \in f[i] /\ p \notin f[j]
      BY <1>1, <1>6, <2>2, <3>3
    <3>4. CASE b \notin f[i] /\ p \notin f[j]
      BY <1>1, <1>6, <2>1, <3>4
    <3>5. QED
      BY <3>1, <3>2, <3>3, <3>4
  <2>5. ASSUME NEW j \in Levels, NEW b \in g[j], NEW m \in M
        PROVE  Apart(b, Size[j], m[1], Bytes(m))
    <3>1. CASE b \in f[j]
      BY <1>5, <3>1 DEF Partition, NoOverlap
    <3>2. CASE b \notin f[j]
      BY <1>1, <1>6, <2>3, <3>2
    <3>3. QED
      BY <3>1, <3>2
  <2>6. \A m, w \in M : m = w \/ Apart(m[1], Bytes(m), w[1], Bytes(w))
    BY <1>5 DEF Partition, NoOverlap
  <2>7. QED
    BY <2>4, <2>5, <2>6 DEF NoOverlap
<1>16. \A x \in PoolStart .. PoolEnd - 1 : Holds(x, g, M)
  <2>1. SUFFICES ASSUME NEW x \in PoolStart .. PoolEnd - 1
                 PROVE  Holds(x, g, M)
    OBVIOUS
  <2>2. \A j \in Levels : f[j] \subseteq g[j]
    BY <1>6
  <2>3. CASE t[1] <= x /\ x < t[1] + Bytes(t)
    <3>1. x \in Nat /\ a <= x /\ x < a + n * z
      BY <1>3, <1>4, <2>3, ArenaFacts
    <3>2. PICK i \in 0 .. n - 1 : a + i * z <= x /\ x < a + i * z + z
      BY <1>1, <3>1, ByteInPiece
    <3>3. a + i * z \in g[k]
      BY <1>2, <1>6
    <3>4. QED
      BY <1>1, <3>2, <3>3 DEF Holds
  <2>4. CASE ~ (t[1] <= x /\ x < t[1] + Bytes(t))
    BY <1>5, <2>2, <2>4 DEF Partition, Holds
  <2>5. QED
    BY <2>3, <2>4
<1>17. QED
  BY <1>12, <1>13, <1>14, <1>15, <1>16 DEF Partition, g, d, M

(* A block in a caller's hands may as well be one block of another bucket. *)
LEMMA RenameKeepsPartition ==
  ASSUME NEW f, NEW c, NEW L, Partition(f, c, L),
         NEW t \in L, NEW u \in Nat \X Levels \X (Nat \ {0}),
         u[1] = t[1], Bytes(u) = Bytes(t)
  PROVE  Partition(f, c, (L \ {t}) \cup {u})
<1> DEFINE M == (L \ {t}) \cup {u}
<1>1. t \in Nat \X Levels \X (Nat \ {0})
  BY DEF Partition, Types
<1>2. t[1] \in Nat /\ Bytes(t) \in Nat \ {0}
  BY <1>1, ArenaFacts
<1>3. Types(f, c, M) /\ Counts(f, c) /\ Within(f, M)
  BY DEF Partition, Types, Within
<1>4. NoOverlap(f, M)
  <2>1. \A m \in L : m = t \/ Apart(m[1], Bytes(m), u[1], Bytes(u))
    BY DEF Partition, NoOverlap
  <2>2. \A m \in L : m = t \/ Apart(u[1], Bytes(u), m[1], Bytes(m))
    BY DEF Partition, NoOverlap
  <2>3. \A k \in Levels : \A a \in f[k] : Apart(a, Size[k], u[1], Bytes(u))
    BY DEF Partition, NoOverlap
  <2>4. QED
    BY <2>1, <2>2, <2>3 DEF Partition, NoOverlap
<1>5. \A x \in PoolStart .. PoolEnd - 1 : Holds(x, f, M)
  BY DEF Partition, Holds
<1>6. QED
  BY <1>3, <1>4, <1>5 DEF Partition

(* A free block is nobody's, so no header bears its name.                  *)
LEMMA FreshHeader ==
  ASSUME NEW f, NEW c, NEW L, Partition(f, c, L),
         NEW k \in Levels, NEW a \in f[k], NEW u \in L
  PROVE  u[1] # a
<1>1. /\ a \in Nat /\ Size[k] \in Nat \ {0}
      /\ u[1] \in Nat /\ Bytes(u) \in Nat \ {0}
  BY SizeFacts, ArenaFacts DEF Partition, Types
<1>2. Apart(a, Size[k], u[1], Bytes(u))
  BY DEF Partition, NoOverlap
<1>3. QED
  BY <1>1, <1>2 DEF Apart

(* Runs of one block and of two, spelled out.                              *)
LEMMA OneBlock ==
  ASSUME NEW a \in Nat, NEW k \in Levels
  PROVE  Blocks(a, k, 1) = {a}
<1>1. 0 .. 1 - 1 = {0} /\ a + 0 * Size[k] = a
  BY SizeFacts
<1>2. QED
  BY <1>1 DEF Blocks

LEMMA TwoBlocks ==
  ASSUME NEW a \in Nat, NEW k \in Levels
  PROVE  Blocks(a, k, 2) = {a, a + Size[k]}
<1>1. 0 .. 2 - 1 = {0, 1}
  OBVIOUS
<1>2. a + 0 * Size[k] = a /\ a + 1 * Size[k] = a + Size[k]
  BY SizeFacts
<1>3. QED
  BY <1>1, <1>2 DEF Blocks

(* Splitting: the block is taken, counted as a pair of the bucket below,   *)
(* and given back.                                                         *)
LEMMA SplitKeepsPartition ==
  ASSUME NEW f, NEW c, NEW L, Partition(f, c, L),
         NEW k \in Levels, k + 1 < BUDY_COUNT, NEW a \in f[k + 1]
  PROVE  Partition(AddFree(Unlink(f, k + 1, {a}), k, a, 2),
                   [c EXCEPT ![k + 1] = @ - 1, ![k] = @ + 2], L)
<1> DEFINE g == Unlink(f, k + 1, {a})
           d == [c EXCEPT ![k + 1] = @ - 1]
           t == <<a, k + 1, 1>>
           u == <<a, k, 2>>
<1>1. k + 1 \in Levels /\ Size[k + 1] = 2 * Size[k] /\ k \in Nat /\ Size[k] \in Nat
  BY SizeFacts
<1>2. a \in Nat
  BY <1>1 DEF Partition, Types
<1>3. Blocks(a, k + 1, 1) = {a}
  BY <1>1, <1>2, OneBlock
<1>4. Partition(g, d, L \cup {t})
  <2>1. Partition(Unlink(f, k + 1, Blocks(a, k + 1, 1)), [c EXCEPT ![k + 1] = @ - 1],
                  L \cup {<<a, k + 1, 1>>})
    BY <1>1, <1>2, <1>3, TakeKeepsPartition
  <2>2. QED
    BY <1>3, <2>1
<1>5. \A m \in L : m[1] # a
  BY <1>1, FreshHeader
<1>6. t \notin L /\ u \notin L /\ t # u
  BY <1>1, <1>5
<1>7. t[1] = a /\ u[1] = a /\ Bytes(t) = Bytes(u)
  BY <1>1 DEF Bytes
<1>8. Partition(g, d, L \cup {u})
  <2>1. Partition(g, d, ((L \cup {t}) \ {t}) \cup {u})
    <3>1. t \in L \cup {t} /\ u \in Nat \X Levels \X (Nat \ {0})
      BY <1>2
    <3>2. QED
      BY <1>4, <1>7, <3>1, RenameKeepsPartition
  <2>2. (L \cup {t}) \ {t} = L
    BY <1>6
  <2>3. QED
    BY <2>1, <2>2
<1>9. d \in [Levels -> Int] /\ c \in [Levels -> Nat] /\ \A j \in Levels : j \in Int
  BY <1>1, SizeFacts DEF Partition, Types
<1> HIDE DEF g, d
<1>10. Partition(AddFree(g, k, a, 2), [d EXCEPT ![k] = @ + 2], (L \cup {u}) \ {u})
  <2> DEFINE M == L \cup {u}
  <2>1. Partition(g, d, M) /\ <<a, k, 2>> \in M
    BY <1>8
  <2> HIDE DEF M
  <2>2. Partition(AddFree(g, k, a, 2), [d EXCEPT ![k] = @ + 2], M \ {<<a, k, 2>>})
    BY <1>1, <1>2, <2>1, GiveKeepsPartition
  <2>3. QED
    BY <2>2 DEF M
<1>11. (L \cup {u}) \ {u} = L
  BY <1>6
<1>12. [d EXCEPT ![k] = @ + 2] = [c EXCEPT ![k + 1] = @ - 1, ![k] = @ + 2]
  <2> DEFINE d1 == [d EXCEPT ![k] = @ + 2]
             d2 == [c EXCEPT ![k + 1] = @ - 1, ![k] = @ + 2]
  <2>1. d1 \in [Levels -> Int] /\ d2 \in [Levels -> Int]
    BY <1>1, <1>9
  <2>2. \A j \in Levels : d1[j] = d2[j]
    BY <1>1, <1>9 DEF d
  <2> HIDE DEF d1, d2
  <2>3. d1 = d2
    BY <2>1, <2>2
  <2>4. QED
    BY <2>3 DEF d1, d2
<1>13. QED
  BY <1>10, <1>11, <1>12 DEF g

(* Merging: the pair is taken, counted as one block of the bucket above,   *)
(* and given back.                                                         *)
LEMMA MergeKeepsPartition ==
  ASSUME NEW f, NEW c, NEW L, Partition(f, c, L),
         NEW k \in Levels, k + 1 < BUDY_COUNT,
         NEW a \in f[k], a + Size[k] \in f[k]
  PROVE  Partition(AddFree(Unlink(f, k, {a, a + Size[k]}), k + 1, a, 1),
                   [c EXCEPT ![k] = @ - 2, ![k + 1] = @ + 1], L)
<1> DEFINE g == Unlink(f, k, {a, a + Size[k]})
           d == [c EXCEPT ![k] = @ - 2]
           t == <<a, k, 2>>
           u == <<a, k + 1, 1>>
<1>1. k + 1 \in Levels /\ Size[k + 1] = 2 * Size[k] /\ k \in Nat /\ Size[k] \in Nat
  BY SizeFacts
<1>2. a \in Nat
  BY <1>1 DEF Partition, Types
<1>3. Blocks(a, k, 2) = {a, a + Size[k]}
  BY <1>1, <1>2, TwoBlocks
<1>4. Partition(g, d, L \cup {t})
  <2>1. Partition(Unlink(f, k, Blocks(a, k, 2)), [c EXCEPT ![k] = @ - 2],
                  L \cup {<<a, k, 2>>})
    BY <1>2, <1>3, TakeKeepsPartition
  <2>2. QED
    BY <1>3, <2>1
<1>5. \A m \in L : m[1] # a
  BY FreshHeader
<1>6. t \notin L /\ u \notin L /\ t # u
  BY <1>1, <1>5
<1>7. t[1] = a /\ u[1] = a /\ Bytes(t) = Bytes(u)
  BY <1>1 DEF Bytes
<1>8. Partition(g, d, L \cup {u})
  <2>1. Partition(g, d, ((L \cup {t}) \ {t}) \cup {u})
    <3>1. t \in L \cup {t} /\ u \in Nat \X Levels \X (Nat \ {0})
      BY <1>1, <1>2
    <3>2. QED
      BY <1>4, <1>7, <3>1, RenameKeepsPartition
  <2>2. (L \cup {t}) \ {t} = L
    BY <1>6
  <2>3. QED
    BY <2>1, <2>2
<1>9. d \in [Levels -> Int] /\ c \in [Levels -> Nat] /\ \A j \in Levels : j \in Int
  BY <1>1, SizeFacts DEF Partition, Types
<1> HIDE DEF g, d
<1>10. Partition(AddFree(g, k + 1, a, 1), [d EXCEPT ![k + 1] = @ + 1], (L \cup {u}) \ {u})
  <2> DEFINE M == L \cup {u}
  <2>1. Partition(g, d, M) /\ <<a, k + 1, 1>> \in M
    BY <1>8
  <2> HIDE DEF M
  <2>2. Partition(AddFree(g, k + 1, a, 1), [d EXCEPT ![k + 1] = @ + 1], M \ {<<a, k + 1, 1>>})
    BY <1>1, <1>2, <2>1, GiveKeepsPartition
  <2>3. QED
    BY <2>2 DEF M
<1>11. (L \cup {u}) \ {u} = L
  BY <1>6
<1>12. [d EXCEPT ![k + 1] = @ + 1] = [c EXCEPT ![k] = @ - 2, ![k + 1] = @ + 1]
  <2> DEFINE d1 == [d EXCEPT ![k + 1] = @ + 1]
             d2 == [c EXCEPT ![k] = @ - 2, ![k + 1] = @ + 1]
  <2>1. d1 \in [Levels -> Int] /\ d2 \in [Levels -> Int]
    BY <1>1, <1>9
  <2>2. \A j \in Levels : d1[j] = d2[j]
    BY <1>1, <1>9 DEF d
  <2> HIDE DEF d1, d2
  <2>3. d1 = d2
    BY <2>1, <2>2
  <2>4. QED
    BY <2>3 DEF d1, d2
<1>13. QED
  BY <1>10, <1>11, <1>12 DEF g

-----------------------------------------------------------------------------
(* The steps of the pool keep the partition.                               *)

(* The pages pool_create links are a partition of the pool: page i holds   *)
(* the bytes from i * z to (i + 1) * z.                                    *)
LEMMA InitPartition ==
  ASSUME Init
  PROVE  Partition(free, free_n, live)
<1> DEFINE z == Size[Top]
           B == Blocks(PoolStart, Top, PageCount)
<1>1. z \in Nat \ {0} /\ Top \in Levels /\ z = Size[Top] /\ PoolEnd = PoolStart + PageCount * z
  BY SizeFacts DEF PoolEnd
<1>2. PoolStart \in Nat /\ PageCount \in Nat \ {0} /\ PageCount * z \in Nat
  BY <1>1, PoolAssumption, Multiples
<1>3. B = {PoolStart + i * z : i \in 0 .. PageCount - 1}
  BY DEF Blocks
<1>4. B \subseteq Nat /\ Cardinality(B) = PageCount
  BY <1>1, <1>2, BlocksCount
<1> HIDE DEF z, B
<1>5. /\ free \in [Levels -> SUBSET Nat] /\ free_n \in [Levels -> Nat]
      /\ free[Top] = B /\ free_n[Top] = PageCount
      /\ \A k \in Levels : k # Top => free[k] = {} /\ free_n[k] = 0
      /\ live = {}
  BY <1>1, <1>2, <1>4 DEF Init, B
<1>6. Types(free, free_n, live) /\ Counts(free, free_n)
  BY <1>4, <1>5, FS_EmptySet DEF Types, Counts
<1>7. Within(free, live)
  <2>1. ASSUME NEW b \in B
        PROVE  PoolStart <= b /\ b + z <= PoolEnd
    <3>1. PICK i \in 0 .. PageCount - 1 : b = PoolStart + i * z
      BY <1>3
    <3>2. QED
      BY <1>1, <1>2, <3>1, PieceInRun
  <2>2. QED
    BY <1>1, <1>5, <2>1 DEF Within
<1>8. NoOverlap(free, live)
  <2>1. ASSUME NEW b \in B, NEW p \in B
        PROVE  b = p \/ Apart(b, z, p, z)
    <3>1. PICK i \in 0 .. PageCount - 1 : b = PoolStart + i * z
      BY <1>3
    <3>2. PICK j \in 0 .. PageCount - 1 : p = PoolStart + j * z
      BY <1>3
    <3>3. CASE i = j
      BY <3>1, <3>2, <3>3
    <3>4. CASE i # j
      BY <1>1, <1>2, <3>1, <3>2, <3>4, BlocksApart
    <3>5. QED
      BY <3>3, <3>4
  <2>2. QED
    BY <1>1, <1>5, <2>1 DEF NoOverlap
<1>9. ASSUME NEW x \in PoolStart .. PoolEnd - 1
      PROVE  Holds(x, free, live)
  <2>1. x \in Nat /\ PoolStart <= x /\ x < PoolStart + PageCount * z
    BY <1>1, <1>2
  <2>2. PICK i \in 0 .. PageCount - 1 : PoolStart + i * z <= x /\ x < PoolStart + i * z + z
    BY <1>1, <1>2, <2>1, ByteInPiece
  <2>3. PoolStart + i * z \in free[Top]
    BY <1>3, <1>5
  <2>4. QED
    BY <1>1, <2>2, <2>3 DEF Holds
<1>10. QED
  BY <1>6, <1>7, <1>8, <1>9 DEF Partition

(* The inductive invariant contains the partition.                         *)
LEMMA PoolPartition ==
  ASSUME PoolInv
  PROVE  Partition(free, free_n, live)
BY DEF PoolInv, TypeOK, InArena, Disjoint, Covered, CountersMatch, Partition, Types

(* pool_malloc takes the first n of the n + 1 pages it has found.          *)
LEMMA MallocLargePartition ==
  ASSUME PoolInv, MallocLarge
  PROVE  Partition(free', free_n', live')
<1> DEFINE n == PagesOf(req, Size[Top])
<1>1. PICK block \in Runs(n) :
           /\ free'   = Unlink(free, Top, Blocks(block, Top, n))
           /\ free_n' = [free_n EXCEPT ![Top] = @ - n]
           /\ live'   = live \cup {<<block, Top, n>>}
  BY DEF MallocLarge
<1>2. n \in Nat \ {0}
  <2>1. req \in Requests \ {0} /\ Padded(req) > Size[Top]
    BY DEF MallocLarge, PoolInv, TypeOK, IsLarge
  <2>2. ~ (Padded(req) <= Size[Top])
    BY <2>1, PaddedFacts, SizeFacts
  <2>3. QED
    BY <2>1, <2>2, RequestFits
<1> HIDE DEF n
<1>3. block \in free[Top] /\ Blocks(block, Top, n + 1) \subseteq free[Top]
  BY <1>1 DEF Runs
<1>4. Blocks(block, Top, n) \subseteq free[Top] /\ block \in Nat
  <2>1. Blocks(block, Top, n) \subseteq Blocks(block, Top, n + 1)
    BY <1>2 DEF Blocks
  <2>2. QED
    BY <1>3, <2>1, SizeFacts DEF PoolInv, TypeOK
<1>5. QED
  BY <1>1, <1>2, <1>4, PoolPartition, SizeFacts, TakeKeepsPartition

(* pool_malloc takes the head of a list.                                   *)
LEMMA TakeBlockPartition ==
  ASSUME PoolInv, TakeBlock
  PROVE  Partition(free', free_n', live')
<1>1. PICK block \in free[want] :
           /\ free'   = Unlink(free, want, {block})
           /\ free_n' = [free_n EXCEPT ![want] = @ - 1]
           /\ live'   = live \cup {<<block, want, 1>>}
  BY DEF TakeBlock
<1>2. want \in Levels /\ block \in Nat
  BY DEF PoolInv, TypeOK
<1>3. Blocks(block, want, 1) = {block}
  BY <1>2, OneBlock
<1>4. Partition(Unlink(free, want, Blocks(block, want, 1)),
                [free_n EXCEPT ![want] = @ - 1], live \cup {<<block, want, 1>>})
  BY <1>2, <1>3, PoolPartition, TakeKeepsPartition
<1>5. QED
  BY <1>1, <1>3, <1>4

(* pool_pull_upper takes the head of the upper list and splits it.         *)
LEMMA PullSplitPartition ==
  ASSUME PoolInv, PullSplit
  PROVE  Partition(free', free_n', live')
<1>1. PICK block \in free[lvl + 1] :
         /\ free' = AddFree(Unlink(free, lvl + 1, {block}), lvl, block, 2)
         /\ free_n' = [free_n EXCEPT ![lvl + 1] = @ - 1, ![lvl] = @ + 2]
  BY DEF PullSplit
<1>2. lvl \in Levels /\ lvl + 1 < BUDY_COUNT /\ live' = live
  BY SizeFacts, PoolAssumption DEF PullSplit, PoolInv, TypeOK, CallInv, Top
<1>3. QED
  BY <1>1, <1>2, PoolPartition, SplitKeepsPartition

(* pool_free gives back what the header says.                              *)
LEMMA PoolFreePartition ==
  ASSUME PoolInv, NEW bh \in live, PoolFree(bh)
  PROVE  Partition(free', free_n', live')
<1>1. /\ bh = <<bh[1], bh[2], bh[3]>>
      /\ bh[1] \in Nat /\ bh[2] \in Levels /\ bh[3] \in Nat \ {0}
  BY DEF PoolInv, TypeOK
<1>2. QED
  BY <1>1, PoolPartition, GiveKeepsPartition DEF PoolFree

(* pool_try_shrink merges the block at curr with its successor.            *)
LEMMA ShrinkMergePartition ==
  ASSUME PoolInv, ShrinkMerge
  PROVE  Partition(free', free_n', live')
<1>1. /\ lvl \in Levels /\ lvl + 1 < BUDY_COUNT /\ live' = live
      /\ cur \in free[lvl] /\ cur \in Nat /\ cur # NULL
  BY SizeFacts, PoolAssumption DEF ShrinkMerge, PoolInv, TypeOK, CallInv, Top
<1>2. cur + Size[lvl] \in free[lvl]
  BY <1>1, SizeFacts DEF ShrinkMerge, Mergeable, IsHeadOf, IsFirst, After, NULL
<1>3. QED
  BY <1>1, <1>2, PoolPartition, MergeKeepsPartition DEF ShrinkMerge

(* Every other step leaves the memory alone.                               *)
LEMMA NextPartition ==
  ASSUME PoolInv, [Next]_vars
  PROVE  Partition(free', free_n', live')
<1>1. CASE MallocLarge
  BY <1>1, MallocLargePartition
<1>2. CASE TakeBlock
  BY <1>2, TakeBlockPartition
<1>3. CASE PullSplit
  BY <1>3, PullSplitPartition
<1>4. CASE \E bh \in live : PoolFree(bh)
  BY <1>4, PoolFreePartition
<1>5. CASE ShrinkMerge
  BY <1>5, ShrinkMergePartition
<1>6. CASE UNCHANGED <<free, free_n, live>>
  BY <1>6, PoolPartition
<1>7. QED
  <2>1. CASE UNCHANGED vars
    BY <1>6, <2>1 DEF vars
  <2>2. CASE Next
    BY <1>1, <1>2, <1>3, <1>4, <1>5, <1>6, <2>2
       DEF Next, PoolMalloc, Running, Malloc, PullUpper, TryShrink, lists,
           MallocNothing, MallocLargeFails, MallocSmall, TakeFails,
           PullAtTop, PullRecurse, PullNothing,
           ShrinkTop, ShrinkEnter, ShrinkSkip, ShrinkNextLevel
  <2>3. QED
    BY <2>1, <2>2

-----------------------------------------------------------------------------
(* The locals of the running call.                                         *)

(* A bucket whose counter is zero has no block, and the other way round.   *)
LEMMA CounterZero ==
  ASSUME NEW f, NEW c, NEW L, Partition(f, c, L), NEW k \in Levels
  PROVE  c[k] \in Nat /\ (c[k] = 0 <=> f[k] = {})
<1>1. IsFiniteSet(f[k]) /\ c[k] = Cardinality(f[k]) /\ c[k] \in Nat
  BY ListCount DEF Partition, Counts, Types
<1>2. QED
  BY <1>1, FS_EmptySet

(* A small request has a bucket, and its blocks are long enough.           *)
LEMMA BucketFacts ==
  ASSUME NEW size \in Requests \ {0}, ~ IsLarge(size)
  PROVE  BucketOf(size) \in Levels /\ size + HEADER <= Size[BucketOf(size)]
<1>1. Padded(size) <= Size[Top]
  BY PaddedFacts, SizeFacts DEF IsLarge
<1>2. QED
  BY <1>1, RequestFits

(* pool_malloc keeps what is known of a call: a request goes on to         *)
(* pool_pull_upper when it has found its bucket empty.                     *)
LEMMA MallocLocals ==
  ASSUME PoolInv, Malloc
  PROVE  CallInv' /\ NothingLeftToMerge' /\ pc' \in {"idle", "pull", "take"}
         /\ req' \in Requests \cup {0} /\ want' \in Levels /\ lvl' \in Levels /\ cur' \in Nat
<1>1. 0 \in Levels
  BY PoolAssumption DEF Levels
<1>2. CASE MallocSmall
  <2>1. /\ req \in Requests \ {0} /\ ~ IsLarge(req) /\ want' = BucketOf(req)
        /\ want' \in Levels /\ lvl' = want' /\ free_n' = free_n /\ req' = req /\ cur' = cur
        /\ pc' = IF free_n[want'] = 0 THEN "pull" ELSE "take"
    BY <1>2, BucketFacts DEF MallocSmall, PoolInv, TypeOK, lists
  <2>2. want' \in Nat /\ want' .. lvl' = {want'}
    BY <2>1, SizeFacts
  <2>3. CallInv'
    BY <2>1, <2>2 DEF CallInv
  <2>4. QED
    BY <2>1, <2>3 DEF PoolInv, TypeOK, NothingLeftToMerge
<1>3. CASE Return
  BY <1>1, <1>3 DEF Return, CallInv, NothingLeftToMerge, NULL
<1>4. QED
  BY <1>2, <1>3 DEF Malloc, MallocNothing, MallocLarge, MallocLargeFails, TakeBlock, TakeFails

(* So does pool_pull_upper: it goes up only past empty buckets, and        *)
(* comes back either with a block or with all of them empty.               *)
LEMMA PullLocals ==
  ASSUME PoolInv, PullUpper
  PROVE  CallInv' /\ NothingLeftToMerge' /\ pc' \in {"pull", "split", "take"}
         /\ req' \in Requests \cup {0} /\ want' \in Levels /\ lvl' \in Levels /\ cur' \in Nat
<1>1. /\ pc \in {"pull", "split"} /\ req' = req /\ want' = want /\ cur' = cur
      /\ want \in Levels /\ lvl \in Levels /\ req \in Requests \cup {0} /\ cur \in Nat
      /\ free_n \in [Levels -> Nat]
  BY DEF PullUpper, PullAtTop, PullRecurse, PullNothing, PullSplit, PoolInv, TypeOK
<1>2. /\ want \in Nat /\ lvl \in Nat /\ Top \in Nat /\ BUDY_COUNT = Top + 1
      /\ lvl <= Top /\ want <= lvl
      /\ \A j \in want .. lvl : free_n[j] = 0
      /\ \A j \in Int : j \in Levels <=> 0 <= j /\ j <= Top
  BY <1>1, SizeFacts, PoolAssumption DEF PoolInv, CallInv, Levels, Top
<1>3. req \in Requests \ {0} /\ ~ IsLarge(req) /\ want = BucketOf(req)
  BY <1>1 DEF PoolInv, CallInv
<1>4. CASE PullRecurse
  <2>1. free_n' = free_n /\ lvl + 1 \in Levels /\ lvl < Top
    BY <1>2, <1>4 DEF PullRecurse, lists
  <2>2. CASE free_n[lvl + 1] = 0
    <3>1. pc' = "pull" /\ lvl' = lvl + 1
      BY <1>4, <2>2 DEF PullRecurse
    <3>2. \A j \in want .. lvl + 1 : free_n[j] = 0
      BY <1>2, <2>2
    <3>3. CallInv'
      BY <1>1, <1>2, <1>3, <2>1, <3>1, <3>2 DEF CallInv
    <3>4. QED
      BY <1>1, <2>1, <3>1, <3>3 DEF NothingLeftToMerge
  <2>3. CASE free_n[lvl + 1] # 0
    <3>1. pc' = "split" /\ lvl' = lvl
      BY <1>4, <2>3 DEF PullRecurse
    <3>2. CallInv'
      BY <1>1, <1>2, <1>3, <2>1, <2>3, <3>1 DEF CallInv
    <3>3. QED
      BY <1>1, <2>1, <3>1, <3>2 DEF NothingLeftToMerge
  <2>4. QED
    BY <2>2, <2>3
(* The returns: what is left of the invariant is whether the bucket the    *)
(* caller looks at is dry all the way up when it is empty.                 *)
<1>5. ASSUME PullReturns, free_n' \in [Levels -> Nat],
             \A j \in want .. lvl - 1 : free_n'[j] = 0,
             free_n'[lvl] = 0 => \A j \in lvl .. Top : free_n'[j] = 0
      PROVE  CallInv' /\ NothingLeftToMerge' /\ pc' \in {"split", "take"} /\ lvl' \in Levels
  <2>1. CASE lvl = want
    <3>1. pc' = "take" /\ lvl' = lvl
      BY <1>5, <2>1 DEF PullReturns
    <3>2. CallInv'
      BY <1>1, <1>3, <1>5, <2>1, <3>1 DEF CallInv, Dry
    <3>3. QED
      BY <1>1, <3>1, <3>2 DEF NothingLeftToMerge
  <2>2. CASE lvl # want
    <3>1. pc' = "split" /\ lvl' = lvl - 1
      BY <1>5, <2>2 DEF PullReturns
    <3>2. lvl' \in Levels /\ want <= lvl' /\ lvl' < Top /\ lvl' + 1 = lvl
      BY <1>2, <2>2, <3>1
    <3>3. \A j \in want .. lvl' : free_n'[j] = 0
      BY <1>5, <3>1
    <3>4. CallInv'
      BY <1>1, <1>3, <1>5, <3>1, <3>2, <3>3 DEF CallInv, Dry
    <3>5. QED
      BY <3>1, <3>2, <3>4 DEF NothingLeftToMerge
  <2>3. QED
    BY <2>1, <2>2
<1>6. CASE PullAtTop
  <2>1. lvl = Top /\ free_n' = free_n /\ PullReturns
    BY <1>2, <1>6 DEF PullAtTop, lists
  <2>2. /\ \A j \in want .. lvl - 1 : free_n'[j] = 0
        /\ \A j \in lvl .. Top : free_n'[j] = 0
    BY <1>2, <2>1
  <2>3. QED
    BY <1>1, <1>5, <2>1, <2>2
<1>7. CASE PullNothing
  <2>1. free_n' = free_n /\ PullReturns /\ pc = "split" /\ free_n[lvl + 1] = 0
    BY <1>7 DEF PullNothing, lists
  <2>2. \A j \in lvl + 1 .. Top : free_n[j] = 0
    BY <2>1 DEF PoolInv, CallInv, Dry
  <2>3. /\ \A j \in want .. lvl - 1 : free_n'[j] = 0
        /\ \A j \in lvl .. Top : free_n'[j] = 0
    BY <1>2, <2>1, <2>2
  <2>4. QED
    BY <1>1, <1>5, <2>1, <2>3
<1>8. CASE PullSplit
  <2>1. /\ PullReturns /\ pc = "split" /\ lvl < Top /\ lvl + 1 \in Levels
        /\ free_n' = [free_n EXCEPT ![lvl + 1] = @ - 1, ![lvl] = @ + 2]
    BY <1>2, <1>8 DEF PullSplit, PoolInv, CallInv
  <2>2. free_n' \in [Levels -> Nat]
    BY <1>8, PullSplitPartition DEF Partition, Types
  <2>3. \A j \in Levels : j < lvl => free_n'[j] = free_n[j]
    BY <1>1, <1>2, <2>1
  <2>4. \A j \in want .. lvl - 1 : free_n'[j] = 0
    BY <1>2, <2>3
  <2>5. free_n'[lvl] = free_n[lvl] + 2 /\ free_n[lvl] \in Nat
    BY <1>1, <1>2, <2>1
  <2>6. free_n'[lvl] # 0
    BY <2>5
  <2>7. CallInv' /\ NothingLeftToMerge' /\ pc' \in {"split", "take"} /\ lvl' \in Levels
    BY <1>5, <2>1, <2>2, <2>4, <2>6
  <2>8. QED
    BY <1>1, <2>7
<1>9. QED
  BY <1>4, <1>6, <1>7, <1>8 DEF PullUpper

(* A call begins.                                                          *)
LEMMA BeginLocals ==
  ASSUME PoolInv,
         (\E size \in Requests : PoolMalloc(size)) \/ (\E bh \in live : PoolFree(bh))
  PROVE  CallInv' /\ NothingLeftToMerge' /\ pc' \in {"idle", "malloc", "enter"}
         /\ req' \in Requests \cup {0} /\ want' \in Levels /\ lvl' \in Levels /\ cur' \in Nat
<1>1. /\ want \in Levels /\ lvl \in Levels /\ req \in Requests \cup {0} /\ cur \in Nat
      /\ \A k \in Levels : k \in Nat
  BY SizeFacts DEF PoolInv, TypeOK
<1>2. CASE \E size \in Requests : PoolMalloc(size)
  BY <1>1, <1>2 DEF PoolMalloc, CallInv, NothingLeftToMerge
<1>3. CASE \E bh \in live : PoolFree(bh)
  <2>1. PICK bh \in live : PoolFree(bh)
    BY <1>3
  <2>2. bh[2] \in Levels
    BY DEF PoolInv, TypeOK
  <2>3. CASE pc' = "enter" /\ want' = bh[2] /\ lvl' = bh[2] /\ UNCHANGED <<req, cur>>
    <3>1. want' .. lvl' - 1 = {} /\ want' <= lvl'
      BY <1>1, <2>2, <2>3
    <3>2. QED
      BY <1>1, <2>2, <2>3, <3>1 DEF CallInv, NothingLeftToMerge
  <2>4. CASE UNCHANGED locals
    BY <1>1, <2>1, <2>4 DEF PoolFree, locals, CallInv, NothingLeftToMerge
  <2>5. QED
    BY <2>1, <2>3, <2>4 DEF PoolFree
<1>4. QED
  BY <1>2, <1>3

(* Two blocks of a list are at least a block apart, so a block that is     *)
(* touched is touched by its successor.                                    *)
LEMMA TouchingIsNext ==
  ASSUME NEW f, NEW c, NEW L, Partition(f, c, L), NEW k \in Levels,
         NEW a \in f[k], a + Size[k] \in f[k]
  PROVE  IsHeadOf(a + Size[k], After(a, f[k]))
<1>1. f[k] \subseteq Nat /\ Size[k] \in Nat \ {0}
  BY SizeFacts DEF Partition, Types
<1>2. ASSUME NEW b \in f[k], b > a
      PROVE  a + Size[k] <= b
  <2>1. Apart(a, Size[k], b, Size[k]) \/ a = b
    BY DEF Partition, NoOverlap
  <2>2. QED
    BY <1>1, <1>2, <2>1 DEF Apart
<1>3. QED
  BY <1>1, <1>2 DEF IsHeadOf, IsFirst, After

(* Taking blocks out of a list makes no pair of it mergeable.              *)
LEMMA NoNewPair ==
  ASSUME PoolInv, NEW k \in Levels, free'[k] \subseteq free[k],
         NEW a \in free'[k], Mergeable(a, k)'
  PROVE  Mergeable(a, k)
<1>1. free[k] \subseteq Nat /\ Size[k] \in Nat \ {0} /\ a \in free[k] /\ a \in Nat
  BY SizeFacts DEF PoolInv, TypeOK
<1>2. a + Size[k] \in free'[k] /\ a % Size[k] = 0
  BY <1>1 DEF Mergeable, IsHeadOf, IsFirst, After, NULL
<1>3. IsHeadOf(a + Size[k], After(a, free[k]))
  BY <1>1, <1>2, PoolPartition, TouchingIsNext
<1>4. QED
  BY <1>2, <1>3 DEF Mergeable

(* And pool_try_shrink: the part of the list behind curr, and the          *)
(* buckets below, hold no pair that would merge.                           *)
LEMMA ShrinkLocals ==
  ASSUME PoolInv, TryShrink
  PROVE  CallInv' /\ NothingLeftToMerge' /\ pc' \in {"idle", "enter", "scan"}
         /\ req' \in Requests \cup {0} /\ want' \in Levels /\ lvl' \in Levels /\ cur' \in Nat
<1>1. /\ want \in Levels /\ lvl \in Levels /\ req \in Requests \cup {0} /\ cur \in Nat
      /\ want \in Nat /\ lvl \in Nat /\ Top \in Nat /\ BUDY_COUNT = Top + 1
      /\ \A j \in Int : j \in Levels <=> 0 <= j /\ j <= Top
      /\ \A k \in Levels : free[k] \subseteq Nat /\ Size[k] \in Nat \ {0}
  BY SizeFacts, PoolAssumption DEF PoolInv, TypeOK, Levels, Top
<1>2. 0 \in Levels /\ \A k \in Levels : NULL \notin free[k]
  BY PoolAssumption DEF Levels, PoolInv, InArena, Within, NULL
<1>3. pc \in {"enter", "scan"} /\ want <= lvl
      /\ \A k \in want .. lvl - 1 : \A a \in free[k] : ~ Mergeable(a, k)
  BY DEF TryShrink, ShrinkTop, ShrinkEnter, ShrinkMerge, ShrinkSkip, ShrinkNextLevel,
         PoolInv, CallInv, NothingLeftToMerge
<1>4. CASE ShrinkTop
  BY <1>2, <1>4 DEF ShrinkTop, Return, CallInv, NothingLeftToMerge, NULL
<1>5. CASE ShrinkEnter
  <2>1. PICK p \in free[lvl] \cup {NULL} : IsHeadOf(p, free[lvl]) /\ cur' = p
    BY <1>5 DEF ShrinkEnter
  <2>2. /\ free' = free /\ lvl' = lvl /\ want' = want /\ req' = req
        /\ pc' = "scan" /\ lvl < Top
    BY <1>1, <1>5 DEF ShrinkEnter, lists
  <2>3. \A a \in free[lvl] : ~ (p = NULL \/ a < p)
    <3>1. CASE free[lvl] = {}
      BY <3>1
    <3>2. CASE free[lvl] # {}
      <4>1. IsFirst(p, free[lvl])
        BY <2>1, <3>2 DEF IsHeadOf
      <4>2. p \in free[lvl] /\ p # NULL /\ p \in Nat /\ \A a \in free[lvl] : a \in Nat /\ p <= a
        BY <1>1, <1>2, <4>1 DEF IsFirst
      <4>3. QED
        BY <4>2
    <3>3. QED
      BY <3>1, <3>2
  <2>4. CallInv'
    BY <1>1, <1>3, <2>1, <2>2, <2>3 DEF CallInv
  <2>5. NothingLeftToMerge'
    BY <1>3, <2>2 DEF NothingLeftToMerge, Mergeable
  <2>6. QED
    BY <1>1, <2>1, <2>2, <2>4, <2>5 DEF NULL
<1>6. CASE ShrinkSkip
  <2>1. PICK p \in free[lvl] \cup {NULL} : IsHeadOf(p, After(cur, free[lvl])) /\ cur' = p
    BY <1>6 DEF ShrinkSkip
  <2>2. /\ free' = free /\ lvl' = lvl /\ want' = want /\ req' = req
        /\ pc' = "scan" /\ pc = "scan" /\ lvl < Top
        /\ cur # NULL /\ ~ Mergeable(cur, lvl) /\ cur \in free[lvl]
        /\ \A a \in free[lvl] : a < cur => ~ Mergeable(a, lvl)
    BY <1>6 DEF ShrinkSkip, lists, PoolInv, CallInv
  <2>3. \A a \in free[lvl] : p = NULL \/ a < p => a <= cur
    BY <1>1, <2>1, <2>2 DEF IsHeadOf, IsFirst, After, NULL
  <2>4. \A a \in free[lvl] : p = NULL \/ a < p => ~ Mergeable(a, lvl)
    BY <1>1, <2>2, <2>3
  <2>5. CallInv'
    BY <1>1, <1>3, <2>1, <2>2, <2>4 DEF CallInv, Mergeable
  <2>6. NothingLeftToMerge'
    BY <1>3, <2>2 DEF NothingLeftToMerge, Mergeable
  <2>7. QED
    BY <1>1, <2>1, <2>2, <2>5, <2>6 DEF NULL
<1>7. CASE ShrinkMerge
  <2>1. PICK p \in free[lvl] \cup {NULL} :
          IsHeadOf(p, After(cur + Size[lvl], free[lvl])) /\ cur' = p
    BY <1>7 DEF ShrinkMerge
  <2>2. /\ lvl' = lvl /\ want' = want /\ req' = req
        /\ pc' = "scan" /\ pc = "scan" /\ lvl < Top
        /\ cur # NULL /\ cur \in free[lvl] /\ Mergeable(cur, lvl)
        /\ free' = AddFree(Unlink(free, lvl, {cur, cur + Size[lvl]}), lvl + 1, cur, 1)
        /\ \A a \in free[lvl] : a < cur => ~ Mergeable(a, lvl)
    BY <1>7 DEF ShrinkMerge, PoolInv, CallInv
  <2>3. /\ free'[lvl] = free[lvl] \ {cur, cur + Size[lvl]}
        /\ \A j \in Levels : j < lvl => free'[j] = free[j]
    BY <1>1, <2>2 DEF AddFree, Unlink, PoolInv, TypeOK
  <2>4. /\ IsFirst(cur + Size[lvl], After(cur, free[lvl]))
        /\ cur + Size[lvl] > cur
    BY <1>1, <2>2 DEF Mergeable, IsHeadOf, NULL
  <2> DEFINE R == After(cur + Size[lvl], free[lvl])
  <2>5. /\ R \subseteq free[lvl]
        /\ \A a \in free[lvl] : a \in R <=> a > cur + Size[lvl]
        /\ \A a \in free[lvl] : a > cur => cur + Size[lvl] <= a
    BY <1>1, <2>4 DEF IsFirst, After
  <2>6. /\ p = NULL => R = {}
        /\ p # NULL => p \in R /\ \A a \in R : p <= a
    BY <1>1, <1>2, <2>1, <2>5 DEF IsHeadOf, IsFirst
  <2> HIDE DEF R
  <2>7. ASSUME NEW a \in free'[lvl], p = NULL \/ a < p
        PROVE  a < cur
    <3>1. a \in free[lvl] /\ a # cur /\ a # cur + Size[lvl] /\ a \in Nat
      BY <1>1, <2>3
    <3>2. a \notin R
      BY <1>1, <2>7, <2>5, <2>6
    <3>3. QED
      BY <1>1, <2>5, <3>1, <3>2
  <2>8. ASSUME NEW a \in free'[lvl], p = NULL \/ a < p
        PROVE  ~ Mergeable(a, lvl)'
    BY <1>1, <2>2, <2>3, <2>7, <2>8, NoNewPair
  <2>9. p = NULL \/ p \in free'[lvl]
    BY <1>1, <2>3, <2>4, <2>5, <2>6
  <2>10. CallInv'
    BY <1>1, <1>3, <2>1, <2>2, <2>8, <2>9 DEF CallInv, Mergeable
  <2>11. ASSUME NEW k \in want .. lvl - 1, NEW a \in free'[k]
        PROVE  ~ Mergeable(a, k)'
    <3>1. k \in Levels /\ k < lvl
      BY <1>1
    <3>2. free'[k] = free[k]
      BY <2>3, <3>1
    <3>3. ~ Mergeable(a, k)
      BY <1>3, <3>2
    <3>4. QED
      BY <3>1, <3>2, <3>3, NoNewPair
  <2>12. NothingLeftToMerge'
    BY <2>2, <2>11 DEF NothingLeftToMerge, Mergeable
  <2>13. QED
    BY <1>1, <2>1, <2>2, <2>10, <2>12 DEF NULL
<1>8. CASE ShrinkNextLevel
  <2>1. /\ free' = free /\ lvl' = lvl + 1 /\ want' = want /\ req' = req /\ cur' = cur
        /\ pc' = "enter" /\ lvl < Top
        /\ \A a \in free[lvl] : ~ Mergeable(a, lvl)
    BY <1>8 DEF ShrinkNextLevel, lists, PoolInv, CallInv
  <2>2. lvl' \in Levels /\ want' <= lvl'
    BY <1>1, <1>3, <2>1
  <2>3. CallInv'
    BY <2>1, <2>2 DEF CallInv
  <2>4. \A k \in want .. lvl : \A a \in free[k] : ~ Mergeable(a, k)
    BY <1>1, <1>3, <2>1
  <2>5. NothingLeftToMerge'
    BY <1>1, <2>1, <2>4 DEF NothingLeftToMerge, Mergeable
  <2>6. QED
    BY <1>1, <2>1, <2>2, <2>3, <2>5
<1>9. QED
  BY <1>4, <1>5, <1>6, <1>7, <1>8 DEF TryShrink

-----------------------------------------------------------------------------
(* The theorems.                                                           *)

(* A new pool satisfies the invariant.                                     *)
LEMMA InitInv ==
  ASSUME Init
  PROVE  PoolInv
<1>1. Partition(free, free_n, live)
  BY InitPartition
<1>2. 0 \in Levels
  BY PoolAssumption DEF Levels
<1>3. TypeOK
  BY <1>1, <1>2 DEF Init, Partition, Types, TypeOK, NULL
<1>4. CallInv /\ NothingLeftToMerge
  BY DEF Init, CallInv, NothingLeftToMerge
<1>5. QED
  BY <1>1, <1>3, <1>4 DEF PoolInv, Partition, InArena, Disjoint, Covered, CountersMatch

(* Every step keeps it.                                                    *)
LEMMA NextInv ==
  ASSUME PoolInv, [Next]_vars
  PROVE  PoolInv'
<1>1. Partition(free', free_n', live')
  BY NextPartition
<1>2. /\ CallInv' /\ NothingLeftToMerge'
      /\ pc' \in {"idle", "malloc", "pull", "split", "take", "enter", "scan"}
      /\ req' \in Requests \cup {0} /\ want' \in Levels /\ lvl' \in Levels /\ cur' \in Nat
  <2>1. CASE UNCHANGED vars
    BY <2>1 DEF vars, PoolInv, TypeOK, CallInv, NothingLeftToMerge, Dry, Mergeable
  <2>2. CASE (\E size \in Requests : PoolMalloc(size)) \/ (\E bh \in live : PoolFree(bh))
    BY <2>2, BeginLocals
  <2>3. CASE Malloc
    BY <2>3, MallocLocals
  <2>4. CASE PullUpper
    BY <2>4, PullLocals
  <2>5. CASE TryShrink
    BY <2>5, ShrinkLocals
  <2>6. QED
    BY <2>1, <2>2, <2>3, <2>4, <2>5 DEF Next, Running
<1>3. TypeOK'
  BY <1>1, <1>2 DEF Partition, Types, TypeOK
<1>4. InArena' /\ Disjoint' /\ Covered' /\ CountersMatch'
  BY <1>1 DEF Partition, InArena, Disjoint, Covered, CountersMatch
<1>5. QED
  BY <1>2, <1>3, <1>4 DEF PoolInv

(* The inductive invariant holds of every execution.                       *)
THEOREM InvHolds == Spec => []PoolInv
<1>1. Init => PoolInv
  BY InitInv
<1>2. PoolInv /\ [Next]_vars => PoolInv'
  BY NextInv
<1>3. QED
  BY <1>1, <1>2, PTL DEF Spec

(* The variables keep the types of the code's declarations: the counters,  *)
(* decremented by TakeBlock, PullSplit and ShrinkMerge, never wrap below 0.*)
THEOREM TypesHold == Spec => []TypeOK
<1>1. PoolInv => TypeOK
  BY DEF PoolInv
<1>2. QED
  BY <1>1, InvHolds, PTL

(* Whatever is taken, split, merged and given back, no two blocks overlap, *)
(* for every number of buckets and pages.                                  *)
THEOREM NeverOverlaps == Spec => []Disjoint
<1>1. PoolInv => Disjoint
  BY DEF PoolInv
<1>2. QED
  BY <1>1, InvHolds, PTL

(* No byte of the pool is ever lost, and nothing outside it is handed out. *)
THEOREM NothingLost == Spec => [](Covered /\ InArena)
<1>1. PoolInv => Covered /\ InArena
  BY DEF PoolInv
<1>2. QED
  BY <1>1, InvHolds, PTL

(* The counters pool_malloc trusts before it dereferences a list head are  *)
(* the lengths of the lists.                                               *)
THEOREM CountersAreLengths == Spec => []CountersMatch
<1>1. PoolInv => CountersMatch
  BY DEF PoolInv
<1>2. QED
  BY <1>1, InvHolds, PTL

(* pool_try_shrink leaves no pair its test would merge in the buckets it   *)
(* has been through.                                                       *)
THEOREM ShrinkIsThorough == Spec => []NothingLeftToMerge
<1>1. PoolInv => NothingLeftToMerge
  BY DEF PoolInv
<1>2. QED
  BY <1>1, InvHolds, PTL

(* A small request is refused only when its bucket and all above are empty.*)
THEOREM RefusalIsHonest == Spec => RefusedOnlyWhenDry
<1>1. PoolInv /\ [Next]_vars => [TakeFails => \A k \in want .. Top : free[k] = {}]_vars
  <2>1. SUFFICES ASSUME PoolInv, TakeFails, NEW k \in want .. Top
                 PROVE  free[k] = {}
    OBVIOUS
  <2>2. free_n[k] = 0
    BY <2>1 DEF TakeFails, PoolInv, CallInv, Dry
  <2>3. k \in Levels
    BY <2>1, SizeFacts, PoolAssumption DEF PoolInv, TypeOK, Levels, Top
  <2>4. QED
    BY <2>1, <2>2, <2>3, PoolPartition, CounterZero
<1>2. QED
  BY <1>1, InvHolds, PTL DEF Spec, RefusedOnlyWhenDry

-----------------------------------------------------------------------------
(* The alignment of blocks.                                                *)

LEMMA ExactMultiple ==
  ASSUME NEW q \in Int, NEW d \in Nat \ {0}, NEW x, x = d * q
  PROVE  x % d = 0
OBVIOUS

LEMMA SumOfMultiples ==
  ASSUME NEW a \in Int, NEW b \in Int, NEW d \in Nat \ {0}, a % d = 0, b % d = 0
  PROVE  (a + b) % d = 0
<1> DEFINE p == a \div d
           q == b \div d
<1>1. p \in Int /\ q \in Int /\ a = d * p /\ b = d * q
  OBVIOUS
<1> HIDE DEF p, q
<1>2. a + b = d * (p + q) /\ p + q \in Int
  BY <1>1
<1>3. QED
  BY <1>2, ExactMultiple

LEMMA MultipleOfMultiple ==
  ASSUME NEW i \in Int, NEW a \in Int, NEW d \in Nat \ {0}, a % d = 0
  PROVE  i * a \in Int /\ (i * a) % d = 0
<1> DEFINE p == a \div d
<1>1. p \in Int /\ a = d * p
  OBVIOUS
<1> HIDE DEF p
<1>2. i * a = d * (i * p) /\ i * p \in Int
  BY <1>1
<1>3. QED
  BY <1>1, <1>2, ExactMultiple

(* The alignment that pool_try_shrink keeps for bucket k.                  *)
Grain(k) == IF k = 0 THEN Size[0] ELSE Size[k - 1]

Aligned(f, L) ==
  /\ \A k \in Levels : \A a \in f[k] : a % Grain(k) = 0
  /\ \A m \in L : m[1] % Grain(m[2]) = 0

LEMMA GrainFacts ==
  ASSUME NEW k \in Levels
  PROVE  /\ Grain(k) \in Nat \ {0} /\ Size[k] % Grain(k) = 0
         /\ k + 1 \in Levels => Grain(k + 1) = Size[k]
         /\ \A x \in Nat : x % Size[k] = 0 => x % Grain(k) = 0
<1>1. k \in Nat /\ Size[k] \in Nat \ {0}
  BY SizeFacts, PoolAssumption DEF Levels
<1>2. CASE k = 0
  BY <1>1, <1>2 DEF Grain
<1>3. CASE k # 0
  <2> DEFINE d == Size[k - 1]
  <2>1. d \in Nat \ {0} /\ Size[k] = 2 * d /\ Grain(k) = d
    <3>1. k - 1 \in Levels \ {Top} /\ (k - 1) + 1 = k
      BY <1>1, <1>3, PoolAssumption DEF Levels, Top
    <3>2. k - 1 \in Levels /\ (k - 1) + 1 < BUDY_COUNT
      BY <3>1, PoolAssumption DEF Levels
    <3>3. Size[(k - 1) + 1] = 2 * Size[k - 1] /\ Size[k - 1] \in Nat \ {0}
      BY <3>2, SizeFacts
    <3>4. QED
      BY <1>3, <3>1, <3>3 DEF Grain
  <2> HIDE DEF d
  <2>2. d % d = 0 /\ 2 * d \in Nat \ {0}
    BY <2>1
  <2>3. (2 * d) % d = 0
    BY <2>1, <2>2, MultipleOfMultiple
  <2>4. ASSUME NEW x \in Nat, x % (2 * d) = 0 PROVE x % d = 0
    <3> DEFINE p == x \div (2 * d)
    <3>1. p \in Int /\ x = (2 * d) * p
      BY <2>2, <2>4
    <3> HIDE DEF p
    <3>2. x = d * (2 * p) /\ 2 * p \in Int
      BY <2>1, <3>1
    <3>3. QED
      BY <2>1, <3>2, ExactMultiple
  <2>5. k + 1 \in Levels => Grain(k + 1) = Size[k]
    BY <1>1 DEF Grain
  <2>6. QED
    BY <2>1, <2>3, <2>4, <2>5
<1>4. QED
  BY <1>2, <1>3

(* Adjacent blocks are aligned when the first one is.                      *)
LEMMA AlignedRun ==
  ASSUME NEW k \in Levels, NEW a \in Nat, a % Grain(k) = 0, NEW n \in Nat
  PROVE  \A b \in Blocks(a, k, n) : b % Grain(k) = 0
<1>1. ASSUME NEW i \in 0 .. n - 1 PROVE (a + i * Size[k]) % Grain(k) = 0
  <2> DEFINE g == Grain(k)
             z == Size[k]
  <2>1. g \in Nat \ {0} /\ z % g = 0 /\ z \in Int /\ a \in Int /\ a % g = 0 /\ i \in Int
    BY GrainFacts, SizeFacts
  <2> HIDE DEF g, z
  <2>2. i * z \in Int /\ (i * z) % g = 0
    BY <2>1, MultipleOfMultiple
  <2>3. (a + i * z) % g = 0
    BY <2>1, <2>2, SumOfMultiples
  <2>4. QED
    BY <2>3 DEF g, z
<1>2. QED
  BY <1>1 DEF Blocks

LEMMA InitAligned == Init => Aligned(free, live)
<1>1. SUFFICES ASSUME Init PROVE Aligned(free, live)
  OBVIOUS
<1>2. Top \in Levels /\ PoolStart \in Nat /\ PageCount \in Nat
  BY SizeFacts, PoolAssumption
<1>3. PoolStart % Grain(Top) = 0
  BY <1>2, GrainFacts, AlignAssumption
<1>4. \A b \in Blocks(PoolStart, Top, PageCount) : b % Grain(Top) = 0
  BY <1>2, <1>3, AlignedRun
<1>5. QED
  BY <1>1, <1>2, <1>4 DEF Init, Aligned

LEMMA NextAligned ==
  ASSUME PoolInv, Aligned(free, live), [Next]_vars
  PROVE  Aligned(free', live')
<1>1. /\ free \in [Levels -> SUBSET Nat] /\ live \subseteq Nat \X Levels \X (Nat \ {0})
      /\ Top \in Levels
  BY SizeFacts DEF PoolInv, TypeOK
<1>2. CASE MallocLarge
  <2>1. PICK block \in Runs(PagesOf(req, Size[Top])) :
          /\ free' = Unlink(free, Top, Blocks(block, Top, PagesOf(req, Size[Top])))
          /\ live' = live \cup {<<block, Top, PagesOf(req, Size[Top])>>}
    BY <1>2 DEF MallocLarge
  <2>2. block \in free[Top]
    BY <2>1 DEF Runs
  <2>3. \A k \in Levels : free'[k] \subseteq free[k]
    BY <1>1, <2>1 DEF Unlink
  <2>4. QED
    BY <1>1, <2>1, <2>2, <2>3 DEF Aligned
<1>3. CASE TakeBlock
  <2>1. PICK block \in free[want] :
          /\ free' = Unlink(free, want, {block})
          /\ live' = live \cup {<<block, want, 1>>}
    BY <1>3 DEF TakeBlock
  <2>2. \A k \in Levels : free'[k] \subseteq free[k]
    BY <1>1, <2>1 DEF Unlink
  <2>3. want \in Levels
    BY DEF PoolInv, TypeOK
  <2>4. block % Grain(want) = 0
    BY <2>3 DEF Aligned
  <2>5. \A m \in live' : m[1] % Grain(m[2]) = 0
    BY <2>1, <2>4 DEF Aligned
  <2>6. QED
    BY <2>2, <2>5 DEF Aligned
<1>4. CASE PullSplit
  <2>1. PICK block \in free[lvl + 1] :
          free' = AddFree(Unlink(free, lvl + 1, {block}), lvl, block, 2)
    BY <1>4 DEF PullSplit
  <2>2. lvl \in Levels /\ lvl + 1 \in Levels /\ live' = live
    BY <1>4, SizeFacts, PoolAssumption DEF PullSplit, PoolInv, TypeOK, CallInv, Top, Levels
  <2>3. block \in Nat /\ block % Size[lvl] = 0
    BY <1>1, <2>2, GrainFacts DEF Aligned
  <2>4. block % Grain(lvl) = 0
    BY <2>2, <2>3, GrainFacts
  <2>5. \A b \in Blocks(block, lvl, 2) : b % Grain(lvl) = 0
    BY <2>2, <2>3, <2>4, AlignedRun
  <2>6. \A k \in Levels : free'[k] \subseteq free[k] \cup (IF k = lvl THEN Blocks(block, lvl, 2) ELSE {})
    BY <1>1, <2>1, <2>2 DEF Unlink, AddFree
  <2>7. ASSUME NEW k \in Levels, NEW b \in free'[k] PROVE b % Grain(k) = 0
    BY <2>5, <2>6 DEF Aligned
  <2>8. QED
    BY <2>2, <2>7 DEF Aligned
<1>5. ASSUME NEW bh \in live, PoolFree(bh) PROVE Aligned(free', live')
  <2>1. /\ free' = AddFree(free, bh[2], bh[1], bh[3]) /\ live' = live \ {bh}
        /\ bh[1] \in Nat /\ bh[2] \in Levels /\ bh[3] \in Nat
    BY <1>1, <1>5 DEF PoolFree
  <2>2. \A b \in Blocks(bh[1], bh[2], bh[3]) : b % Grain(bh[2]) = 0
    BY <2>1, AlignedRun DEF Aligned
  <2>3. \A k \in Levels :
          free'[k] \subseteq free[k] \cup (IF k = bh[2] THEN Blocks(bh[1], bh[2], bh[3]) ELSE {})
    BY <1>1, <2>1 DEF AddFree
  <2>4. QED
    BY <2>1, <2>2, <2>3 DEF Aligned
<1>6. CASE ShrinkMerge
  <2>1. /\ lvl \in Levels /\ lvl + 1 \in Levels /\ live' = live
        /\ cur \in free[lvl] /\ cur \in Nat /\ cur % Size[lvl] = 0
    BY <1>6, SizeFacts, PoolAssumption
       DEF ShrinkMerge, Mergeable, PoolInv, TypeOK, CallInv, Top, Levels
  <2>2. free' = AddFree(Unlink(free, lvl, {cur, cur + Size[lvl]}), lvl + 1, cur, 1)
    BY <1>6 DEF ShrinkMerge
  <2>3. cur % Grain(lvl + 1) = 0
    BY <2>1, GrainFacts
  <2>4. \A b \in Blocks(cur, lvl + 1, 1) : b % Grain(lvl + 1) = 0
    BY <2>1, <2>3, AlignedRun
  <2>5. \A k \in Levels :
          free'[k] \subseteq free[k] \cup (IF k = lvl + 1 THEN Blocks(cur, lvl + 1, 1) ELSE {})
    BY <1>1, <2>1, <2>2 DEF Unlink, AddFree
  <2>6. QED
    BY <2>1, <2>4, <2>5 DEF Aligned
<1>7. CASE UNCHANGED <<free, live>>
  BY <1>7
<1>8. QED
  <2>1. CASE UNCHANGED vars
    BY <1>7, <2>1 DEF vars
  <2>2. CASE Next
    BY <1>2, <1>3, <1>4, <1>5, <1>6, <1>7, <2>2
       DEF Next, PoolMalloc, Running, Malloc, PullUpper, TryShrink, lists,
           MallocNothing, MallocLargeFails, MallocSmall, TakeFails,
           PullAtTop, PullRecurse, PullNothing,
           ShrinkTop, ShrinkEnter, ShrinkSkip, ShrinkNextLevel
  <2>3. QED
    BY <2>1, <2>2

(* No sequence of splits and of merges, which pool_try_shrink tests with   *)
(* the mask of one half, aligns a block worse than to its half.            *)
THEOREM AlignedToHalf == Spec => []HalfAligned
<1>1. Aligned(free, live) <=> HalfAligned
  BY DEF Aligned, HalfAligned, Grain
<1>2. Init => HalfAligned
  BY <1>1, InitAligned
<1>3. Aligned(free', live') <=> HalfAligned'
  BY DEF Aligned, HalfAligned, Grain
<1>4. PoolInv /\ HalfAligned /\ [Next]_vars => HalfAligned'
  BY <1>1, <1>3, NextAligned
<1>5. QED
  BY <1>2, <1>4, InvHolds, PTL DEF Spec

-----------------------------------------------------------------------------
(* The pool implements the heap.                                           *)

Owned == {<<m[1], Bytes(m)>> : m \in live}

Pending == IF pc \in {"malloc", "pull", "split", "take"} THEN req ELSE -1

(* What handing out the blocks of a header does to the extents.            *)
LEMMA GrantStep ==
  ASSUME PoolInv, Partition(free', free_n', live'),
         pc \in {"malloc", "take"}, pc' = "idle",
         NEW t \in Nat \X Levels \X (Nat \ {0}),
         live' = live \cup {t},
         t[1] \in free[t[2]],
         req + HEADER <= Bytes(t)
  PROVE  Heap!Grant
<1> DEFINE e == <<t[1], Bytes(t)>>
<1>1. Owned' = Owned \cup {e}
  BY DEF Owned, Bytes
<1>2. e[1] = t[1] /\ e[2] = Bytes(t) /\ e \in Owned'
  BY <1>1
<1> HIDE DEF e
<1>3. PoolStart <= e[1] /\ e[1] + e[2] <= PoolEnd
  BY <1>2 DEF Partition, Within
<1>4. ASSUME NEW x \in Owned
      PROVE  Heap!Apart(e[1], e[2], x[1], x[2])
  <2>1. PICK m \in live : x = <<m[1], Bytes(m)>>
    BY DEF Owned
  <2>2. m # t
    BY <2>1, PoolPartition, FreshHeader
  <2>3. Apart(t[1], Bytes(t), m[1], Bytes(m))
    BY <2>2 DEF Partition, NoOverlap
  <2>4. QED
    BY <1>2, <2>1, <2>3 DEF Apart, Heap!Apart
<1>5. req \in Nat /\ Pending = req /\ Pending' = -1 /\ Pending # -1
  BY PoolAssumption DEF Pending, PoolInv, TypeOK
<1>6. e[2] >= Pending + HEADER
  BY <1>2, <1>5, ArenaFacts DEF HEADER
<1>7. \E x \in Owned' :
        /\ Owned' = Owned \cup {x}
        /\ x[2] >= Pending + HEADER
        /\ PoolStart <= x[1] /\ x[1] + x[2] <= PoolEnd
        /\ \A y \in Owned : Heap!Apart(x[1], x[2], y[1], y[2])
  BY <1>1, <1>2, <1>3, <1>4, <1>6
<1>8. QED
  BY <1>5, <1>7 DEF Heap!Grant, Owned, Pending

(* Freeing a block releases its extent and no other: no two headers in     *)
(* callers' hands share an address.                                        *)
LEMMA ReleaseStep ==
  ASSUME PoolInv, NEW bh \in live, PoolFree(bh)
  PROVE  Heap!Release
<1> DEFINE e == <<bh[1], Bytes(bh)>>
<1>1. e \in Owned /\ live' = live \ {bh}
  BY DEF Owned, PoolFree
<1>2. ASSUME NEW m \in live, m # bh
      PROVE  m[1] # bh[1]
  <2>1. /\ m[1] \in Nat /\ Bytes(m) \in Nat \ {0}
        /\ bh[1] \in Nat /\ Bytes(bh) \in Nat \ {0}
    BY ArenaFacts DEF PoolInv, TypeOK
  <2>2. Apart(m[1], Bytes(m), bh[1], Bytes(bh))
    BY <1>2 DEF PoolInv, Disjoint, NoOverlap
  <2>3. QED
    BY <2>1, <2>2 DEF Apart
<1>3. Owned' = Owned \ {e}
  BY <1>1, <1>2 DEF Owned, Bytes
<1>4. Pending = -1 /\ Pending' = -1
  BY DEF PoolFree, Pending, locals
<1>5. QED
  BY <1>1, <1>3, <1>4 DEF Heap!Release, Owned, Pending

(* Every step of the pool is a step of HeapSpec or leaves it unchanged.    *)
LEMMA StepRefines ==
  ASSUME PoolInv, [Next]_vars
  PROVE  [Heap!Next]_(Heap!heapVars)
<1>1. Partition(free', free_n', live')
  BY NextPartition
<1>2. req \in Nat
  BY PoolAssumption DEF PoolInv, TypeOK
<1>3. ASSUME live' = live, Pending' = Pending
      PROVE  UNCHANGED Heap!heapVars
  BY <1>3 DEF Heap!heapVars, Owned, Pending, Bytes
<1>4. ASSUME live' = live, pc \in {"malloc", "take"}, pc' = "idle"
      PROVE  Heap!Refuse
  BY <1>2, <1>4 DEF Heap!Refuse, Bytes
<1>5. CASE \E size \in Requests : PoolMalloc(size)
  BY <1>5 DEF PoolMalloc, Heap!Next, Heap!Request, Bytes
<1>6. CASE \E bh \in live : PoolFree(bh)
  BY <1>6, ReleaseStep DEF Heap!Next
<1>7. CASE MallocNothing \/ MallocLargeFails \/ TakeFails
  BY <1>4, <1>7 DEF MallocNothing, MallocLargeFails, TakeFails, Return, Heap!Next
<1>8. CASE MallocLarge
  <2> DEFINE n == PagesOf(req, Size[Top])
  <2>1. PICK block \in Runs(n) : live' = live \cup {<<block, Top, n>>}
    BY <1>8 DEF MallocLarge
  <2>2. n \in Nat \ {0} /\ req + HEADER <= n * Size[Top]
    <3>1. req \in Requests \ {0} /\ ~ (Padded(req) <= Size[Top])
      BY <1>8, PaddedFacts, SizeFacts DEF MallocLarge, PoolInv, TypeOK, IsLarge
    <3>2. QED
      BY <3>1, RequestFits
  <2> HIDE DEF n
  <2>3. block \in free[Top] /\ block \in Nat
    BY SizeFacts DEF Runs, PoolInv, TypeOK
  <2>4. <<block, Top, n>> \in Nat \X Levels \X (Nat \ {0})
    BY <2>2, <2>3, SizeFacts
  <2>5. req + HEADER <= Bytes(<<block, Top, n>>)
    BY <2>2 DEF Bytes
  <2>6. Heap!Grant
    BY <1>1, <1>8, <2>1, <2>3, <2>4, <2>5, GrantStep DEF MallocLarge, Return
  <2>7. QED
    BY <2>6 DEF Heap!Next
<1>9. CASE TakeBlock
  <2>1. PICK block \in free[want] : live' = live \cup {<<block, want, 1>>}
    BY <1>9 DEF TakeBlock
  <2>2. want \in Levels /\ block \in Nat
    BY DEF PoolInv, TypeOK
  <2>3. <<block, want, 1>> \in Nat \X Levels \X (Nat \ {0})
    BY <2>2
  <2>4. req + HEADER <= Bytes(<<block, want, 1>>)
    <3>1. req \in Requests \ {0} /\ ~ IsLarge(req) /\ want = BucketOf(req)
      BY <1>9 DEF TakeBlock, PoolInv, CallInv
    <3>2. Bytes(<<block, want, 1>>) = Size[want]
      BY <2>2, SizeFacts DEF Bytes
    <3>3. QED
      BY <3>1, <3>2, BucketFacts
  <2>5. Heap!Grant
    BY <1>1, <1>9, <2>1, <2>3, <2>4, GrantStep DEF TakeBlock, Return
  <2>6. QED
    BY <2>5 DEF Heap!Next
<1>10. CASE MallocSmall
  BY <1>3, <1>10 DEF MallocSmall, Pending
<1>11. CASE PullUpper
  BY <1>3, <1>11 DEF PullUpper, PullAtTop, PullRecurse, PullNothing, PullSplit, PullReturns, Pending
<1>12. CASE TryShrink
  BY <1>3, <1>12
     DEF TryShrink, ShrinkTop, ShrinkEnter, ShrinkMerge, ShrinkSkip, ShrinkNextLevel,
         Return, Pending
<1>13. CASE UNCHANGED vars
  BY <1>3, <1>13 DEF vars, Pending
<1>14. QED
  BY <1>5, <1>6, <1>7, <1>8, <1>9, <1>10, <1>11, <1>12, <1>13 DEF Next, Running, Malloc

(* Every behaviour of the pool is a behaviour of a heap: requests are      *)
(* answered once, by an extent of the arena nobody else holds that is long *)
(* enough for the request and its header.                                  *)
THEOREM PoolIsAHeap == Spec => ImplementsHeap
<1>1. Init => Heap!Init
  BY DEF Init, Heap!Init
<1>2. PoolInv /\ [Next]_vars => [Heap!Next]_(Heap!heapVars)
  BY StepRefines
<1>3. QED
  BY <1>1, <1>2, InvHolds, PTL DEF Spec, ImplementsHeap, Heap!Spec


(* One step on n numbers, of which a function is the history.              *)
Stretch(step, first, n, f) ==
  f = [i \in 0 .. n |-> IF i = 0 THEN first ELSE step[f[i - 1]]]

LEMMA StretchesAgree ==
  ASSUME NEW step, NEW first, NEW n \in Nat, NEW m \in Nat, NEW f, NEW g,
         Stretch(step, first, n, f), Stretch(step, first, m, g)
  PROVE  \A i \in 0 .. n : i <= m => f[i] = g[i]
<1> DEFINE Bad == {i \in 0 .. n : i <= m /\ f[i] # g[i]}
<1>1. SUFFICES ASSUME Bad # {} PROVE FALSE
  OBVIOUS
<1>2. Bad \in SUBSET Nat
  OBVIOUS
<1>3. PICK i \in Bad : \A j \in Bad : i <= j
  BY <1>1, <1>2, LeastNatural
<1>4. i # 0
  BY DEF Stretch
<1>5. i - 1 \in 0 .. n /\ i - 1 <= m /\ i - 1 \notin Bad
  BY <1>3, <1>4
<1>6. f[i - 1] = g[i - 1]
  BY <1>5
<1>7. f[i] = step[f[i - 1]] /\ g[i] = step[g[i - 1]]
  BY <1>4 DEF Stretch
<1>8. QED
  BY <1>6, <1>7

LEMMA StretchExists ==
  ASSUME NEW step, NEW first
  PROVE  \A n \in Nat : \E f : Stretch(step, first, n, f)
<1> DEFINE Bad == {n \in Nat : ~ \E f : Stretch(step, first, n, f)}
<1>1. SUFFICES ASSUME Bad # {} PROVE FALSE
  OBVIOUS
<1>2. PICK n \in Bad : \A j \in Bad : n <= j
  BY <1>1, LeastNatural
<1>3. n # 0
  <2>1. Stretch(step, first, 0, [i \in 0 .. 0 |-> first])
    BY DEF Stretch
  <2>2. QED
    BY <2>1
<1>4. n - 1 \in Nat /\ n - 1 \notin Bad
  BY <1>2, <1>3
<1>5. PICK f : Stretch(step, first, n - 1, f)
  BY <1>4
<1> DEFINE g == [i \in 0 .. n |-> IF i = n THEN step[f[n - 1]] ELSE f[i]]
<1>6. ASSUME NEW i \in 0 .. n PROVE g[i] = IF i = 0 THEN first ELSE step[g[i - 1]]
  <2>1. CASE i = n
    BY <1>3, <1>4, <2>1
  <2>2. CASE i # n
    <3>1. f[i] = IF i = 0 THEN first ELSE step[f[i - 1]]
      BY <1>5, <2>2 DEF Stretch
    <3>2. g[i] = f[i] /\ (i # 0 => g[i - 1] = f[i - 1])
      BY <2>2
    <3>3. QED
      BY <3>1, <3>2
  <2>3. QED
    BY <2>1, <2>2
<1>7. Stretch(step, first, n, g)
  <2>1. g = [i \in 0 .. n |-> g[i]]
    OBVIOUS
  <2> HIDE DEF g
  <2>2. g = [i \in 0 .. n |-> IF i = 0 THEN first ELSE step[g[i - 1]]]
    BY <1>6, <2>1
  <2>3. QED
    BY <2>2 DEF Stretch
<1>8. QED
  BY <1>7

LEMMA IterateIs ==
  ASSUME NEW step, NEW first
  PROVE  /\ Iterate(step, first, 0) = first
         /\ \A n \in Nat : Iterate(step, first, n + 1) = step[Iterate(step, first, n)]
<1> DEFINE F == [n \in Nat |-> (CHOOSE f : Stretch(step, first, n, f))[n]]
           after == CHOOSE g : g = [i \in Nat |-> IF i = 0 THEN first ELSE step[g[i - 1]]]
<1>1. ASSUME NEW n \in Nat PROVE F[n] = IF n = 0 THEN first ELSE step[F[n - 1]]
  <2> DEFINE f == CHOOSE h : Stretch(step, first, n, h)
             e == CHOOSE h : Stretch(step, first, n - 1, h)
  <2>1. Stretch(step, first, n, f)
    BY StretchExists
  <2>2. F[n] = f[n]
    OBVIOUS
  <2>3. CASE n = 0
    <3>1. f[n] = first
      BY <2>1, <2>3 DEF Stretch
    <3>2. QED
      BY <2>2, <2>3, <3>1
  <2>4. CASE n # 0
    <3>1. n - 1 \in Nat
      BY <2>4
    <3>2. Stretch(step, first, n - 1, e)
      BY <3>1, StretchExists
    <3>3. F[n - 1] = e[n - 1]
      BY <3>1
    <3> HIDE DEF e, f, F
    <3>4. e[n - 1] = f[n - 1]
      BY <2>1, <3>1, <3>2, StretchesAgree
    <3>5. f[n] = step[f[n - 1]]
      BY <2>1, <2>4 DEF Stretch
    <3>6. QED
      BY <2>2, <2>4, <3>3, <3>4, <3>5
  <2>5. QED
    BY <2>3, <2>4
<1>2. F = [n \in Nat |-> F[n]]
  OBVIOUS
<1> HIDE DEF F
<1>3. F = [i \in Nat |-> IF i = 0 THEN first ELSE step[F[i - 1]]]
  BY <1>1, <1>2
<1>4. after = [i \in Nat |-> IF i = 0 THEN first ELSE step[after[i - 1]]]
  BY <1>3
<1>5. \A n \in Nat : Iterate(step, first, n) = after[n]
  BY DEF Iterate
<1> HIDE DEF after
<1>6. after[0] = first /\ \A n \in Nat : after[n + 1] = step[after[n]]
  <2>1. after[0] = first
    BY <1>4
  <2>2. ASSUME NEW n \in Nat PROVE after[n + 1] = step[after[n]]
    <3>1. n + 1 \in Nat /\ n + 1 # 0 /\ (n + 1) - 1 = n
      OBVIOUS
    <3>2. QED
      BY <1>4, <3>1
  <2>3. QED
    BY <2>1, <2>2
<1>7. \A n \in Nat : n + 1 \in Nat
  OBVIOUS
<1>8. QED
  BY <1>5, <1>6, <1>7

-----------------------------------------------------------------------------
(* The places of the pool.                                                 *)

(* Every block is a whole number of places long.                           *)
LEMMA SizeMultiple ==
  ASSUME NEW k \in Levels
  PROVE  \E z \in Nat \ {0} : Size[k] = z * OBJ_MIN
<1>1. k \in Nat /\ Size[k] = 16 * Power(k)
  BY SizeFacts DEF ObjSize, OBJ_MIN, Power
<1>2. Power(k) \in Nat \ {0}
  BY <1>1, PowerCounts
<1>3. QED
  BY <1>1, <1>2 DEF OBJ_MIN

LEMMA PlacesFill ==
  /\ PlaceCount \in Nat
  /\ PoolEnd = PoolStart + PlaceCount * OBJ_MIN
  /\ PoolStart \in Nat \ {0} /\ PoolEnd \in Nat
<1>1. PICK z \in Nat \ {0} : Size[Top] = z * OBJ_MIN
  BY SizeFacts, SizeMultiple
<1>2. PageCount \in Nat /\ PoolStart \in Nat \ {0}
  BY PoolAssumption
<1> DEFINE q == PageCount * z
<1>3. q \in Nat
  BY <1>1, <1>2, Multiples
<1>4. PageCount * Size[Top] = q * OBJ_MIN
  BY <1>1, <1>2 DEF OBJ_MIN
<1> HIDE DEF q
<1>5. PlaceCount = q
  BY <1>3, <1>4 DEF PlaceCount, OBJ_MIN
<1>6. QED
  BY <1>2, <1>3, <1>4, <1>5 DEF PoolEnd, OBJ_MIN

LEMMA PlaceIs ==
  /\ \A a \in Places : \E i \in Nat : a = PoolStart + i * OBJ_MIN /\ a < PoolEnd
  /\ \A i \in Nat : PoolStart + i * OBJ_MIN < PoolEnd => PoolStart + i * OBJ_MIN \in Places
<1>1. ASSUME NEW i \in 0 .. PlaceCount - 1
      PROVE  i \in Nat /\ PoolStart + i * OBJ_MIN < PoolEnd
  BY PlacesFill DEF OBJ_MIN
<1>2. ASSUME NEW i \in Nat, PoolStart + i * OBJ_MIN < PoolEnd
      PROVE  i \in 0 .. PlaceCount - 1
  BY <1>2, PlacesFill DEF OBJ_MIN
<1>3. QED
  BY <1>1, <1>2 DEF Places

LEMMA PlaceFacts ==
  ASSUME NEW a \in Places
  PROVE  /\ a \in Nat \ {0} /\ a # NULL /\ a \in Cells
         /\ PoolStart <= a /\ a < PoolEnd
         /\ \A b \in Places : a < b => a + OBJ_MIN <= b
<1>1. PICK i \in Nat : a = PoolStart + i * OBJ_MIN /\ a < PoolEnd
  BY PlaceIs
<1>2. ASSUME NEW b \in Places, a < b PROVE a + OBJ_MIN <= b
  <2>1. PICK j \in Nat : b = PoolStart + j * OBJ_MIN
    BY PlaceIs
  <2>2. QED
    BY <1>1, <1>2, <2>1, PlacesFill DEF OBJ_MIN
<1>3. a \in Nat \ {0} /\ PoolStart <= a
  BY <1>1, PlacesFill DEF OBJ_MIN
<1>4. QED
  BY <1>1, <1>2, <1>3 DEF Cells, NULL

(* Blocks that follow a place are places, as far as the pool goes.         *)
LEMMA PlaceAhead ==
  ASSUME NEW a \in Places, NEW k \in Levels, NEW n \in Nat, a + n * Size[k] < PoolEnd
  PROVE  a + n * Size[k] \in Places
<1>1. PICK i \in Nat : a = PoolStart + i * OBJ_MIN
  BY PlaceIs
<1>2. PICK z \in Nat \ {0} : Size[k] = z * OBJ_MIN
  BY SizeMultiple
<1> DEFINE q == n * z
<1>3. q \in Nat /\ n * Size[k] = q * OBJ_MIN
  <2>1. q \in Nat
    BY <1>2, Multiples
  <2>2. n * Size[k] = q * OBJ_MIN
    BY <1>2 DEF OBJ_MIN
  <2>3. QED
    BY <2>1, <2>2
<1> HIDE DEF q
<1>4. a + n * Size[k] = PoolStart + (i + q) * OBJ_MIN /\ i + q \in Nat
  BY <1>1, <1>3, PlacesFill DEF OBJ_MIN
<1>5. QED
  BY <1>4, PlaceIs

-----------------------------------------------------------------------------
(* Walks along a list.                                                     *)

LEMMA NthIs ==
  ASSUME NEW st, NEW k \in Levels
  PROVE  /\ Nth(st, k, 0) = st.head[k]
         /\ \A i \in Nat : Nth(st, k, i) \in Int =>
              Nth(st, k, i + 1) = IF Nth(st, k, i) \in Places THEN LinkAt(st, Nth(st, k, i))
                                                              ELSE Nth(st, k, i)
<1> DEFINE step == [a \in Int |-> IF a \in Places THEN LinkAt(st, a) ELSE a]
<1>1. \A i \in Nat : Nth(st, k, i) = Iterate(step, st.head[k], i)
  BY DEF Nth
<1>2. /\ Iterate(step, st.head[k], 0) = st.head[k]
      /\ \A i \in Nat : Iterate(step, st.head[k], i + 1) = step[Iterate(step, st.head[k], i)]
  BY IterateIs
<1>3. \A a \in Int : step[a] = IF a \in Places THEN LinkAt(st, a) ELSE a
  OBVIOUS
<1>4. 0 \in Nat /\ \A i \in Nat : i + 1 \in Nat
  OBVIOUS
<1> HIDE DEF step
<1>5. QED
  BY <1>1, <1>2, <1>3, <1>4

(* A list of places, well linked, has one head, which is a member.         *)
LEMMA HeadFacts ==
  ASSUME NEW S \in SUBSET Places, NEW p, IsHeadOf(p, S)
  PROVE  /\ p \in S \cup {NULL} /\ p \in Nat
         /\ p = NULL <=> S = {}
         /\ \A a \in S : p # NULL /\ p <= a
         /\ \A q : IsHeadOf(q, S) => p = q
<1>1. S \subseteq Nat \ {0}
  BY PlaceFacts
<1>2. CASE S = {}
  BY <1>2 DEF IsHeadOf, NULL
<1>3. CASE S # {}
  <2>1. p \in S /\ \A b \in S : p <= b
    BY <1>3 DEF IsHeadOf, IsFirst
  <2>2. ASSUME NEW q, IsHeadOf(q, S) PROVE p = q
    <3>1. q \in S /\ \A b \in S : q <= b
      BY <1>3, <2>2 DEF IsHeadOf, IsFirst
    <3>2. p \in Nat /\ q \in Nat /\ p <= q /\ q <= p
      BY <1>1, <2>1, <3>1
    <3>3. QED
      BY <3>2
  <2>3. QED
    BY <1>1, <1>3, <2>1, <2>2 DEF NULL
<1>4. QED
  BY <1>2, <1>3

LEMMA LinkFacts ==
  ASSUME NEW S \in SUBSET Places, NEW st, NEW k \in Levels, ListIs(st, k, S), NEW a \in S
  PROVE  /\ LinkAt(st, a) \in S \cup {NULL} /\ LinkAt(st, a) \in Nat
         /\ LinkAt(st, a) # NULL => a + OBJ_MIN <= LinkAt(st, a)
         /\ \A b \in S : a < b => LinkAt(st, a) # NULL /\ LinkAt(st, a) <= b
<1>1. IsHeadOf(LinkAt(st, a), After(a, S)) /\ After(a, S) \in SUBSET Places
  BY DEF ListIs, After
<1>2. LinkAt(st, a) \in After(a, S) \cup {NULL} /\ LinkAt(st, a) \in Nat
  BY <1>1, HeadFacts
<1>3. \A b \in S : a < b => b \in After(a, S)
  BY PlaceFacts DEF After
<1>4. \A b \in After(a, S) : LinkAt(st, a) # NULL /\ LinkAt(st, a) <= b
  BY <1>1, HeadFacts
<1>5. \A b \in After(a, S) : b \in S /\ a + OBJ_MIN <= b
  BY PlaceFacts DEF After
<1>6. QED
  BY <1>2, <1>3, <1>4, <1>5

LEMMA WalkStays ==
  ASSUME NEW S \in SUBSET Places, NEW st, NEW k \in Levels, ListIs(st, k, S)
  PROVE  \A i \in Nat : /\ Nth(st, k, i) \in S \cup {NULL} /\ Nth(st, k, i) \in Nat
                        /\ Nth(st, k, i) # NULL => PoolStart + i * OBJ_MIN <= Nth(st, k, i)
<1> DEFINE Good(i) == /\ Nth(st, k, i) \in S \cup {NULL} /\ Nth(st, k, i) \in Nat
                      /\ Nth(st, k, i) # NULL => PoolStart + i * OBJ_MIN <= Nth(st, k, i)
           Bad == {i \in Nat : ~ Good(i)}
<1>1. Good(0)
  <2>1. Nth(st, k, 0) = st.head[k] /\ IsHeadOf(st.head[k], S)
    BY NthIs DEF ListIs
  <2>2. st.head[k] \in S \cup {NULL} /\ st.head[k] \in Nat
    BY <2>1, HeadFacts
  <2>3. QED
    BY <2>1, <2>2, PlaceFacts, PlacesFill DEF OBJ_MIN
<1>2. ASSUME NEW i \in Nat, Good(i) PROVE Good(i + 1)
  <2>1. CASE Nth(st, k, i) = NULL
    <3>1. Nth(st, k, i) \notin Places
      BY <2>1, PlaceFacts
    <3>2. Nth(st, k, i + 1) = NULL
      BY <2>1, <3>1, NthIs DEF NULL
    <3>3. QED
      BY <3>2 DEF NULL
  <2>2. CASE Nth(st, k, i) # NULL
    <3> DEFINE a == Nth(st, k, i)
    <3>1. a \in S /\ a \in Nat /\ PoolStart + i * OBJ_MIN <= a
      BY <1>2, <2>2
    <3>2. Nth(st, k, i + 1) = LinkAt(st, a)
      BY <3>1, NthIs
    <3> HIDE DEF a
    <3>3. /\ LinkAt(st, a) \in S \cup {NULL} /\ LinkAt(st, a) \in Nat
          /\ LinkAt(st, a) # NULL => a + OBJ_MIN <= LinkAt(st, a)
      BY <3>1, LinkFacts
    <3>4. LinkAt(st, a) # NULL => PoolStart + (i + 1) * OBJ_MIN <= LinkAt(st, a)
      BY <3>1, <3>3, PlacesFill DEF OBJ_MIN
    <3>5. QED
      BY <3>2, <3>3, <3>4
  <2>3. QED
    BY <2>1, <2>2
<1> HIDE DEF Good
<1>3. SUFFICES ASSUME Bad # {} PROVE FALSE
  BY DEF Good
<1>4. PICK i \in Bad : \A j \in Bad : i <= j
  BY <1>3, LeastNatural
<1>5. i # 0 /\ i \in Nat /\ ~ Good(i)
  BY <1>1, <1>4
<1>6. i - 1 \in Nat /\ i - 1 \notin Bad /\ (i - 1) + 1 = i
  BY <1>4, <1>5
<1>7. Good((i - 1) + 1)
  BY <1>2, <1>6
<1>8. QED
  BY <1>5, <1>6, <1>7

LEMMA WalkStep ==
  ASSUME NEW S \in SUBSET Places, NEW st, NEW k \in Levels, ListIs(st, k, S), NEW i \in Nat
  PROVE  /\ Nth(st, k, i) = NULL => Nth(st, k, i + 1) = NULL
         /\ Nth(st, k, i) # NULL => Nth(st, k, i) \in S /\ Nth(st, k, i + 1) = LinkAt(st, Nth(st, k, i))
<1>1. Nth(st, k, i) \in S \cup {NULL} /\ Nth(st, k, i) \in Nat
  BY WalkStays
<1> DEFINE a == Nth(st, k, i)
<1>2. a = NULL => a \notin Places
  BY PlaceFacts
<1>3. a # NULL => a \in S /\ a \in Places
  BY <1>1
<1>4. Nth(st, k, i + 1) = IF a \in Places THEN LinkAt(st, a) ELSE a
  BY <1>1, NthIs
<1> HIDE DEF a
<1>5. QED
  BY <1>2, <1>3, <1>4 DEF a

(* No walk passes the end of the pool, so every walk comes to NULL.        *)
LEMMA WalkEndsInTime ==
  ASSUME NEW S \in SUBSET Places, NEW st, NEW k \in Levels, ListIs(st, k, S), NEW i \in Nat,
         Nth(st, k, i) # NULL
  PROVE  i < PlaceCount
<1>1. Nth(st, k, i) \in Places /\ PoolStart + i * OBJ_MIN <= Nth(st, k, i)
  BY WalkStays
<1>2. QED
  BY <1>1, PlaceFacts, PlacesFill DEF OBJ_MIN

(* A walk comes by every member.                                           *)
LEMMA WalkReaches ==
  ASSUME NEW S \in SUBSET Places, NEW st, NEW k \in Levels, ListIs(st, k, S), NEW a \in S
  PROVE  \E i \in Nat : i < PlaceCount /\ Nth(st, k, i) = a
<1> DEFINE Past == {i \in Nat : Nth(st, k, i) = NULL \/ a <= Nth(st, k, i)}
<1>1. PlaceCount \in Past
  BY WalkEndsInTime, PlacesFill
<1>2. PICK i \in Past : \A j \in Past : i <= j
  BY <1>1, LeastNatural
<1>3. i \in Nat /\ (Nth(st, k, i) = NULL \/ a <= Nth(st, k, i)) /\ Nth(st, k, i) \in Nat
  BY <1>2, WalkStays
<1>4. Nth(st, k, i) = a
  <2>1. CASE i = 0
    <3>1. Nth(st, k, 0) # NULL /\ Nth(st, k, 0) <= a
      BY NthIs, HeadFacts DEF ListIs
    <3>2. QED
      BY <1>3, <2>1, <3>1, PlaceFacts
  <2>2. CASE i # 0
    <3>1. i - 1 \in Nat /\ i - 1 \notin Past /\ (i - 1) + 1 = i
      BY <1>2, <1>3, <2>2
    <3> DEFINE b == Nth(st, k, i - 1)
    <3>2. b # NULL /\ ~ (a <= b)
      BY <3>1
    <3>3. b \in S /\ Nth(st, k, i) = LinkAt(st, b)
      BY <3>1, <3>2, WalkStep
    <3> HIDE DEF b
    <3>4. b < a
      BY <3>2, <3>3, PlaceFacts
    <3>5. LinkAt(st, b) # NULL /\ LinkAt(st, b) <= a
      BY <3>3, <3>4, LinkFacts
    <3>6. QED
      BY <1>3, <3>3, <3>5, PlaceFacts
  <2>3. QED
    BY <2>1, <2>2
<1>5. Nth(st, k, i) # NULL
  BY <1>4, PlaceFacts
<1>6. QED
  BY <1>3, <1>4, <1>5, WalkEndsInTime

(* So what is found along the links is what the links were made for.       *)
LEMMA MembersAre ==
  ASSUME NEW S \in SUBSET Places, NEW st, NEW k \in Levels, ListIs(st, k, S)
  PROVE  Members(st, k) = S
<1>1. ASSUME NEW a \in Members(st, k) PROVE a \in S
  <2>1. PICK i \in 0 .. PlaceCount : a = Nth(st, k, i) /\ a \in Places
    BY DEF Members
  <2>2. i \in Nat
    BY PlacesFill
  <2>3. a # NULL
    BY <2>1, PlaceFacts
  <2>4. QED
    BY <2>1, <2>2, <2>3, WalkStays
<1>2. ASSUME NEW a \in S PROVE a \in Members(st, k)
  <2>1. PICK i \in Nat : i < PlaceCount /\ Nth(st, k, i) = a
    BY WalkReaches
  <2>2. i \in 0 .. PlaceCount
    BY <2>1, PlacesFill
  <2>3. QED
    BY <2>1, <2>2 DEF Members
<1>3. QED
  BY <1>1, <1>2

(* Along the links the members come in ascending order.                    *)
LEMMA WalkClimbs ==
  ASSUME NEW S \in SUBSET Places, NEW st, NEW k \in Levels, ListIs(st, k, S),
         NEW i \in Nat, NEW j \in Nat, i < j, Nth(st, k, j) # NULL
  PROVE  Nth(st, k, i) # NULL /\ Nth(st, k, i) < Nth(st, k, j)
<1> DEFINE Good(m) == Nth(st, k, m) # NULL =>
                        Nth(st, k, i) # NULL /\ Nth(st, k, i) < Nth(st, k, m)
           Bad == {m \in Nat : i < m /\ ~ Good(m)}
<1>1. SUFFICES ASSUME Bad # {} PROVE FALSE
  OBVIOUS
<1>2. PICK m \in Bad : \A n \in Bad : m <= n
  BY <1>1, LeastNatural
<1>3. m \in Nat /\ i < m /\ ~ Good(m)
  BY <1>2
<1>4. m - 1 \in Nat /\ (m - 1) + 1 = m /\ (i < m - 1 => m - 1 \notin Bad) /\ (~ (i < m - 1) => i = m - 1)
  BY <1>2, <1>3
<1> DEFINE a == Nth(st, k, m - 1)
<1>5. a # NULL /\ a \in S /\ Nth(st, k, m) = LinkAt(st, a)
  BY <1>3, <1>4, WalkStep
<1>6. i < m - 1 => Good(m - 1)
  BY <1>4
<1>7. i < m - 1 => Nth(st, k, i) # NULL /\ Nth(st, k, i) < a
  BY <1>5, <1>6
<1>8. i = m - 1 => Nth(st, k, i) = a
  OBVIOUS
<1>9. Nth(st, k, i) \in Nat
  BY WalkStays
<1> HIDE DEF a
<1>10. LinkAt(st, a) # NULL => a + OBJ_MIN <= LinkAt(st, a) /\ LinkAt(st, a) \in Nat
  BY <1>5, LinkFacts
<1>11. a \in Nat
  BY <1>5, PlaceFacts
<1>12. Nth(st, k, m) # NULL => Nth(st, k, i) # NULL /\ Nth(st, k, i) < Nth(st, k, m)
  BY <1>4, <1>5, <1>7, <1>8, <1>9, <1>10, <1>11 DEF OBJ_MIN
<1>13. QED
  BY <1>3, <1>12

LEMMA WalkCounts ==
  ASSUME NEW S \in SUBSET Places, NEW st, NEW k \in Levels, ListIs(st, k, S)
  PROVE  /\ Nth(st, k, Cardinality(S)) = NULL
         /\ \A i \in 0 .. Cardinality(S) - 1 : Nth(st, k, i) \in S
<1> DEFINE Ends == {i \in Nat : Nth(st, k, i) = NULL}
<1>1. PlaceCount \in Ends
  BY WalkEndsInTime, PlacesFill
<1>2. PICK n \in Ends : \A j \in Ends : n <= j
  BY <1>1, LeastNatural
<1>3. n \in Nat /\ Nth(st, k, n) = NULL /\ \A j \in Nat : j < n => Nth(st, k, j) # NULL
  BY <1>2
<1> HIDE DEF Ends
<1> DEFINE f == [i \in 0 .. n - 1 |-> Nth(st, k, i)]
<1>4. \A i \in 0 .. n - 1 : Nth(st, k, i) \in S
  BY <1>3, WalkStep
<1>5. \A i, j \in 0 .. n - 1 : i < j => Nth(st, k, i) < Nth(st, k, j)
  <2>1. SUFFICES ASSUME NEW i \in 0 .. n - 1, NEW j \in 0 .. n - 1, i < j
                 PROVE  Nth(st, k, i) < Nth(st, k, j)
    OBVIOUS
  <2>2. i \in Nat /\ j \in Nat /\ Nth(st, k, j) # NULL
    BY <1>3
  <2>3. QED
    BY <2>1, <2>2, WalkClimbs
<1>6. \A a \in S : \E i \in 0 .. n - 1 : Nth(st, k, i) = a
  <2>1. SUFFICES ASSUME NEW a \in S PROVE \E i \in 0 .. n - 1 : Nth(st, k, i) = a
    OBVIOUS
  <2>2. PICK i \in Nat : Nth(st, k, i) = a
    BY WalkReaches
  <2>3. Nth(st, k, i) # NULL
    BY <2>2, PlaceFacts
  <2>4. ~ (n < i)
    BY <1>3, <2>3, WalkClimbs
  <2>5. i # n
    BY <1>3, <2>3
  <2>6. i \in 0 .. n - 1
    BY <1>3, <2>4, <2>5
  <2>7. QED
    BY <2>2, <2>6
<1>7. f \in Bijection(0 .. n - 1, S)
  <2>1. f \in [0 .. n - 1 -> S]
    BY <1>4
  <2>2. ASSUME NEW i \in 0 .. n - 1, NEW j \in 0 .. n - 1, f[i] = f[j] PROVE i = j
    <3>1. Nth(st, k, i) = Nth(st, k, j) /\ Nth(st, k, i) \in Nat
      BY <1>4, <2>2, PlaceFacts
    <3>2. ~ (i < j) /\ ~ (j < i)
      BY <1>5, <3>1
    <3>3. QED
      BY <1>3, <3>2
  <2>3. \A a \in S : \E i \in 0 .. n - 1 : f[i] = a
    BY <1>6
  <2>4. QED
    BY <2>1, <2>2, <2>3 DEF Bijection, Injection, Surjection, IsInjective
<1>8. IsFiniteSet(0 .. n - 1) /\ Cardinality(0 .. n - 1) = n
  BY <1>3, FS_Interval
<1>9. Cardinality(S) = n
  BY <1>7, <1>8, FS_Bijection DEF ExistsBijection
<1>10. QED
  BY <1>3, <1>4, <1>9

-----------------------------------------------------------------------------
(* The place where pool_add_free puts a block.                             *)

(* p holds the link that passes over block, and q is where it leads.       *)
Gap(st, k, S, block, p, q) ==
  /\ \/ p = HeadOf(k) /\ q = st.head[k] /\ \A b \in S : block <= b
     \/ p \in S /\ p < block /\ q = LinkAt(st, p) /\ \A b \in S : p < b => block <= b
  /\ IsHeadOf(q, {b \in S : block <= b})

LEMMA PositionIs ==
  ASSUME NEW S \in SUBSET Places, NEW st, NEW k \in Levels, ListIs(st, k, S), NEW block \in Nat
  PROVE  \E p, q : Position(st, k, block) = <<p, q>> /\ Gap(st, k, S, block, p, q)
<1> DEFINE step == [w \in Int \X Int |->
                      IF w[2] # NULL /\ block > w[2] THEN <<w[2], LinkAt(st, w[2])>> ELSE w]
           first == <<HeadOf(k), st.head[k]>>
           On(p, q) == /\ q \in S \cup {NULL}
                       /\ \/ p = HeadOf(k) /\ q = st.head[k]
                          \/ p \in S /\ p < block /\ q = LinkAt(st, p)
           Late(i, q) == q = NULL \/ block <= q \/ PoolStart + i * OBJ_MIN <= q
           Good(i) == \E p, q : Iterate(step, first, i) = <<p, q>> /\ On(p, q) /\ Late(i, q)
           Bad == {i \in Nat : ~ Good(i)}
<1>1. \A p, q : On(p, q) => p \in Int /\ q \in Nat /\ (q # NULL => q \in S /\ q \in Places)
  <2>1. SUFFICES ASSUME NEW p, NEW q, On(p, q)
                 PROVE  p \in Int /\ q \in Nat /\ (q # NULL => q \in S /\ q \in Places)
    BY Zenon
  <2>2. HeadOf(k) \in Int
    BY SizeFacts DEF HeadOf
  <2>3. p \in Int
    BY <2>1, <2>2, PlaceFacts
  <2>4. q \in Nat
    BY <2>1, PlaceFacts DEF NULL
  <2>5. QED
    BY <2>1, <2>3, <2>4
<1>2. \A p, q : On(p, q) => step[<<p, q>>] = IF q # NULL /\ block > q THEN <<q, LinkAt(st, q)>> ELSE <<p, q>>
  BY <1>1
<1>3. /\ Iterate(step, first, 0) = first
      /\ \A i \in Nat : Iterate(step, first, i + 1) = step[Iterate(step, first, i)]
  BY IterateIs
<1>4. Position(st, k, block) = Iterate(step, first, PlaceCount)
  BY DEF Position
<1> HIDE DEF step
<1>5. Good(0)
  <2>1. st.head[k] \in S \cup {NULL}
    BY HeadFacts DEF ListIs
  <2>2. On(HeadOf(k), st.head[k])
    BY <2>1
  <2>3. Late(0, st.head[k])
    BY <2>1, PlaceFacts, PlacesFill DEF OBJ_MIN
  <2>4. QED
    BY <1>3, <2>2, <2>3
<1>6. ASSUME NEW i \in Nat, Good(i) PROVE Good(i + 1)
  <2>1. PICK p, q : Iterate(step, first, i) = <<p, q>> /\ On(p, q) /\ Late(i, q)
    BY <1>6
  <2>2. Iterate(step, first, i + 1) = IF q # NULL /\ block > q THEN <<q, LinkAt(st, q)>> ELSE <<p, q>>
    BY <1>2, <1>3, <2>1
  <2>3. q \in Nat /\ (q # NULL => q \in S /\ q \in Places)
    BY <1>1, <2>1
  <2>4. CASE q # NULL /\ block > q
    <3>1. LinkAt(st, q) \in S \cup {NULL} /\ LinkAt(st, q) \in Nat
          /\ (LinkAt(st, q) # NULL => q + OBJ_MIN <= LinkAt(st, q))
      BY <2>3, <2>4, LinkFacts
    <3>2. On(q, LinkAt(st, q))
      BY <2>3, <2>4, <3>1
    <3>3. PoolStart + i * OBJ_MIN <= q
      BY <2>1, <2>3, <2>4
    <3>4. Late(i + 1, LinkAt(st, q))
      BY <2>3, <3>1, <3>3, PlacesFill DEF OBJ_MIN
    <3>5. QED
      BY <2>2, <2>4, <3>2, <3>4
  <2>5. CASE q = NULL \/ ~ (block > q)
    <3>1. Late(i + 1, q)
      BY <2>3, <2>5
    <3>2. QED
      BY <2>1, <2>2, <2>5, <3>1
  <2>6. QED
    BY <2>4, <2>5
<1> HIDE DEF Good
<1>7. \A i \in Nat : Good(i)
  <2>1. SUFFICES ASSUME Bad # {} PROVE FALSE
    OBVIOUS
  <2>2. PICK i \in Bad : \A j \in Bad : i <= j
    BY <2>1, LeastNatural
  <2>3. i # 0 /\ i \in Nat /\ ~ Good(i)
    BY <1>5, <2>2
  <2>4. i - 1 \in Nat /\ i - 1 \notin Bad /\ (i - 1) + 1 = i
    BY <2>2, <2>3
  <2>5. Good((i - 1) + 1)
    BY <1>6, <2>4
  <2>6. QED
    BY <2>3, <2>4, <2>5
<1>8. PICK p, q : Iterate(step, first, PlaceCount) = <<p, q>> /\ On(p, q) /\ Late(PlaceCount, q)
  BY <1>7, PlacesFill DEF Good
<1>9. q \in Nat /\ (q # NULL => q \in S /\ q \in Places)
  BY <1>1, <1>8
<1>10. q = NULL \/ block <= q
  BY <1>8, <1>9, PlaceFacts, PlacesFill DEF OBJ_MIN
<1>11. Gap(st, k, S, block, p, q)
  <2>1. S \subseteq Nat /\ NULL \notin S
    BY PlaceFacts
  <2>2. CASE p = HeadOf(k) /\ q = st.head[k]
    <3>1. IsHeadOf(q, S)
      BY <2>2 DEF ListIs
    <3>2. \A b \in S : q # NULL /\ q <= b
      BY <3>1, HeadFacts
    <3>3. \A b \in S : block <= b
      BY <1>9, <1>10, <2>1, <3>2
    <3>4. {b \in S : block <= b} = S
      BY <3>3
    <3>5. QED
      BY <2>2, <3>1, <3>3, <3>4 DEF Gap
  <2>3. CASE p \in S /\ p < block /\ q = LinkAt(st, p)
    <3>1. \A b \in S : p < b => q # NULL /\ q <= b
      BY <2>3, LinkFacts
    <3>2. \A b \in S : p < b => block <= b
      BY <1>9, <1>10, <2>1, <3>1
    <3>3. {b \in S : block <= b} = After(p, S)
      <4>1. p \in Nat
        BY <2>1, <2>3
      <4>2. \A b \in S : block <= b <=> b > p
        BY <2>1, <2>3, <3>2, <4>1
      <4>3. QED
        BY <4>2 DEF After
    <3>4. IsHeadOf(q, After(p, S))
      BY <2>3 DEF ListIs
    <3>5. QED
      BY <2>3, <3>2, <3>3, <3>4 DEF Gap
  <2>4. QED
    BY <1>8, <2>2, <2>3
<1>12. QED
  BY <1>4, <1>8, <1>11

-----------------------------------------------------------------------------
(* What writing one link, or a header, changes.                            *)

LEMMA SetHead ==
  ASSUME NEW st \in LinkStates, NEW k \in Levels, NEW to \in Int
  PROVE  /\ SetLink(st, HeadOf(k), to) \in LinkStates
         /\ SetLink(st, HeadOf(k), to).head[k] = to
         /\ \A j \in Levels \ {k} : SetLink(st, HeadOf(k), to).head[j] = st.head[j]
         /\ SetLink(st, HeadOf(k), to).mem = st.mem
<1>1. HeadOf(k) < 0 /\ -1 - HeadOf(k) = k
  BY SizeFacts DEF HeadOf
<1>2. SetLink(st, HeadOf(k), to) = [st EXCEPT !.head[k] = to]
  BY <1>1 DEF SetLink
<1>3. QED
  BY <1>2 DEF LinkStates

LEMMA SetCell ==
  ASSUME NEW st \in LinkStates, NEW a \in Places, NEW to \in Int
  PROVE  /\ SetLink(st, a, to) \in LinkStates
         /\ SetLink(st, a, to).head = st.head
         /\ SetLink(st, a, to).mem[a].word = to
         /\ \A c \in Cells \ {a} : SetLink(st, a, to).mem[c] = st.mem[c]
<1>1. a \in Cells /\ ~ (a < 0)
  BY PlaceFacts
<1> DEFINE h == [st.mem[a] EXCEPT !.word = to]
           m == [st.mem EXCEPT ![a] = h]
<1>2. SetLink(st, a, to) = [st EXCEPT !.mem = m]
  BY <1>1 DEF SetLink
<1>3. st.mem \in [Cells -> [word : Int, magic : BOOLEAN]]
  BY DEF LinkStates
<1>4. h \in [word : Int, magic : BOOLEAN] /\ h.word = to
  BY <1>1, <1>3
<1> HIDE DEF h
<1>5. /\ m \in [Cells -> [word : Int, magic : BOOLEAN]]
      /\ m[a] = h /\ \A c \in Cells \ {a} : m[c] = st.mem[c]
  BY <1>1, <1>3, <1>4
<1> HIDE DEF m
<1>6. SetLink(st, a, to) \in LinkStates
      /\ SetLink(st, a, to).head = st.head /\ SetLink(st, a, to).mem = m
  BY <1>2, <1>5 DEF LinkStates
<1>7. QED
  BY <1>4, <1>5, <1>6

LEMMA HandOutSets ==
  ASSUME NEW st \in LinkStates, NEW a \in Places, NEW idx \in Levels, NEW count \in Nat
  PROVE  /\ HandOut(st, a, idx, count) \in LinkStates
         /\ HandOut(st, a, idx, count).head = st.head
         /\ HandOut(st, a, idx, count).mem[a] = [word |-> idx + SHORT * count, magic |-> TRUE]
         /\ \A c \in Cells \ {a} :
              IF a < c /\ c < a + count * Size[idx]
              THEN HandOut(st, a, idx, count).mem[c] = Data
              ELSE HandOut(st, a, idx, count).mem[c] = st.mem[c]
<1>1. a \in Cells
  BY PlaceFacts
<1>2. idx + SHORT * count \in Int
  BY SizeFacts DEF SHORT
<1> DEFINE w == idx + SHORT * count
           e == a + count * Size[idx]
           m == [b \in Cells |-> IF b = a THEN [word |-> w, magic |-> TRUE]
                                 ELSE IF a < b /\ b < e THEN Data ELSE st.mem[b]]
<1>3. HandOut(st, a, idx, count) = [st EXCEPT !.mem = m]
  BY DEF HandOut
<1> HIDE DEF w, e
<1>4. m \in [Cells -> [word : Int, magic : BOOLEAN]]
  BY <1>2 DEF LinkStates, Data, w
<1>5. m[a] = [word |-> w, magic |-> TRUE]
  BY <1>1
<1>6. \A c \in Cells \ {a} : IF a < c /\ c < e THEN m[c] = Data ELSE m[c] = st.mem[c]
  OBVIOUS
<1> HIDE DEF m
<1>7. HandOut(st, a, idx, count) \in LinkStates
      /\ HandOut(st, a, idx, count).head = st.head /\ HandOut(st, a, idx, count).mem = m
  BY <1>3, <1>4 DEF LinkStates
<1>8. QED
  BY <1>5, <1>6, <1>7 DEF w, e

LEMMA ChainedSets ==
  ASSUME NEW st \in LinkStates, NEW k \in Levels, NEW block \in Places, NEW n \in Nat \ {0}
  PROVE  /\ Chained(st, k, block, n) \in LinkStates
         /\ Chained(st, k, block, n).head = st.head
         /\ \A c \in Cells :
              IF c \in Blocks(block, k, n - 1)
              THEN Chained(st, k, block, n).mem[c].word = c + Size[k]
              ELSE Chained(st, k, block, n).mem[c] = st.mem[c]
<1> DEFINE B == Blocks(block, k, n - 1)
           m == [a \in Cells |-> IF a \in B THEN [st.mem[a] EXCEPT !.word = a + Size[k]]
                                 ELSE st.mem[a]]
<1>1. Chained(st, k, block, n) = [st EXCEPT !.mem = m]
  BY DEF Chained
<1> HIDE DEF B
<1>2. \A a \in Cells : a + Size[k] \in Int
  <2>1. PoolStart - OBJ_MIN \in Int /\ Size[k] \in Int
    BY PlacesFill, SizeFacts DEF OBJ_MIN
  <2>2. Cells \subseteq Int
    BY <2>1, PlaceFacts DEF Cells
  <2>3. QED
    BY <2>1, <2>2
<1>3. m \in [Cells -> [word : Int, magic : BOOLEAN]]
  BY <1>2 DEF LinkStates
<1>4. \A c \in Cells : IF c \in B THEN m[c].word = c + Size[k] ELSE m[c] = st.mem[c]
  BY DEF LinkStates
<1> HIDE DEF m
<1>5. Chained(st, k, block, n) \in LinkStates
      /\ Chained(st, k, block, n).head = st.head /\ Chained(st, k, block, n).mem = m
  BY <1>1, <1>3 DEF LinkStates
<1>6. QED
  BY <1>4, <1>5 DEF B

-----------------------------------------------------------------------------
(* All the lists at once: f is what the links of st spell.                 *)

Linked(st, f) ==
  /\ st \in LinkStates
  /\ f \in [Levels -> SUBSET Places]
  /\ \A k \in Levels : ListIs(st, k, f[k])
  /\ \A k, j \in Levels : k # j => f[k] \cap f[j] = {}

LEMMA ListsAre ==
  ASSUME NEW st, NEW f, Linked(st, f)
  PROVE  ListsOf(st) = f
<1>1. \A k \in Levels : Members(st, k) = f[k]
  BY MembersAre DEF Linked
<1>2. QED
  BY <1>1 DEF Linked, ListsOf

(* A list is as it was when its head and the words of its blocks are.      *)
LEMMA ListKept ==
  ASSUME NEW st, NEW t, NEW k \in Levels, NEW S \in SUBSET Places, ListIs(st, k, S),
         t.head[k] = st.head[k], \A a \in S : t.mem[a] = st.mem[a]
  PROVE  ListIs(t, k, S)
BY DEF ListIs, LinkAt

(* The words behind a header are written where no list has a block.        *)
LEMMA HandOutLinked ==
  ASSUME NEW st, NEW f, Linked(st, f), NEW a \in Places, NEW idx \in Levels, NEW count \in Nat \ {0},
         \A k \in Levels : \A b \in f[k] : ~ (a <= b /\ b < a + count * Size[idx])
  PROVE  Linked(HandOut(st, a, idx, count), f)
<1> DEFINE t == HandOut(st, a, idx, count)
           e == a + count * Size[idx]
<1>1. st \in LinkStates /\ count \in Nat
  BY DEF Linked
<1>2. t \in LinkStates /\ t.head = st.head
  BY <1>1, HandOutSets
<1>3. \A c \in Cells \ {a} : ~ (a < c /\ c < e) => t.mem[c] = st.mem[c]
  BY <1>1, HandOutSets
<1>4. a \in Nat /\ a < e
  <2>1. count * Size[idx] \in Nat /\ 0 * Size[idx] < count * Size[idx]
    BY SizeFacts, Multiples
  <2>2. 0 * Size[idx] = 0
    BY SizeFacts
  <2>3. QED
    BY <2>1, <2>2, PlaceFacts
<1>5. \A k \in Levels : \A b \in f[k] : ~ (a <= b /\ b < e)
  OBVIOUS
<1> HIDE DEF t, e
<1>6. ASSUME NEW k \in Levels PROVE ListIs(t, k, f[k])
  <2>1. f[k] \in SUBSET Places /\ ListIs(st, k, f[k])
    BY DEF Linked
  <2>2. ASSUME NEW b \in f[k] PROVE t.mem[b] = st.mem[b]
    <3>1. b \in Places /\ b \in Nat /\ b \in Cells
      BY <2>1, PlaceFacts
    <3>2. b # a /\ ~ (a < b /\ b < e)
      BY <1>4, <1>5, <3>1
    <3>3. QED
      BY <1>3, <3>1, <3>2
  <2>3. QED
    BY <1>2, <2>1, <2>2, ListKept
<1>7. QED
  BY <1>2, <1>6 DEF Linked, t

(* t differs from st in the cells C at most.                               *)
SameBut(C, st, t) == \A c \in Cells : c \in C \/ t.mem[c] = st.mem[c]

Behind(S, x) == {b \in S : x <= b}

(* T is what comes first in the list S from x on.                          *)
Cut(S, T, x) ==
  T \subseteq S /\ \A a \in T : x <= a /\ \A b \in S \ T : x <= b => a < b

(* The blocks T behind x leave a list: the link that passed over x now     *)
(* leads to r, the first of what is left there.                            *)
LEMMA UnlinkLinked ==
  ASSUME NEW st, NEW f, Linked(st, f), NEW k \in Levels, NEW T, NEW x \in Nat,
         NEW p, NEW q, Gap(st, k, f[k], x, p, q),
         NEW r, IsHeadOf(r, Behind(f[k] \ T, x)), Cut(f[k], T, x)
  PROVE  /\ Linked(SetLink(st, p, r), Unlink(f, k, T))
         /\ SameBut(f[k], st, SetLink(st, p, r))
<1> DEFINE t == SetLink(st, p, r)
           g == Unlink(f, k, T)
           S == f[k]
           D == S \ T
<1>1. T \subseteq S /\ IsHeadOf(r, {b \in D : x <= b})
      /\ \A a \in T : x <= a /\ \A b \in D : x <= b => a < b
  BY DEF Behind, Cut
<1>2. S \in SUBSET Places /\ D \in SUBSET Places /\ st \in LinkStates /\ ListIs(st, k, S)
  BY DEF Linked
<1>3. S \subseteq Nat \ {0} /\ S \subseteq Cells
  BY <1>2, PlaceFacts
<1>4. g = [f EXCEPT ![k] = D] /\ g \in [Levels -> SUBSET Places] /\ g[k] = D
      /\ \A j \in Levels \ {k} : g[j] = f[j]
  BY <1>2 DEF Unlink, Linked
<1>5. r \in Int
  <2>1. {b \in D : x <= b} \in SUBSET Places
    BY <1>2
  <2>2. QED
    BY <1>1, <2>1, HeadFacts
<1>6. \A a \in D : \A b \in T : x <= a => b < a
  BY <1>1
<1>7. ASSUME NEW a \in D, x <= a PROVE After(a, D) = After(a, S)
  <2>1. \A b \in T : ~ (b > a)
    BY <1>1, <1>3, <1>6, <1>7
  <2>2. QED
    BY <2>1 DEF After
<1> HIDE DEF t, g
<1>8. CASE p = HeadOf(k) /\ \A b \in S : x <= b
  <2>1. t \in LinkStates /\ t.head[k] = r /\ t.mem = st.mem
        /\ \A j \in Levels \ {k} : t.head[j] = st.head[j]
    BY <1>2, <1>5, <1>8, SetHead DEF t
  <2>2. ListIs(t, k, D)
    <3>1. {b \in D : x <= b} = D
      BY <1>8
    <3>2. IsHeadOf(t.head[k], D)
      BY <1>1, <2>1, <3>1
    <3>3. ASSUME NEW a \in D PROVE IsHeadOf(LinkAt(t, a), After(a, D))
      BY <1>2, <1>7, <1>8, <2>1 DEF ListIs, LinkAt
    <3>4. QED
      BY <3>2, <3>3 DEF ListIs
  <2>3. ASSUME NEW j \in Levels \ {k} PROVE ListIs(t, j, f[j])
    BY <2>1, ListKept DEF Linked
  <2>4. Linked(t, g)
    BY <1>4, <2>1, <2>2, <2>3 DEF Linked
  <2>5. \A c \in Cells : t.mem[c] = st.mem[c]
    BY <2>1
  <2>6. Linked(SetLink(st, p, r), Unlink(f, k, T))
    BY <2>4 DEF t, g
  <2>7. SameBut(f[k], st, SetLink(st, p, r))
    BY <2>5 DEF t, SameBut
  <2>8. QED
    BY <2>6, <2>7
<1>9. CASE p \in S /\ p < x /\ \A b \in S : p < b => x <= b
  <2>1. p \in Places /\ p \notin T /\ p \in D
    BY <1>1, <1>2, <1>3, <1>9
  <2>2. t \in LinkStates /\ t.head = st.head /\ t.mem[p].word = r
        /\ \A c \in Cells \ {p} : t.mem[c] = st.mem[c]
    BY <1>2, <1>5, <2>1, SetCell DEF t
  <2>3. ListIs(t, k, D)
    <3>1. IsHeadOf(t.head[k], D)
      <4>1. IsHeadOf(st.head[k], S)
        BY <1>2 DEF ListIs
      <4>2. st.head[k] \in S /\ st.head[k] <= p /\ \A b \in S : st.head[k] <= b
        BY <1>2, <1>9, <4>1, HeadFacts
      <4>3. st.head[k] \notin T
        BY <1>1, <1>3, <1>9, <4>2
      <4>4. QED
        BY <2>2, <4>2, <4>3 DEF IsHeadOf, IsFirst
    <3>2. ASSUME NEW a \in D PROVE IsHeadOf(LinkAt(t, a), After(a, D))
      <4>1. a \in Nat /\ a \in S /\ a \in Cells /\ p \in Nat
        BY <1>3, <2>1
      <4>2. CASE a = p
        <5>1. \A b \in D : b > p <=> x <= b
          BY <1>3, <1>9, <4>1
        <5>2. After(a, D) = {b \in D : x <= b}
          BY <4>2, <5>1 DEF After
        <5>3. LinkAt(t, a) = r
          BY <2>2, <4>2 DEF LinkAt
        <5>4. QED
          BY <1>1, <5>2, <5>3
      <4>3. CASE a < p
        <5>1. LinkAt(t, a) = LinkAt(st, a)
          BY <2>2, <4>1, <4>3 DEF LinkAt
        <5>2. IsHeadOf(LinkAt(st, a), After(a, S)) /\ After(a, S) \in SUBSET Places
          BY <1>2, <4>1 DEF ListIs, After
        <5>3. p \in After(a, S)
          BY <1>9, <4>3 DEF After
        <5>4. LinkAt(st, a) \in After(a, S) /\ LinkAt(st, a) <= p
              /\ \A b \in After(a, S) : LinkAt(st, a) <= b
          BY <5>2, <5>3, HeadFacts
        <5>5. LinkAt(st, a) \notin T
          BY <1>1, <1>3, <1>9, <5>4 DEF After
        <5>6. LinkAt(st, a) \in After(a, D) /\ \A b \in After(a, D) : LinkAt(st, a) <= b
          BY <5>4, <5>5 DEF After
        <5>7. QED
          BY <5>1, <5>6 DEF IsHeadOf, IsFirst
      <4>4. CASE p < a
        <5>1. x <= a
          BY <1>9, <4>1, <4>4
        <5>2. LinkAt(t, a) = LinkAt(st, a)
          BY <2>2, <4>1, <4>4 DEF LinkAt
        <5>3. QED
          BY <1>2, <1>7, <4>1, <5>1, <5>2 DEF ListIs
      <4>5. QED
        BY <4>1, <4>2, <4>3, <4>4
    <3>3. QED
      BY <3>1, <3>2 DEF ListIs
  <2>4. ASSUME NEW j \in Levels \ {k} PROVE ListIs(t, j, f[j])
    <3>1. f[j] \in SUBSET Places /\ p \notin f[j] /\ ListIs(st, j, f[j])
      BY <1>9 DEF Linked
    <3>2. \A a \in f[j] : t.mem[a] = st.mem[a]
      BY <2>2, <3>1, PlaceFacts
    <3>3. QED
      BY <2>2, <3>1, <3>2, ListKept
  <2>5. Linked(t, g)
    BY <1>4, <2>2, <2>3, <2>4 DEF Linked
  <2>6. SameBut(f[k], st, t)
    BY <1>9, <2>2 DEF SameBut
  <2>7. Linked(SetLink(st, p, r), Unlink(f, k, T))
    BY <2>5 DEF t, g
  <2>8. QED
    BY <2>6, <2>7 DEF t
<1>10. QED
  BY <1>8, <1>9 DEF Gap

(* The order of the blocks of a run.                                       *)
LEMMA RunOrder ==
  ASSUME NEW a \in Nat, NEW k \in Levels, NEW n \in Nat \ {0}
  PROVE  /\ a \in Blocks(a, k, n) /\ a + (n - 1) * Size[k] \in Blocks(a, k, n)
         /\ Blocks(a, k, n) \subseteq Nat
         /\ \A b \in Blocks(a, k, n) : a <= b /\ b <= a + (n - 1) * Size[k]
         /\ \A b \in Blocks(a, k, n) : b # a + (n - 1) * Size[k] =>
              /\ b \in Blocks(a, k, n - 1) /\ b + Size[k] \in Blocks(a, k, n)
              /\ \A c \in Blocks(a, k, n) : b < c => b + Size[k] <= c
         /\ \A b \in Blocks(a, k, n - 1) : b \in Blocks(a, k, n) /\ b # a + (n - 1) * Size[k]
<1> DEFINE z == Size[k]
           last == a + (n - 1) * z
<1>1. z \in Nat \ {0}
  BY SizeFacts
<1>2. /\ Blocks(a, k, n) = {a + i * z : i \in 0 .. n - 1}
      /\ Blocks(a, k, n - 1) = {a + i * z : i \in 0 .. (n - 1) - 1}
  BY DEF Blocks
<1> HIDE DEF z
<1>3. 0 \in 0 .. n - 1 /\ n - 1 \in 0 .. n - 1 /\ a + 0 * z = a
  BY <1>1
<1>4. \A i \in 0 .. n - 1 : i * z \in Nat /\ i * z <= (n - 1) * z /\ (n - 1) * z \in Nat
  BY <1>1, Multiples
<1>5. a \in Blocks(a, k, n) /\ last \in Blocks(a, k, n)
  BY <1>2, <1>3
<1>6. Blocks(a, k, n) \subseteq Nat /\ \A b \in Blocks(a, k, n) : a <= b /\ b <= last
  BY <1>2, <1>4
<1>7. ASSUME NEW b \in Blocks(a, k, n), b # last
      PROVE  /\ b \in Blocks(a, k, n - 1) /\ b + z \in Blocks(a, k, n)
             /\ \A c \in Blocks(a, k, n) : b < c => b + z <= c
  <2>1. PICK i \in 0 .. n - 1 : b = a + i * z
    BY <1>2
  <2>2. i \in 0 .. (n - 1) - 1 /\ i + 1 \in 0 .. n - 1
    BY <1>7, <2>1
  <2>3. (i + 1) * z = i * z + z /\ i * z \in Nat
    BY <1>1, Multiples
  <2>4. b + z = a + (i + 1) * z
    BY <1>1, <2>1, <2>3
  <2>5. ASSUME NEW c \in Blocks(a, k, n), b < c PROVE b + z <= c
    <3>1. PICK j \in 0 .. n - 1 : c = a + j * z
      BY <1>2
    <3>2. j * z \in Nat /\ i * z < j * z
      BY <1>4, <2>1, <2>3, <2>5, <3>1
    <3>3. i < j
      BY <1>1, <3>2, Multiples
    <3>4. (i + 1) * z <= j * z
      BY <1>1, <3>3, Multiples
    <3>5. QED
      BY <1>1, <2>3, <2>4, <3>1, <3>2, <3>4
  <2>6. QED
    BY <1>2, <2>1, <2>2, <2>4, <2>5
<1>8. ASSUME NEW b \in Blocks(a, k, n - 1) PROVE b \in Blocks(a, k, n) /\ b # last
  <2>1. PICK i \in 0 .. (n - 1) - 1 : b = a + i * z
    BY <1>2
  <2>2. i \in 0 .. n - 1 /\ i < n - 1
    OBVIOUS
  <2>3. i * z # (n - 1) * z
    BY <1>1, <2>2, Multiples
  <2>4. QED
    BY <1>2, <1>4, <2>1, <2>2, <2>3
<1>9. QED
  BY <1>5, <1>6, <1>7, <1>8 DEF z

(* pool_add_free: blocks that lie between two members of a list, or before *)
(* or behind all of them, become members.                                  *)
LEMMA AddLinked ==
  ASSUME NEW st, NEW f, Linked(st, f), NEW k \in Levels, NEW block \in Places, NEW n \in Nat \ {0},
         Blocks(block, k, n) \subseteq Places,
         \A j \in Levels : f[j] \cap Blocks(block, k, n) = {},
         \A b \in f[k] : b < block \/ block + (n - 1) * Size[k] < b
  PROVE  /\ Linked(PoolAddFree(st, k, block, n), AddFree(f, k, block, n))
         /\ SameBut(Blocks(block, k, n) \cup f[k], st, PoolAddFree(st, k, block, n))
<1> DEFINE B == Blocks(block, k, n)
           S == f[k]
           U == S \cup B
           g == AddFree(f, k, block, n)
           last == block + (n - 1) * Size[k]
           st1 == Chained(st, k, block, n)
<1>1. S \in SUBSET Places /\ st \in LinkStates /\ ListIs(st, k, S) /\ block \in Nat /\ n \in Nat
  BY PlaceFacts DEF Linked
<1>2. S \subseteq Nat /\ S \subseteq Cells /\ NULL \notin S
  BY <1>1, PlaceFacts
<1>3. /\ block \in B /\ last \in B /\ B \subseteq Nat /\ B \subseteq Places /\ B \subseteq Cells
      /\ \A b \in B : block <= b /\ b <= last
      /\ \A b \in B : b # last => /\ b \in Blocks(block, k, n - 1) /\ b + Size[k] \in B
                                  /\ \A c \in B : b < c => b + Size[k] <= c
      /\ \A b \in Blocks(block, k, n - 1) : b \in B /\ b # last
  BY <1>1, RunOrder, PlaceFacts
<1>4. \A b \in S : b < block \/ last < b
  OBVIOUS
<1>5. S \cap B = {} /\ \A j \in Levels : f[j] \cap B = {}
  OBVIOUS
<1>6. /\ g = [f EXCEPT ![k] = U] /\ g \in [Levels -> SUBSET Places] /\ g[k] = U
      /\ \A j \in Levels \ {k} : g[j] = f[j]
  BY <1>1, <1>3 DEF AddFree, Linked
<1>7. /\ st1 \in LinkStates /\ st1.head = st.head
      /\ \A c \in Cells : IF c \in Blocks(block, k, n - 1)
                          THEN st1.mem[c].word = c + Size[k]
                          ELSE st1.mem[c] = st.mem[c]
  BY <1>1, ChainedSets
<1>8. Size[k] \in Nat \ {0}
  BY SizeFacts
<1> HIDE DEF B, g, last, st1
<1>9. ListIs(st1, k, S)
  <2>1. \A a \in S : st1.mem[a] = st.mem[a]
    BY <1>2, <1>3, <1>5, <1>7
  <2>2. QED
    BY <1>1, <1>7, <2>1, ListKept
<1>10. PICK p, q : Position(st1, k, block) = <<p, q>> /\ Gap(st1, k, S, block, p, q)
  BY <1>1, <1>9, PositionIs
<1> DEFINE st2 == SetLink(st1, p, block)
           t == SetLink(st2, last, q)
<1>11. t = PoolAddFree(st, k, block, n)
  BY <1>10 DEF PoolAddFree, st1, last
<1>12. q \in Int /\ IsHeadOf(q, {b \in S : block <= b})
  <2>1. IsHeadOf(q, {b \in S : block <= b}) /\ {b \in S : block <= b} \in SUBSET Places
    BY <1>1, <1>10 DEF Gap
  <2>2. QED
    BY <2>1, HeadFacts
<1>13. last \in Places /\ last \in Cells
  BY <1>3
<1>14. /\ p \in S \/ p = HeadOf(k)
       /\ st2 \in LinkStates
       /\ IF p = HeadOf(k) THEN st2.head[k] = block ELSE st2.head[k] = st.head[k]
       /\ \A j \in Levels \ {k} : st2.head[j] = st.head[j]
       /\ p \in S => st2.mem[p].word = block
       /\ \A c \in Cells : c \notin S \/ c # p => st2.mem[c] = st1.mem[c]
  <2>1. CASE p = HeadOf(k)
    <3>1. p \notin Places
      BY <2>1, PlaceFacts, SizeFacts DEF HeadOf
    <3>2. p \notin S
      BY <1>1, <3>1
    <3>3. block \in Int
      BY <1>1
    <3>4. /\ st2 \in LinkStates /\ st2.head[k] = block /\ st2.mem = st1.mem
          /\ \A j \in Levels \ {k} : st2.head[j] = st1.head[j]
      BY <1>7, <2>1, <3>3, SetHead
    <3>5. QED
      BY <1>7, <2>1, <3>2, <3>4
  <2>2. CASE p # HeadOf(k) /\ p \in S
    <3>1. p \in Places /\ block \in Int
      BY <1>1, <2>2
    <3>2. /\ st2 \in LinkStates /\ st2.head = st1.head /\ st2.mem[p].word = block
          /\ \A c \in Cells \ {p} : st2.mem[c] = st1.mem[c]
      BY <1>7, <3>1, SetCell
    <3>3. QED
      BY <1>7, <2>2, <3>2
  <2>3. QED
    BY <1>10, <2>1, <2>2 DEF Gap
<1> HIDE DEF st2
<1>15. /\ t \in LinkStates /\ t.head = st2.head
       /\ t.mem[last].word = q
       /\ \A c \in Cells \ {last} : t.mem[c] = st2.mem[c]
  BY <1>12, <1>13, <1>14, SetCell
<1> HIDE DEF t
<1>16. p \notin B
  <2>1. ASSUME p \in B PROVE FALSE
    <3>1. p \in Places
      BY <1>3, <2>1
    <3>2. p = HeadOf(k)
      BY <1>5, <1>14, <2>1
    <3>3. QED
      BY <3>1, <3>2, PlaceFacts, SizeFacts DEF HeadOf
  <2>2. QED
    BY <2>1
<1>17. /\ LinkAt(t, last) = q
       /\ \A b \in B : b # last => t.mem[b].word = b + Size[k]
       /\ \A c \in Cells : c \notin B /\ (c \notin S \/ c # p) => t.mem[c] = st.mem[c]
       /\ p \in S => t.mem[p].word = block
  <2>1. ASSUME NEW b \in B, b # last PROVE t.mem[b].word = b + Size[k]
    <3>1. b \in Cells /\ b # p /\ b \in Blocks(block, k, n - 1)
      BY <1>3, <1>16, <2>1
    <3>2. t.mem[b] = st2.mem[b] /\ st2.mem[b] = st1.mem[b]
      BY <1>14, <1>15, <2>1, <3>1
    <3>3. QED
      BY <1>7, <3>1, <3>2
  <2>2. ASSUME NEW c \in Cells, c \notin B, c \notin S \/ c # p PROVE t.mem[c] = st.mem[c]
    <3>1. c # last /\ c \notin Blocks(block, k, n - 1)
      BY <1>3, <2>2
    <3>2. QED
      BY <1>7, <1>14, <1>15, <2>2, <3>1
  <2>3. ASSUME p \in S PROVE t.mem[p].word = block
    <3>1. p \in Cells /\ p # last
      BY <1>2, <1>3, <1>16, <2>3
    <3>2. QED
      BY <1>14, <1>15, <2>3, <3>1
  <2>4. QED
    BY <1>15, <2>1, <2>2, <2>3 DEF LinkAt
<1>18. IsHeadOf(t.head[k], U)
  <2>1. CASE p = HeadOf(k)
    <3>1. \A b \in S : block <= b
      <4>1. p \notin S
        BY <1>1, <2>1, PlaceFacts, SizeFacts DEF HeadOf
      <4>2. QED
        BY <1>10, <4>1 DEF Gap
    <3>2. t.head[k] = block
      BY <1>14, <1>15, <2>1
    <3>3. QED
      BY <1>3, <3>1, <3>2 DEF IsHeadOf, IsFirst
  <2>2. CASE p # HeadOf(k)
    <3>1. p \in S /\ p < block
      BY <1>10, <2>2 DEF Gap
    <3>2. t.head[k] = st.head[k]
      BY <1>14, <1>15, <2>2
    <3>3. st.head[k] \in S /\ st.head[k] <= p /\ \A b \in S : st.head[k] <= b
      BY <1>1, <3>1, HeadFacts DEF ListIs
    <3>4. \A b \in B : st.head[k] <= b
      BY <1>1, <1>2, <1>3, <3>1, <3>3
    <3>5. QED
      BY <3>2, <3>3, <3>4 DEF IsHeadOf, IsFirst
  <2>3. QED
    BY <2>1, <2>2
<1>19. ASSUME NEW a \in B PROVE IsHeadOf(LinkAt(t, a), After(a, U))
  <2>1. a \in Nat /\ block <= a /\ a <= last /\ last \in Nat
    BY <1>3
  <2>2. CASE a = last
    <3>1. ASSUME NEW b \in S PROVE b > last <=> block <= b
      <4>1. b \in Nat /\ (b < block \/ last < b)
        BY <1>2, <1>4
      <4>2. QED
        BY <1>1, <2>1, <4>1
    <3>2. ASSUME NEW b \in B PROVE ~ (b > last)
      <4>1. b \in Nat /\ b <= last
        BY <1>3
      <4>2. QED
        BY <2>1, <4>1
    <3>3. After(a, U) = {b \in S : block <= b}
      BY <2>2, <3>1, <3>2 DEF After
    <3>4. QED
      BY <1>12, <1>17, <2>2, <3>3
  <2>3. CASE a # last
    <3> DEFINE c == a + Size[k]
    <3>1. c \in B /\ \A b \in B : a < b => c <= b
      BY <1>3, <2>3
    <3>2. LinkAt(t, a) = c
      <4>1. t.mem[a].word = a + Size[k]
        BY <1>17, <2>3
      <4>2. QED
        BY <4>1 DEF LinkAt
    <3>3. a < c
      BY <1>8, <2>1
    <3> HIDE DEF c
    <3>4. c \in Nat /\ c <= last
      BY <1>3, <3>1
    <3>5. \A b \in S : a < b => c <= b
      BY <1>1, <1>2, <1>4, <2>1, <3>4
    <3>6. c \in After(a, U) /\ \A b \in After(a, U) : c <= b
      BY <3>1, <3>3, <3>5 DEF After
    <3>7. QED
      BY <3>2, <3>6 DEF IsHeadOf, IsFirst
  <2>4. QED
    BY <2>2, <2>3
<1>20. ASSUME NEW a \in S PROVE IsHeadOf(LinkAt(t, a), After(a, U))
  <2>1. a \in Nat /\ a \in Cells /\ a \notin B /\ block \in Nat /\ last \in Nat /\ block <= last
    BY <1>1, <1>2, <1>3, <1>5
  <2>2. IsHeadOf(LinkAt(st, a), After(a, S)) /\ After(a, S) \in SUBSET Places
    BY <1>1 DEF ListIs, After
  <2>3. CASE a = p
    <3>1. LinkAt(t, a) = block
      BY <1>17, <2>3 DEF LinkAt
    <3>2. a < block /\ \A b \in S : a < b => block <= b
      <4>1. p # HeadOf(k)
        BY <1>1, <2>3, PlaceFacts, SizeFacts DEF HeadOf
      <4>2. QED
        BY <1>10, <2>3, <4>1 DEF Gap
    <3>3. block \in After(a, U) /\ \A b \in After(a, U) : block <= b
      BY <1>3, <3>2 DEF After
    <3>4. QED
      BY <3>1, <3>3 DEF IsHeadOf, IsFirst
  <2>4. CASE a # p /\ a < block
    <3>1. p \in S /\ a < p /\ p < block
      BY <1>10, <2>1, <2>4, <1>2 DEF Gap
    <3>2. LinkAt(t, a) = LinkAt(st, a)
      BY <1>17, <2>1, <2>4 DEF LinkAt
    <3>3. p \in After(a, S)
      BY <3>1 DEF After
    <3>4. LinkAt(st, a) \in After(a, S) /\ LinkAt(st, a) <= p /\ \A b \in After(a, S) : LinkAt(st, a) <= b
      BY <2>2, <3>3, HeadFacts
    <3>5. LinkAt(st, a) \in Nat /\ p \in Nat
      BY <1>2, <3>1, <3>4 DEF After
    <3>6. \A b \in B : LinkAt(st, a) <= b
      BY <1>3, <2>1, <3>1, <3>4, <3>5
    <3>7. LinkAt(st, a) \in After(a, U) /\ \A b \in After(a, U) : LinkAt(st, a) <= b
      BY <3>4, <3>6 DEF After
    <3>8. QED
      BY <3>2, <3>7 DEF IsHeadOf, IsFirst
  <2>5. CASE a # p /\ last < a
    <3>1. LinkAt(t, a) = LinkAt(st, a)
      BY <1>17, <2>1, <2>5 DEF LinkAt
    <3>2. ASSUME NEW b \in B PROVE ~ (b > a)
      <4>1. b \in Nat /\ b <= last
        BY <1>3
      <4>2. QED
        BY <2>1, <2>5, <4>1
    <3>3. After(a, U) = After(a, S)
      BY <3>2 DEF After
    <3>4. QED
      BY <2>2, <3>1, <3>3
  <2>6. QED
    BY <1>4, <2>3, <2>4, <2>5
<1>21. ListIs(t, k, U)
  BY <1>18, <1>19, <1>20 DEF ListIs
<1>22. ASSUME NEW j \in Levels \ {k} PROVE ListIs(t, j, f[j])
  <2>1. f[j] \in SUBSET Places /\ f[j] \cap S = {} /\ f[j] \cap B = {} /\ ListIs(st, j, f[j])
    BY <1>5 DEF Linked
  <2>2. ASSUME NEW a \in f[j] PROVE t.mem[a] = st.mem[a]
    <3>1. a \in Places /\ a \in Cells /\ a \notin B /\ a \notin S
      BY <2>1, PlaceFacts
    <3>2. QED
      BY <1>17, <3>1
  <2>3. t.head[j] = st.head[j]
    BY <1>14, <1>15
  <2>4. QED
    BY <2>1, <2>2, <2>3, ListKept
<1>23. \A i, j \in Levels : i # j => g[i] \cap g[j] = {}
  <2>1. SUFFICES ASSUME NEW i \in Levels, NEW j \in Levels, i # j PROVE g[i] \cap g[j] = {}
    OBVIOUS
  <2>2. f[i] \cap f[j] = {} /\ f[i] \cap B = {} /\ f[j] \cap B = {}
    BY <1>5, <2>1 DEF Linked
  <2>3. (i = k => g[i] = f[i] \cup B /\ g[j] = f[j]) /\ (j = k => g[j] = f[j] \cup B /\ g[i] = f[i])
        /\ (i # k => g[i] = f[i]) /\ (j # k => g[j] = f[j])
    BY <1>6, <2>1
  <2>4. QED
    BY <2>2, <2>3
<1>24. Linked(t, g)
  <2>1. \A j \in Levels : ListIs(t, j, g[j])
    BY <1>6, <1>21, <1>22
  <2>2. QED
    BY <1>6, <1>15, <1>23, <2>1 DEF Linked
<1>25. SameBut(B \cup S, st, t)
  BY <1>17 DEF SameBut
<1>26. QED
  BY <1>11, <1>24, <1>25 DEF B, g

-----------------------------------------------------------------------------
(* The lists of the pool, and what is done to them.                        *)

LEMMA RunPlaces ==
  ASSUME NEW a \in Places, NEW k \in Levels, NEW n \in Nat \ {0}, a + n * Size[k] <= PoolEnd
  PROVE  Blocks(a, k, n) \subseteq Places
<1>1. a \in Nat /\ Size[k] \in Nat \ {0} /\ PoolEnd \in Nat
  BY PlaceFacts, PlacesFill, SizeFacts
<1>2. SUFFICES ASSUME NEW i \in 0 .. n - 1 PROVE a + i * Size[k] \in Places
  BY DEF Blocks
<1>3. a + i * Size[k] + Size[k] <= a + n * Size[k] /\ a + i * Size[k] \in Nat
  BY <1>1, PieceInRun
<1> DEFINE p == i * Size[k]
           q == n * Size[k]
<1>4. p \in Nat /\ q \in Nat
  BY <1>1, Multiples
<1>5. a + p < PoolEnd
  <2> HIDE DEF p, q
  <2>1. a + p + Size[k] <= a + q /\ a + q <= PoolEnd
    BY <1>3 DEF p, q
  <2>2. QED
    BY <1>1, <1>4, <2>1
<1>6. i \in Nat
  OBVIOUS
<1>7. QED
  BY <1>5, <1>6, PlaceAhead

(* A run that no block of a list touches can be added to any of them, or   *)
(* handed out.                                                             *)
LEMMA ApartFromRun ==
  ASSUME NEW f \in [Levels -> SUBSET Places], NEW k \in Levels, NEW a \in Places,
         NEW n \in Nat \ {0},
         \A j \in Levels : \A b \in f[j] : Apart(b, Size[j], a, n * Size[k])
  PROVE  /\ \A j \in Levels : f[j] \cap Blocks(a, k, n) = {}
         /\ \A j \in Levels : \A b \in f[j] : ~ (a <= b /\ b < a + n * Size[k])
         /\ \A b \in f[k] : b < a \/ a + (n - 1) * Size[k] < b
<1> DEFINE z == n * Size[k]
           l == (n - 1) * Size[k]
<1>1. a \in Nat /\ Size[k] \in Nat \ {0} /\ z \in Nat /\ l \in Nat /\ z = l + Size[k]
  <2>1. a \in Nat /\ Size[k] \in Nat \ {0} /\ n - 1 \in Nat
    BY PlaceFacts, SizeFacts
  <2>2. ((n - 1) + 1) * Size[k] = (n - 1) * Size[k] + Size[k] /\ (n - 1) + 1 = n
    BY <2>1, Multiples
  <2>3. QED
    BY <2>1, <2>2, Multiples
<1>2. \A c \in Blocks(a, k, n) : a <= c /\ c <= a + l /\ c \in Nat
  BY <1>1, RunOrder
<1>3. \A j \in Levels : \A b \in f[j] : b \in Nat
  BY PlaceFacts
<1>4. \A j \in Levels : \A b \in f[j] : Apart(b, Size[j], a, z)
  OBVIOUS
<1> HIDE DEF z, l
<1>5. ASSUME NEW j \in Levels, NEW b \in f[j] PROVE b < a \/ a + z <= b
  <2>1. b + Size[j] <= a \/ a + z <= b
    BY <1>4 DEF Apart
  <2>2. b \in Nat /\ Size[j] \in Nat \ {0} /\ a \in Nat
    BY <1>1, <1>3, SizeFacts
  <2>3. QED
    BY <2>1, <2>2
<1>6. ASSUME NEW j \in Levels, NEW b \in f[j], b \in Blocks(a, k, n) PROVE FALSE
  <2>1. a <= b /\ b <= a + l /\ b \in Nat
    BY <1>2, <1>6
  <2>2. b < a \/ a + z <= b
    BY <1>5
  <2>3. a \in Nat /\ l \in Nat /\ Size[k] \in Nat \ {0} /\ z = l + Size[k]
    BY <1>1
  <2> DEFINE d == Size[k]
  <2> HIDE DEF d
  <2>4. a + l < a + z /\ z \in Nat
    BY <2>3
  <2>5. QED
    BY <2>1, <2>2, <2>3, <2>4
<1>7. \A j \in Levels : \A b \in f[j] : ~ (a <= b /\ b < a + z)
  BY <1>1, <1>5, <1>3
<1>8. \A b \in f[k] : b < a \/ a + l < b
  BY <1>1, <1>5, <1>3
<1>9. QED
  BY <1>6, <1>7, <1>8 DEF z, l

(* The head leaves its list.                                               *)
LEMMA UnlinkFirst ==
  ASSUME NEW st, NEW f, Linked(st, f), NEW k \in Levels, f[k] # {}
  PROVE  /\ st.head[k] \in f[k] /\ IsFirst(st.head[k], f[k])
         /\ Linked(SetLink(st, HeadOf(k), LinkAt(st, st.head[k])), Unlink(f, k, {st.head[k]}))
         /\ SetLink(st, HeadOf(k), LinkAt(st, st.head[k])).mem = st.mem
<1> DEFINE a == st.head[k]
           p == HeadOf(k)
           r == LinkAt(st, a)
           T == {a}
<1>1. f[k] \in SUBSET Places /\ st \in LinkStates /\ ListIs(st, k, f[k]) /\ f[k] # {}
  BY DEF Linked
<1>2. IsHeadOf(a, f[k])
  BY <1>1 DEF ListIs
<1>3. a \in f[k] /\ IsFirst(a, f[k]) /\ \A b \in f[k] : a <= b
  BY <1>1, <1>2 DEF IsHeadOf, IsFirst
<1>4. a \in Nat /\ f[k] \subseteq Nat
  BY <1>1, <1>3, PlaceFacts
<1>5. r \in Int /\ IsHeadOf(r, After(a, f[k]))
  BY <1>1, <1>3, LinkFacts DEF ListIs
<1>6. Gap(st, k, f[k], a, p, a)
  <2>1. {b \in f[k] : a <= b} = f[k]
    BY <1>3
  <2>2. QED
    BY <1>2, <1>3, <2>1 DEF Gap
<1>7. IsHeadOf(r, Behind(f[k] \ T, a))
  <2>1. {b \in f[k] \ T : a <= b} = After(a, f[k])
    BY <1>3, <1>4 DEF After
  <2>2. QED
    BY <1>5, <2>1 DEF Behind
<1>8. Cut(f[k], T, a)
  BY <1>3, <1>4 DEF Cut
<1>9. SetLink(st, p, r).mem = st.mem
  BY <1>1, <1>5, SetHead
<1> HIDE DEF a, p, r, T
<1>10. Linked(SetLink(st, p, r), Unlink(f, k, T))
  BY <1>4, <1>6, <1>7, <1>8, UnlinkLinked
<1>11. QED
  BY <1>3, <1>9, <1>10 DEF a, p, r, T

-----------------------------------------------------------------------------
(* The headers: L is what they say.                                        *)

Marks(st, L) ==
  /\ L \subseteq Places \X Levels \X (Nat \ {0})
  /\ \A m \in L : st.mem[m[1]] = [word |-> m[2] + SHORT * m[3], magic |-> TRUE]

LEMMA MarksKept ==
  ASSUME NEW st, NEW t, NEW L, Marks(st, L), NEW M \in SUBSET L,
         \A m \in M : t.mem[m[1]] = st.mem[m[1]]
  PROVE  Marks(t, M)
<1>1. ASSUME NEW m \in M PROVE t.mem[m[1]] = [word |-> m[2] + SHORT * m[3], magic |-> TRUE]
  <2>1. st.mem[m[1]] = [word |-> m[2] + SHORT * m[3], magic |-> TRUE]
    BY DEF Marks
  <2>2. QED
    BY <2>1
<1>2. M \subseteq Places \X Levels \X (Nat \ {0})
  BY DEF Marks
<1>3. QED
  BY <1>1, <1>2 DEF Marks

(* A header is written where no block in use lies.                         *)
LEMMA HandOutMarks ==
  ASSUME NEW st \in LinkStates, NEW L, Marks(st, L), NEW a \in Places, NEW idx \in Levels,
         NEW count \in Nat \ {0},
         \A m \in L : ~ (a <= m[1] /\ m[1] < a + count * Size[idx])
  PROVE  Marks(HandOut(st, a, idx, count), L \cup {<<a, idx, count>>})
<1> DEFINE t == HandOut(st, a, idx, count)
           u == <<a, idx, count>>
           M == L \cup {u}
           e == a + count * Size[idx]
<1>1. /\ t.mem[a] = [word |-> idx + SHORT * count, magic |-> TRUE]
      /\ \A c \in Cells \ {a} : IF a < c /\ c < e THEN t.mem[c] = Data ELSE t.mem[c] = st.mem[c]
  <2>1. count \in Nat
    OBVIOUS
  <2>2. QED
    BY <2>1, HandOutSets
<1>2. M \subseteq Places \X Levels \X (Nat \ {0}) /\ u \in M /\ u[1] = a /\ u[2] = idx /\ u[3] = count
  BY DEF Marks
<1>3. \A m \in L : m[1] \in Cells /\ m[1] \in Nat
  <2>1. \A m \in L : m[1] \in Places
    BY DEF Marks
  <2>2. QED
    BY <2>1, PlaceFacts
<1>4. a \in Nat /\ a < e
  <2>1. count * Size[idx] \in Nat /\ 0 * Size[idx] < count * Size[idx]
    BY SizeFacts, Multiples
  <2>2. 0 * Size[idx] = 0
    BY SizeFacts
  <2>3. QED
    BY <2>1, <2>2, PlaceFacts
<1>5. \A m \in L : ~ (a <= m[1] /\ m[1] < e)
  OBVIOUS
<1> HIDE DEF e, t, u
<1>6. ASSUME NEW m \in M PROVE t.mem[m[1]] = [word |-> m[2] + SHORT * m[3], magic |-> TRUE]
  <2>1. CASE m = u
    BY <1>1, <1>2, <2>1
  <2>2. CASE m \in L
    <3>1. m[1] # a /\ ~ (a < m[1] /\ m[1] < e) /\ m[1] \in Cells
      BY <1>3, <1>4, <1>5, <2>2
    <3>2. t.mem[m[1]] = st.mem[m[1]]
      BY <1>1, <3>1
    <3>3. QED
      BY <2>2, <3>2 DEF Marks
  <2>3. QED
    BY <2>1, <2>2
<1>7. Marks(t, M)
  BY <1>2, <1>6 DEF Marks
<1>8. QED
  BY <1>7 DEF t, u

-----------------------------------------------------------------------------
(* No block of a list touches the n blocks of bucket k behind a.           *)
Clear(f, a, k, n) == \A j \in Levels : \A b \in f[j] : Apart(b, Size[j], a, n * Size[k])

LEMMA AddClear ==
  ASSUME NEW st, NEW f, Linked(st, f), NEW k \in Levels, NEW a \in Places, NEW n \in Nat \ {0},
         a + n * Size[k] <= PoolEnd, Clear(f, a, k, n)
  PROVE  /\ Linked(PoolAddFree(st, k, a, n), AddFree(f, k, a, n))
         /\ SameBut(Blocks(a, k, n) \cup f[k], st, PoolAddFree(st, k, a, n))
<1>1. Blocks(a, k, n) \subseteq Places
  BY RunPlaces
<1>2. f \in [Levels -> SUBSET Places]
  BY DEF Linked
<1>3. \A j \in Levels : \A b \in f[j] : Apart(b, Size[j], a, n * Size[k])
  BY DEF Clear
<1>4. /\ \A j \in Levels : f[j] \cap Blocks(a, k, n) = {}
      /\ \A b \in f[k] : b < a \/ a + (n - 1) * Size[k] < b
  BY <1>2, <1>3, ApartFromRun
<1>5. QED
  BY <1>1, <1>4, AddLinked

LEMMA HandOutClear ==
  ASSUME NEW st, NEW f, Linked(st, f), NEW k \in Levels, NEW a \in Places, NEW n \in Nat \ {0},
         Clear(f, a, k, n)
  PROVE  Linked(HandOut(st, a, k, n), f)
<1>1. f \in [Levels -> SUBSET Places]
  BY DEF Linked
<1>2. \A j \in Levels : \A b \in f[j] : Apart(b, Size[j], a, n * Size[k])
  BY DEF Clear
<1>3. \A j \in Levels : \A b \in f[j] : ~ (a <= b /\ b < a + n * Size[k])
  BY <1>1, <1>2, ApartFromRun
<1>4. QED
  BY <1>3, HandOutLinked

-----------------------------------------------------------------------------
(* The invariant and what the lemmas above speak of.                       *)

LEMMA LinkedNow ==
  ASSUME PoolInv, LinkInv
  PROVE  Linked(s, free) /\ Marks(s, live)
<1>1. s \in LinkStates /\ live \subseteq Places \X Levels \X (Nat \ {0})
  BY DEF LinkInv, LinkTypeOK
<1>2. free \in [Levels -> SUBSET Places]
  BY DEF LinkInv, PoolInv, TypeOK
<1>3. ASSUME NEW k \in Levels, NEW j \in Levels, k # j, NEW a \in free[k] PROVE a \notin free[j]
  <2>1. a \in Nat /\ Size[k] \in Nat \ {0} /\ Size[j] \in Nat \ {0}
    BY SizeFacts DEF PoolInv, TypeOK
  <2>2. a \in free[j] => Apart(a, Size[k], a, Size[j])
    BY <1>3 DEF PoolInv, Disjoint, NoOverlap
  <2>3. QED
    BY <2>1, <2>2 DEF Apart
<1>4. Linked(s, free)
  BY <1>1, <1>2, <1>3 DEF Linked, LinkInv
<1>5. Marks(s, live)
  BY <1>1 DEF Marks, LinkInv, HeadersHold
<1>6. QED
  BY <1>4, <1>5

LEMMA HeadsOfLists ==
  ASSUME NEW st, NEW f, Linked(st, f)
  PROVE  st.head \in [Levels -> Places \cup {NULL}]
<1>1. \A k \in Levels : st.head[k] \in Places \cup {NULL}
  <2>1. SUFFICES ASSUME NEW k \in Levels PROVE st.head[k] \in Places \cup {NULL}
    OBVIOUS
  <2>2. f[k] \in SUBSET Places /\ IsHeadOf(st.head[k], f[k])
    BY DEF Linked, ListIs
  <2>3. QED
    BY <2>2, HeadFacts
<1>2. st.head \in [Levels -> Int]
  BY DEF Linked, LinkStates
<1>3. QED
  BY <1>1, <1>2

LEMMA LinkInvNext ==
  ASSUME PoolInv', Linked(s', free'), Marks(s', live'),
         cur' \in Places \cup {NULL}, prev' \in Places \cup {HeadOf(k) : k \in Levels},
         PrevLeads'
  PROVE  LinkInv'
<1>1. free' = ListsOf(s')
  BY ListsAre
<1>2. s' \in LinkStates /\ s'.head \in [Levels -> Places \cup {NULL}]
  BY HeadsOfLists DEF Linked
<1>3. free_n' \in [Levels -> Nat] /\ live' \subseteq Places \X Levels \X (Nat \ {0})
  BY DEF PoolInv, TypeOK, Marks
<1>4. LinkTypeOK'
  BY <1>2, <1>3 DEF LinkTypeOK
<1>5. HeadersHold'
  BY DEF Marks, HeadersHold
<1>6. \A k \in Levels : free'[k] \subseteq Places /\ ListIs(s', k, free'[k])
  BY DEF Linked
<1>7. QED
  BY <1>1, <1>4, <1>5, <1>6 DEF LinkInv

LEMMA LinkedInitInv ==
  ASSUME LinkedInit
  PROVE  PoolInv /\ LinkInv
<1> DEFINE pages == Blocks(PoolStart, Top, PageCount)
           last == PoolStart + (PageCount - 1) * Size[Top]
           z == Size[Top]
<1>1. /\ Init /\ prev = HeadOf(0)
      /\ s = [head |-> [k \in Levels |-> IF k = Top THEN PoolStart ELSE NULL],
              mem  |-> [a \in Cells |-> IF a \in pages \ {last}
                                        THEN [word |-> a + z, magic |-> FALSE] ELSE Data]]
  BY DEF LinkedInit
<1>2. PoolInv
  BY <1>1, InitInv
<1>3. /\ Top \in Levels /\ 0 \in Levels /\ PageCount \in Nat \ {0} /\ z \in Nat \ {0}
      /\ PoolStart \in Nat \ {0}
  BY SizeFacts, PoolAssumption DEF Levels
<1>4. PoolStart \in Places
  <2>1. 0 < PageCount * z /\ PageCount * z \in Nat
    <3>1. 0 * z < PageCount * z /\ 0 * z = 0
      BY <1>3, Multiples
    <3>2. QED
      BY <1>3, <3>1, Multiples
  <2>2. PoolStart + 0 * OBJ_MIN < PoolEnd /\ PoolStart + 0 * OBJ_MIN = PoolStart
    BY <1>3, <2>1 DEF PoolEnd, OBJ_MIN
  <2>3. QED
    BY <2>2, PlaceIs
<1>5. pages \subseteq Places
  <2>1. PoolStart + PageCount * Size[Top] <= PoolEnd
    BY PlacesFill DEF PoolEnd
  <2>2. QED
    BY <1>3, <1>4, <2>1, RunPlaces
<1>6. /\ PoolStart \in pages /\ last \in pages /\ pages \subseteq Nat
      /\ \A b \in pages : PoolStart <= b /\ b <= last
      /\ \A b \in pages : b # last =>
            b + z \in pages /\ \A c \in pages : b < c => b + z <= c
  BY <1>3, RunOrder
<1>7. /\ free = [k \in Levels |-> IF k = Top THEN pages ELSE {}]
      /\ live = {} /\ cur = NULL /\ pc = "idle" /\ free_n \in [Levels -> Nat]
  BY <1>1, <1>2 DEF Init, PoolInv, TypeOK
<1> HIDE DEF pages, last, z
<1>8. s \in LinkStates
  <2>1. \A a \in Places : a + z \in Int
    BY <1>3, PlaceFacts
  <2>2. \A a \in Cells : (IF a \in pages \ {last} THEN [word |-> a + z, magic |-> FALSE] ELSE Data)
                           \in [word : Int, magic : BOOLEAN]
    BY <1>5, <2>1 DEF Data
  <2>3. \A k \in Levels : (IF k = Top THEN PoolStart ELSE NULL) \in Int
    BY <1>3 DEF NULL
  <2>4. QED
    BY <1>1, <2>2, <2>3 DEF LinkStates
<1>9. ListIs(s, Top, pages)
  <2>1. IsHeadOf(s.head[Top], pages)
    BY <1>1, <1>3, <1>6 DEF IsHeadOf, IsFirst
  <2>2. ASSUME NEW a \in pages PROVE IsHeadOf(LinkAt(s, a), After(a, pages))
    <3>1. a \in Cells /\ a \in Nat /\ a <= last /\ last \in Nat
      BY <1>5, <1>6, PlaceFacts
    <3>2. CASE a = last
      <4>1. s.mem[a] = Data
        BY <1>1, <3>1, <3>2
      <4>2. LinkAt(s, a) = NULL
        BY <4>1 DEF LinkAt, Data, NULL
      <4>3. After(a, pages) = {}
        <5>1. ASSUME NEW b \in pages PROVE ~ (b > a)
          <6>1. b \in Nat /\ b <= last
            BY <1>6
          <6>2. QED
            BY <3>1, <3>2, <6>1
        <5>2. QED
          BY <5>1 DEF After
      <4>4. QED
        BY <4>2, <4>3 DEF IsHeadOf
    <3>3. CASE a # last
      <4>1. s.mem[a] = [word |-> a + z, magic |-> FALSE]
        BY <1>1, <3>1, <3>3
      <4>2. LinkAt(s, a) = a + z
        BY <4>1 DEF LinkAt
      <4>3. a + z \in pages /\ a + z > a /\ \A c \in pages : a < c => a + z <= c
        BY <1>3, <1>6, <3>1, <3>3
      <4>4. a + z \in After(a, pages) /\ \A c \in After(a, pages) : a + z <= c
        BY <1>6, <3>1, <4>3 DEF After
      <4>5. QED
        BY <4>2, <4>4 DEF IsHeadOf, IsFirst
    <3>4. QED
      BY <3>2, <3>3
  <2>3. QED
    BY <2>1, <2>2 DEF ListIs
<1>10. Linked(s, free)
  <2>1. ASSUME NEW k \in Levels PROVE free[k] \in SUBSET Places /\ ListIs(s, k, free[k])
    <3>1. CASE k = Top
      BY <1>5, <1>7, <1>9, <3>1
    <3>2. CASE k # Top
      BY <1>1, <1>7, <3>2 DEF ListIs, IsHeadOf
    <3>3. QED
      BY <3>1, <3>2
  <2>2. ASSUME NEW k \in Levels, NEW j \in Levels, k # j PROVE free[k] \cap free[j] = {}
    BY <1>7, <2>2
  <2>3. free \in [Levels -> SUBSET Places]
    BY <1>7, <2>1
  <2>4. QED
    BY <1>8, <2>1, <2>2, <2>3 DEF Linked
<1>11. LinkTypeOK
  <2>1. s.head \in [Levels -> Places \cup {NULL}]
    BY <1>10, HeadsOfLists
  <2>2. QED
    BY <1>1, <1>3, <1>7, <1>8, <2>1 DEF LinkTypeOK
<1>12. HeadersHold /\ PrevLeads
  BY <1>7 DEF HeadersHold, PrevLeads
<1>13. free = ListsOf(s) /\ \A k \in Levels : free[k] \subseteq Places /\ ListIs(s, k, free[k])
  BY <1>10, ListsAre DEF Linked
<1>14. QED
  BY <1>2, <1>11, <1>12, <1>13 DEF LinkInv

-----------------------------------------------------------------------------
(* A run that leaves its list is alone: nothing that stays touches it.     *)
LEMMA RunAlone ==
  ASSUME PoolInv, NEW k \in Levels, NEW a \in Nat, NEW n \in Nat \ {0},
         Blocks(a, k, n) \subseteq free[k]
  PROVE  /\ Clear(Unlink(free, k, Blocks(a, k, n)), a, k, n)
         /\ \A m \in live : ~ (a <= m[1] /\ m[1] < a + n * Size[k])
         /\ a + n * Size[k] <= PoolEnd
<1> DEFINE B == Blocks(a, k, n)
           g == Unlink(free, k, B)
           z == n * Size[k]
<1>1. Size[k] \in Nat \ {0} /\ z \in Nat
  BY SizeFacts, Multiples
<1>2. \A i \in 0 .. n - 1 : a + i * Size[k] \in B /\ a + i * Size[k] \in free[k]
  BY DEF Blocks
<1>3. ASSUME NEW j \in Levels, NEW b \in g[j] PROVE Apart(b, Size[j], a, z)
  <2>1. b \in free[j] /\ (j = k => b \notin B)
    BY DEF Unlink, PoolInv, TypeOK
  <2>2. b \in Nat /\ Size[j] \in Nat \ {0}
    BY <2>1, SizeFacts DEF PoolInv, TypeOK
  <2>3. ASSUME NEW i \in 0 .. n - 1 PROVE Apart(a + i * Size[k], Size[k], b, Size[j])
    <3>1. a + i * Size[k] \in free[k] /\ ~ (k = j /\ a + i * Size[k] = b)
      BY <1>2, <2>1
    <3>2. QED
      BY <2>1, <3>1 DEF PoolInv, Disjoint, NoOverlap
  <2>4. Apart(a, n * Size[k], b, Size[j])
    BY <1>1, <2>2, <2>3, PiecesApart
  <2> HIDE DEF z
  <2>5. QED
    BY <2>4 DEF Apart, z
<1>4. ASSUME NEW m \in live PROVE ~ (a <= m[1] /\ m[1] < a + z)
  <2>1. m[1] \in Nat /\ Bytes(m) \in Nat \ {0}
    BY ArenaFacts DEF PoolInv, TypeOK
  <2>2. ASSUME NEW i \in 0 .. n - 1 PROVE Apart(a + i * Size[k], Size[k], m[1], Bytes(m))
    BY <1>2 DEF PoolInv, Disjoint, NoOverlap
  <2>3. Apart(a, n * Size[k], m[1], Bytes(m))
    BY <1>1, <2>1, <2>2, PiecesApart
  <2> HIDE DEF z
  <2>4. a + z <= m[1] \/ m[1] + Bytes(m) <= a
    BY <2>3 DEF Apart, z
  <2>5. QED
    BY <1>1, <2>1, <2>4
<1>5. a + z <= PoolEnd
  <2>1. n - 1 \in 0 .. n - 1
    OBVIOUS
  <2>2. a + (n - 1) * Size[k] \in free[k]
    BY <1>2, <2>1
  <2>3. a + (n - 1) * Size[k] + Size[k] <= PoolEnd
    BY <2>2 DEF PoolInv, InArena, Within
  <2>4. ((n - 1) + 1) * Size[k] = (n - 1) * Size[k] + Size[k] /\ (n - 1) * Size[k] \in Int
    BY <1>1, Multiples
  <2>5. (n - 1) + 1 = n
    OBVIOUS
  <2> DEFINE l == (n - 1) * Size[k]
  <2>6. z = l + Size[k] /\ l \in Int /\ a + l + Size[k] <= PoolEnd
    BY <2>3, <2>4, <2>5
  <2> HIDE DEF l, z
  <2>7. QED
    BY <1>1, <2>6, PlacesFill
<1>6. QED
  BY <1>3, <1>4, <1>5 DEF Clear

LEMMA SameBytes ==
  ASSUME NEW f, NEW a, NEW k \in Levels, k + 1 < BUDY_COUNT
  PROVE  /\ k + 1 \in Levels /\ 1 * Size[k + 1] = 2 * Size[k]
         /\ Clear(f, a, k, 2) <=> Clear(f, a, k + 1, 1)
<1>1. k + 1 \in Levels /\ 1 * Size[k + 1] = 2 * Size[k]
  BY SizeFacts
<1>2. QED
  BY <1>1 DEF Clear

LEMMA CountedIs ==
  ASSUME NEW k \in Levels, NEW n \in Int, free_n \in [Levels -> Nat]
  PROVE  /\ Counted(k, n) = [free_n EXCEPT ![k] = @ + n]
         /\ Counted(k, -n) = [free_n EXCEPT ![k] = @ - n]
BY DEF Counted

(* pool_malloc takes the head.                                             *)
LEMMA TakeLinked ==
  ASSUME PoolInv, LinkInv, LinkedTake
  PROVE  TakeBlock /\ LinkInv'
<1> DEFINE a == s.head[want]
           g == Unlink(free, want, {a})
           st == SetLink(s, HeadOf(want), LinkAt(s, a))
           t == HandOut(st, a, want, 1)
<1>1. /\ pc = "take" /\ free_n[want] # 0 /\ s' = t /\ free' = ListsOf(s')
      /\ free_n' = Counted(want, -1) /\ live' = live \cup {<<a, want, 1>>}
      /\ Return /\ prev' = prev
  BY DEF LinkedTake
<1>2. want \in Levels /\ free_n \in [Levels -> Nat]
  BY DEF PoolInv, TypeOK
<1>3. Linked(s, free) /\ Marks(s, live)
  BY LinkedNow
<1>4. free[want] # {}
  BY <1>1, <1>2, PoolPartition, CounterZero
<1>5. a \in free[want] /\ IsFirst(a, free[want]) /\ Linked(st, g) /\ st.mem = s.mem
  BY <1>2, <1>3, <1>4, UnlinkFirst
<1>6. a \in Places /\ a \in Nat
  BY <1>2, <1>3, <1>5, PlaceFacts DEF Linked
<1>7. Blocks(a, want, 1) = {a}
  BY <1>2, <1>6, OneBlock
<1>8. /\ Clear(g, a, want, 1)
      /\ \A m \in live : ~ (a <= m[1] /\ m[1] < a + 1 * Size[want])
  <2>1. 1 \in Nat \ {0} /\ Blocks(a, want, 1) \subseteq free[want]
    BY <1>5, <1>7
  <2>2. QED
    BY <1>2, <1>6, <1>7, <2>1, RunAlone
<1>9. Marks(st, live) /\ st \in LinkStates
  BY <1>3, <1>5 DEF Marks, Linked
<1> HIDE DEF a, g, st, t
<1>10. Linked(t, g)
  <2>1. 1 \in Nat \ {0}
    OBVIOUS
  <2>2. QED
    BY <1>2, <1>5, <1>6, <1>8, <2>1, HandOutClear DEF t
<1>11. Marks(t, live')
  <2>1. 1 \in Nat \ {0}
    OBVIOUS
  <2>2. QED
    BY <1>1, <1>2, <1>6, <1>8, <1>9, <2>1, HandOutMarks DEF t
<1>12. free' = g
  BY <1>1, <1>10, ListsAre
<1>13. TakeBlock
  <2>1. free_n' = [free_n EXCEPT ![want] = @ - 1]
    BY <1>1, <1>2 DEF Counted
  <2>2. QED
    BY <1>1, <1>5, <1>12, <2>1 DEF TakeBlock, g
<1>14. PoolInv'
  BY <1>13, NextInv DEF Next, Running, Malloc
<1>15. cur' \in Places \cup {NULL} /\ prev' \in Places \cup {HeadOf(k) : k \in Levels} /\ PrevLeads'
  BY <1>1 DEF Return, PrevLeads, LinkInv, LinkTypeOK
<1>16. LinkInv'
  BY <1>1, <1>10, <1>11, <1>12, <1>14, <1>15, LinkInvNext
<1>17. QED
  BY <1>13, <1>16

(* pool_pull_upper splits the head of the upper list.                      *)
LEMMA SplitLinked ==
  ASSUME PoolInv, LinkInv, LinkedSplit
  PROVE  PullSplit /\ LinkInv'
<1> DEFINE a == s.head[lvl + 1]
           g == Unlink(free, lvl + 1, {a})
           h == AddFree(g, lvl, a, 2)
           st == SetLink(s, HeadOf(lvl + 1), LinkAt(s, a))
           t == PoolAddFree(st, lvl, a, 2)
<1>1. /\ pc = "split" /\ free_n[lvl + 1] # 0 /\ s' = t /\ free' = ListsOf(s')
      /\ free_n' = [free_n EXCEPT ![lvl + 1] = @ - 1, ![lvl] = @ + 2]
      /\ PullReturns /\ live' = live /\ req' = req /\ want' = want /\ cur' = cur /\ prev' = prev
  BY DEF LinkedSplit
<1>2. lvl \in Levels /\ lvl + 1 < BUDY_COUNT /\ 2 \in Nat \ {0} /\ 1 \in Nat \ {0}
  BY <1>1, SizeFacts, PoolAssumption DEF PoolInv, TypeOK, CallInv, Top
<1>3. lvl + 1 \in Levels /\ 1 * Size[lvl + 1] = 2 * Size[lvl]
  BY <1>2, SameBytes
<1>4. Linked(s, free) /\ Marks(s, live)
  BY LinkedNow
<1>5. free[lvl + 1] # {}
  BY <1>1, <1>3, PoolPartition, CounterZero
<1>6. a \in free[lvl + 1] /\ IsFirst(a, free[lvl + 1]) /\ Linked(st, g) /\ st.mem = s.mem
  BY <1>3, <1>4, <1>5, UnlinkFirst
<1>7. a \in Places /\ a \in Nat
  BY <1>3, <1>4, <1>6, PlaceFacts DEF Linked
<1>8. Blocks(a, lvl + 1, 1) = {a}
  BY <1>3, <1>7, OneBlock
<1>9. /\ Clear(g, a, lvl + 1, 1)
      /\ \A m \in live : ~ (a <= m[1] /\ m[1] < a + 1 * Size[lvl + 1])
      /\ a + 1 * Size[lvl + 1] <= PoolEnd
  <2>1. Blocks(a, lvl + 1, 1) \subseteq free[lvl + 1]
    BY <1>6, <1>8
  <2>2. QED
    BY <1>2, <1>3, <1>7, <1>8, <2>1, RunAlone
<1>10. Linked(t, h) /\ SameBut(Blocks(a, lvl, 2) \cup g[lvl], st, t)
  <2>1. Clear(g, a, lvl, 2) /\ a + 2 * Size[lvl] <= PoolEnd
    BY <1>2, <1>3, <1>9, SameBytes
  <2> HIDE DEF a, g, st
  <2>2. QED
    BY <1>2, <1>6, <1>7, <2>1, AddClear
<1>11. Marks(t, live)
  <2>1. Marks(st, live) /\ live \in SUBSET live
    BY <1>4, <1>6 DEF Marks
  <2>2. ASSUME NEW m \in live PROVE m[1] \notin Blocks(a, lvl, 2) /\ m[1] \notin g[lvl]
    <3>1. m[1] \in Nat /\ ~ (a <= m[1] /\ m[1] < a + 2 * Size[lvl])
      BY <1>3, <1>9 DEF PoolInv, TypeOK
    <3>2. Blocks(a, lvl, 2) = {a, a + Size[lvl]} /\ Size[lvl] \in Nat \ {0}
      BY <1>2, <1>7, TwoBlocks, SizeFacts
    <3>3. m[1] \notin Blocks(a, lvl, 2)
      BY <1>7, <3>1, <3>2
    <3>4. \A b \in free[lvl] : m[1] # b
      BY <1>2, PoolPartition, FreshHeader
    <3>5. g[lvl] \subseteq free[lvl]
      BY DEF Unlink, PoolInv, TypeOK
    <3>6. QED
      BY <3>3, <3>4, <3>5
  <2> HIDE DEF a, g, st, t
  <2>3. \A m \in live : m[1] \in Cells
    BY PlaceFacts DEF LinkInv, LinkTypeOK
  <2>4. \A m \in live : t.mem[m[1]] = st.mem[m[1]]
    BY <1>6, <1>10, <2>2, <2>3 DEF SameBut
  <2>5. QED
    BY <2>1, <2>4, MarksKept
<1> HIDE DEF a, g, h, st, t
<1>12. free' = h
  BY <1>1, <1>10, ListsAre
<1>13. PullSplit
  BY <1>1, <1>6, <1>12 DEF PullSplit, g, h
<1>14. PoolInv'
  BY <1>13, NextInv DEF Next, Running, PullUpper
<1>15. cur' \in Places \cup {NULL} /\ prev' \in Places \cup {HeadOf(k) : k \in Levels} /\ PrevLeads'
  BY <1>1 DEF PullReturns, PrevLeads, LinkInv, LinkTypeOK
<1>16. LinkInv'
  BY <1>1, <1>10, <1>11, <1>12, <1>14, <1>15, LinkInvNext
<1>17. QED
  BY <1>13, <1>16

(* A step that leaves the links alone keeps what they say.                 *)
LEMMA LinkInvKept ==
  ASSUME PoolInv, LinkInv, PoolInv', s' = s, free' = free, live' = live,
         cur' \in Places \cup {NULL}, prev' \in Places \cup {HeadOf(k) : k \in Levels},
         PrevLeads'
  PROVE  LinkInv'
<1>1. Linked(s', free') /\ Marks(s', live')
  BY LinkedNow
<1>2. QED
  BY <1>1, LinkInvNext

(* Quotient and remainder are the only ones there are.                     *)
LEMMA DivisionIs ==
  ASSUME NEW a \in Int, NEW d \in Nat \ {0}, NEW q \in Int, NEW r \in 0 .. d - 1,
         a = d * q + r
  PROVE  a \div d = q /\ a % d = r
OBVIOUS

(* The two halves of a header are read as they were written.               *)
LEMMA HeaderWord ==
  ASSUME NEW k \in Levels, NEW n \in Nat
  PROVE  (k + SHORT * n) % SHORT = k /\ (k + SHORT * n) \div SHORT = n
<1>1. BUDY_COUNT \in Nat /\ BUDY_COUNT <= SHORT /\ SHORT \in Nat \ {0}
  BY LinkAssumption, PoolAssumption DEF SHORT
<1>2. k \in 0 .. SHORT - 1
  BY <1>1 DEF Levels
<1>3. k + SHORT * n \in Int /\ k + SHORT * n = SHORT * n + k /\ n \in Int
  BY <1>1, <1>2
<1>4. QED
  BY <1>1, <1>2, <1>3, DivisionIs

(* pool_free reads from the header where the block goes.                   *)
LEMMA FreeLinked ==
  ASSUME PoolInv, LinkInv, NEW m \in live, LinkedFree(m[1])
  PROVE  [Next]_vars /\ LinkInv'
<1> DEFINE a == m[1]
<1>1. CASE UNCHANGED linkVars
  <2>1. UNCHANGED vars /\ s' = s /\ prev' = prev
    BY <1>1 DEF linkVars, vars
  <2>2. PoolInv'
    BY <2>1, NextInv
  <2>3. cur' \in Places \cup {NULL} /\ prev' \in Places \cup {HeadOf(k) : k \in Levels} /\ PrevLeads'
    BY <2>1 DEF vars, LinkInv, LinkTypeOK, PrevLeads
  <2>4. LinkInv'
    BY <2>1, <2>2, <2>3, LinkInvKept DEF vars
  <2>5. QED
    BY <2>1, <2>4
<1>2. CASE s.mem[a].magic /\ pc = "idle" /\ ~ UNCHANGED linkVars
  <2>1. a \in Places /\ a \in Cells /\ a \in Nat
    BY PlaceFacts DEF LinkInv, LinkTypeOK
  <2>2. m \in live /\ m[1] = a
    OBVIOUS
  <2> HIDE DEF a
  <2> DEFINE k == m[2]
             n == m[3]
             B == Blocks(a, k, n)
             t == PoolAddFree(s, k, a, n)
             h == AddFree(free, k, a, n)
  <2>3. m = <<a, k, n>> /\ k \in Levels /\ n \in Nat \ {0} /\ Bytes(m) = n * Size[k]
    BY <2>2, ArenaFacts DEF PoolInv, TypeOK
  <2>4. Idx(a) = k /\ Count(a) = n
    <3>1. s.mem[a] = [word |-> k + SHORT * n, magic |-> TRUE]
      BY <2>2 DEF LinkInv, HeadersHold
    <3>2. s.mem[a].word = k + SHORT * n
      BY <3>1
    <3> HIDE DEF k, n
    <3>3. (k + SHORT * n) % SHORT = k /\ (k + SHORT * n) \div SHORT = n
      BY <2>3, HeaderWord
    <3>4. QED
      BY <3>2, <3>3 DEF Idx, Count
  <2>5. Linked(s, free) /\ Marks(s, live)
    BY LinkedNow
  <2>6. Clear(free, a, k, n)
    <3>1. ASSUME NEW j \in Levels, NEW b \in free[j] PROVE Apart(b, Size[j], a, n * Size[k])
      <4>1. Apart(b, Size[j], m[1], Bytes(m))
        BY DEF PoolInv, Disjoint, NoOverlap
      <4>2. QED
        BY <2>2, <2>3, <4>1
    <3>2. QED
      BY <3>1 DEF Clear
  <2>7. a + n * Size[k] <= PoolEnd
    BY <2>2, <2>3 DEF PoolInv, InArena, Within
  <2>8. Linked(t, h) /\ SameBut(B \cup free[k], s, t)
    <3> HIDE DEF k, n
    <3>1. QED
      BY <2>1, <2>3, <2>5, <2>6, <2>7, AddClear
  <2>9. s' = t /\ free' = ListsOf(s') /\ live' = live \ {m}
        /\ free_n' = [free_n EXCEPT ![k] = @ + n] /\ prev' = prev
        /\ IF free_n'[k] > SHRINK_THD
           THEN pc' = "enter" /\ want' = k /\ lvl' = k /\ UNCHANGED <<req, cur>>
           ELSE UNCHANGED locals
    <3>1. ~ (~ s.mem[a].magic \/ Idx(a) >= BUDY_COUNT)
      BY <1>2, <2>2 DEF LinkedFree
    <3>2. /\ s' = PoolAddFree(s, Idx(a), a, Count(a))
          /\ free' = ListsOf(s') /\ free_n' = Counted(Idx(a), Count(a))
          /\ live' = {u \in live : u[1] # a}
          /\ IF free_n'[Idx(a)] > SHRINK_THD
             THEN pc' = "enter" /\ want' = Idx(a) /\ lvl' = Idx(a) /\ UNCHANGED <<req, cur, prev>>
             ELSE UNCHANGED <<locals, prev>>
      BY <2>2, <3>1 DEF LinkedFree
    <3>3. ASSUME NEW u \in live, u[1] = a PROVE u = m
      <4>1. u[1] \in Nat /\ Bytes(u) \in Nat \ {0} /\ Bytes(m) \in Nat \ {0}
        BY ArenaFacts DEF PoolInv, TypeOK
      <4>2. u = m \/ Apart(u[1], Bytes(u), m[1], Bytes(m))
        BY DEF PoolInv, Disjoint, NoOverlap
      <4>3. QED
        BY <2>2, <3>3, <4>1, <4>2 DEF Apart
    <3>4. {u \in live : u[1] # a} = live \ {m}
      BY <2>2, <3>3
    <3> HIDE DEF k, n
    <3>5. s' = t /\ live' = live \ {m} /\ free_n' = [free_n EXCEPT ![k] = @ + n] /\ prev' = prev
      BY <2>4, <3>2, <3>4 DEF Counted
    <3>6. QED
      BY <2>4, <3>2, <3>5
  <2>10. Marks(t, live \ {m})
    <3>1. ASSUME NEW u \in live \ {m} PROVE u[1] \notin B
      <4>1. u[1] \in Nat /\ Bytes(u) \in Nat \ {0} /\ Bytes(m) \in Nat \ {0}
        BY ArenaFacts DEF PoolInv, TypeOK
      <4>2. Apart(m[1], Bytes(m), u[1], Bytes(u))
        BY DEF PoolInv, Disjoint, NoOverlap
      <4>3. a + Bytes(m) <= u[1] \/ u[1] < a
        BY <2>1, <2>2, <4>1, <4>2 DEF Apart
      <4>4. \A b \in B : a <= b /\ b <= a + (n - 1) * Size[k] /\ b \in Nat
        BY <2>1, <2>3, RunOrder
      <4>5. (n - 1) * Size[k] < Bytes(m) /\ (n - 1) * Size[k] \in Int
        <5>1. n - 1 \in Int /\ (n - 1) + 1 = n /\ Size[k] \in Nat \ {0}
          BY <2>3, SizeFacts
        <5>2. ((n - 1) + 1) * Size[k] = (n - 1) * Size[k] + Size[k] /\ (n - 1) * Size[k] \in Int
          BY <5>1, Multiples
        <5> DEFINE l == (n - 1) * Size[k]
        <5>3. Bytes(m) = l + Size[k] /\ l \in Int
          BY <2>3, <5>1, <5>2
        <5> HIDE DEF l
        <5>4. l < Bytes(m)
          BY <5>1, <5>3
        <5>5. QED
          BY <5>3, <5>4 DEF l
      <4> DEFINE l == (n - 1) * Size[k]
      <4> HIDE DEF l, B
      <4>6. \A b \in B : a <= b /\ b <= a + l /\ b \in Nat /\ l < Bytes(m) /\ l \in Int
        BY <4>4, <4>5 DEF l
      <4>7. QED
        BY <2>1, <4>1, <4>3, <4>6
    <3>2. ASSUME NEW u \in live PROVE u[1] \notin free[k]
      BY <2>3, PoolPartition, FreshHeader
    <3>3. \A u \in live : u[1] \in Cells
      BY PlaceFacts DEF LinkInv, LinkTypeOK
    <3>4. live \ {m} \in SUBSET live
      OBVIOUS
    <3> HIDE DEF B, t
    <3>5. \A u \in live \ {m} : t.mem[u[1]] = s.mem[u[1]]
      BY <2>8, <3>1, <3>2, <3>3 DEF SameBut
    <3>6. QED
      BY <2>5, <3>4, <3>5, MarksKept
  <2> HIDE DEF t, h
  <2>11. free' = h
    BY <2>8, <2>9, ListsAre
  <2>12. PoolFree(m)
    BY <1>2, <2>2, <2>9, <2>11 DEF PoolFree, h
  <2>13. Next /\ PoolInv'
    BY <2>12, NextInv DEF Next
  <2>14. cur' \in Places \cup {NULL} /\ prev' \in Places \cup {HeadOf(j) : j \in Levels}
    BY <2>9 DEF locals, LinkInv, LinkTypeOK
  <2>15. PrevLeads'
    <3>1. pc' # "scan"
      BY <1>2, <2>9 DEF locals
    <3>2. QED
      BY <3>1 DEF PrevLeads
  <2>16. LinkInv'
    BY <2>8, <2>9, <2>10, <2>11, <2>13, <2>14, <2>15, LinkInvNext
  <2>17. QED
    BY <2>13, <2>16
<1>3. QED
  BY <1>1, <1>2 DEF LinkedFree

(* The steps that touch no link.                                           *)
LEMMA LinksKeptLinked ==
  ASSUME PoolInv, LinkInv, LinksKept
  PROVE  Next /\ LinkInv'
<1>1. Next /\ s' = s /\ prev' = prev /\ free' = free /\ live' = live
  BY DEF LinksKept, MallocKeepsLinks, PullKeepsLinks, Next, Running, Malloc, PullUpper, TryShrink,
         lists, PoolMalloc, MallocNothing, MallocSmall, TakeFails,
         PullAtTop, PullRecurse, PullNothing, ShrinkNextLevel
<1>2. (cur' = cur \/ cur' = NULL) /\ pc' # "scan"
  BY DEF LinksKept, MallocKeepsLinks, PullKeepsLinks, PoolMalloc, MallocNothing, MallocSmall,
         TakeFails, PullAtTop, PullRecurse, PullNothing, PullReturns, ShrinkNextLevel, Return
<1>3. PoolInv'
  BY <1>1, NextInv
<1>4. cur' \in Places \cup {NULL} /\ prev' \in Places \cup {HeadOf(k) : k \in Levels} /\ PrevLeads'
  BY <1>1, <1>2 DEF LinkInv, LinkTypeOK, PrevLeads
<1>5. QED
  BY <1>1, <1>3, <1>4, LinkInvKept

LEMMA ShrinkTopLinked ==
  ASSUME PoolInv, LinkInv, LinkedShrinkTop
  PROVE  ShrinkTop /\ LinkInv'
<1>1. ShrinkTop /\ prev' = HeadOf(0) /\ s' = s /\ free' = free /\ live' = live
      /\ cur' = NULL /\ pc' = "idle"
  BY DEF LinkedShrinkTop, ShrinkTop, lists, Return
<1>2. PoolInv'
  BY <1>1, NextInv DEF Next, Running, TryShrink
<1>3. 0 \in Levels
  BY PoolAssumption DEF Levels
<1>4. cur' \in Places \cup {NULL} /\ prev' \in Places \cup {HeadOf(k) : k \in Levels} /\ PrevLeads'
  BY <1>1, <1>3 DEF PrevLeads
<1>5. QED
  BY <1>1, <1>2, <1>4, LinkInvKept

LEMMA EnterLinked ==
  ASSUME PoolInv, LinkInv, LinkedEnter
  PROVE  ShrinkEnter /\ LinkInv'
<1>1. /\ pc = "enter" /\ lvl < BUDY_COUNT - 1 /\ cur' = s.head[lvl] /\ prev' = HeadOf(lvl)
      /\ pc' = "scan" /\ s' = s /\ free' = free /\ free_n' = free_n /\ live' = live
      /\ req' = req /\ want' = want /\ lvl' = lvl
  BY DEF LinkedEnter, lists
<1>2. lvl \in Levels /\ free[lvl] \in SUBSET Places /\ IsHeadOf(s.head[lvl], free[lvl])
  BY DEF PoolInv, TypeOK, LinkInv, ListIs
<1>3. s.head[lvl] \in free[lvl] \cup {NULL}
  BY <1>2, HeadFacts
<1>4. ShrinkEnter
  BY <1>1, <1>2, <1>3 DEF ShrinkEnter, lists
<1>5. PoolInv'
  BY <1>4, NextInv DEF Next, Running, TryShrink
<1>6. cur' \in Places \cup {NULL} /\ prev' \in Places \cup {HeadOf(k) : k \in Levels} /\ PrevLeads'
  BY <1>1, <1>2, <1>3 DEF PrevLeads
<1>7. QED
  BY <1>1, <1>4, <1>5, <1>6, LinkInvKept

(* The test for a pair, made along a link, is that on sets.                *)
LEMMA LinkMergeableIs ==
  ASSUME PoolInv, LinkInv, NEW k \in Levels, NEW a \in free[k]
  PROVE  LinkMergeable(a, k) <=> Mergeable(a, k)
<1>1. IsHeadOf(LinkAt(s, a), After(a, free[k])) /\ After(a, free[k]) \in SUBSET Places
  BY DEF LinkInv, ListIs, After
<1>2. IsHeadOf(a + Size[k], After(a, free[k])) => LinkAt(s, a) = a + Size[k]
  BY <1>1, HeadFacts
<1>3. QED
  BY <1>1, <1>2 DEF LinkMergeable, Mergeable

LEMMA SkipLinked ==
  ASSUME PoolInv, LinkInv, LinkedSkip
  PROVE  ShrinkSkip /\ LinkInv'
<1>1. /\ pc = "scan" /\ cur # NULL /\ ~ LinkMergeable(cur, lvl) /\ cur' = LinkAt(s, cur)
      /\ prev' = cur /\ s' = s /\ free' = free /\ free_n' = free_n /\ live' = live
      /\ pc' = pc /\ req' = req /\ want' = want /\ lvl' = lvl
  BY DEF LinkedSkip, lists
<1>2. lvl \in Levels /\ cur \in free[lvl] /\ free[lvl] \in SUBSET Places
  BY <1>1 DEF PoolInv, TypeOK, CallInv, LinkInv
<1>3. ~ Mergeable(cur, lvl)
  BY <1>1, <1>2, LinkMergeableIs
<1>4. IsHeadOf(LinkAt(s, cur), After(cur, free[lvl])) /\ ListIs(s, lvl, free[lvl])
  BY <1>2 DEF LinkInv, ListIs
<1>5. LinkAt(s, cur) \in free[lvl] \cup {NULL}
  BY <1>2, <1>4, LinkFacts
<1>6. ShrinkSkip
  BY <1>1, <1>3, <1>4, <1>5 DEF ShrinkSkip, lists
<1>7. PoolInv'
  BY <1>6, NextInv DEF Next, Running, TryShrink
<1>8. cur' \in Places \cup {NULL} /\ prev' \in Places \cup {HeadOf(k) : k \in Levels} /\ PrevLeads'
  BY <1>1, <1>2, <1>5 DEF PrevLeads
<1>9. QED
  BY <1>1, <1>6, <1>7, <1>8, LinkInvKept

(* A link that leads to a member passes over it.                           *)
LEMMA GapAt ==
  ASSUME NEW S \in SUBSET Places, NEW k \in Levels, ListIs(s, k, S), NEW x \in S, NEW p,
         \/ p = HeadOf(k) /\ x = s.head[k]
         \/ p \in S /\ x = LinkAt(s, p)
  PROVE  Gap(s, k, S, x, p, x)
<1>1. x \in Nat /\ S \subseteq Nat
  BY PlaceFacts
<1>2. IsHeadOf(x, {b \in S : x <= b})
  <2>1. x \in {b \in S : x <= b}
    BY <1>1
  <2>2. QED
    BY <2>1 DEF IsHeadOf, IsFirst
<1>3. CASE p = HeadOf(k) /\ x = s.head[k]
  <2>1. \A b \in S : x <= b
    BY <1>3, HeadFacts DEF ListIs
  <2>2. QED
    BY <1>2, <1>3, <2>1 DEF Gap
<1>4. CASE p \in S /\ x = LinkAt(s, p)
  <2>1. x # NULL
    BY PlaceFacts
  <2>2. p + OBJ_MIN <= x /\ \A b \in S : p < b => x <= b
    BY <1>4, <2>1, LinkFacts
  <2>3. p < x
    BY <1>1, <1>4, <2>2 DEF OBJ_MIN
  <2>4. QED
    BY <1>2, <1>4, <2>2, <2>3 DEF Gap
<1>5. QED
  BY <1>3, <1>4

(* During a scan the link in prev passes over curr.                        *)
LEMMA ScanGap ==
  ASSUME PoolInv, LinkInv, pc = "scan", cur # NULL
  PROVE  /\ lvl \in Levels /\ lvl + 1 < BUDY_COUNT /\ cur \in free[lvl]
         /\ free[lvl] \in SUBSET Places
         /\ Gap(s, lvl, free[lvl], cur, prev, cur)
<1>1. /\ lvl \in Levels /\ lvl + 1 < BUDY_COUNT /\ cur \in free[lvl]
      /\ free[lvl] \in SUBSET Places /\ ListIs(s, lvl, free[lvl])
  BY SizeFacts, PoolAssumption DEF PoolInv, TypeOK, CallInv, LinkInv, Top
<1>2. \/ prev = HeadOf(lvl) /\ cur = s.head[lvl]
      \/ prev \in free[lvl] /\ cur = LinkAt(s, prev)
  BY DEF LinkInv, PrevLeads
<1>3. QED
  BY <1>1, <1>2, GapAt

(* pool_try_shrink takes a pair out and puts it into the upper list.       *)
LEMMA MergeLinked ==
  ASSUME PoolInv, LinkInv, LinkedMerge
  PROVE  ShrinkMerge /\ LinkInv'
<1> DEFINE S == free[lvl]
           c == cur + Size[lvl]
           r == LinkAt(s, LinkAt(s, cur))
           T == {cur, c}
           g == Unlink(free, lvl, T)
           h == AddFree(g, lvl + 1, cur, 1)
           st == SetLink(s, prev, r)
           t == PoolAddFree(st, lvl + 1, cur, 1)
<1>1. /\ pc = "scan" /\ cur # NULL /\ LinkMergeable(cur, lvl) /\ cur' = r
      /\ s' = t /\ free' = ListsOf(s')
      /\ free_n' = [free_n EXCEPT ![lvl] = @ - 2, ![lvl + 1] = @ + 1]
      /\ live' = live /\ pc' = pc /\ req' = req /\ want' = want /\ lvl' = lvl /\ prev' = prev
  BY DEF LinkedMerge
<1>2. /\ lvl \in Levels /\ lvl + 1 < BUDY_COUNT /\ cur \in S /\ S \in SUBSET Places
      /\ Gap(s, lvl, S, cur, prev, cur)
  BY <1>1, ScanGap
<1>3. Mergeable(cur, lvl) /\ LinkAt(s, cur) = c /\ ListIs(s, lvl, S)
  BY <1>1, <1>2, LinkMergeableIs DEF LinkMergeable, LinkInv
<1>4. /\ cur \in Nat /\ S \subseteq Nat /\ cur \in Places /\ Size[lvl] \in Nat \ {0}
      /\ c \in Nat /\ c > cur
  BY <1>2, PlaceFacts, SizeFacts
<1>5. c \in S /\ \A b \in S : cur < b => c <= b
  <2>1. c \in S \cup {NULL} /\ \A b \in S : cur < b => c <= b
    BY <1>2, <1>3, LinkFacts
  <2>2. QED
    BY <1>4, <2>1 DEF NULL
<1>6. r = LinkAt(s, c) /\ IsHeadOf(r, After(c, S)) /\ r \in S \cup {NULL}
  <2>1. r = LinkAt(s, c)
    BY <1>3
  <2>2. IsHeadOf(LinkAt(s, c), After(c, S))
    BY <1>3, <1>5 DEF ListIs
  <2>3. LinkAt(s, c) \in S \cup {NULL}
    BY <1>2, <1>3, <1>5, LinkFacts
  <2>4. QED
    BY <2>1, <2>2, <2>3
<1>7. Linked(s, free) /\ Marks(s, live)
  BY LinkedNow
<1>8. Blocks(cur, lvl, 2) = T
  BY <1>2, <1>4, TwoBlocks
<1>9. lvl + 1 \in Levels /\ 2 \in Nat \ {0} /\ 1 \in Nat \ {0} /\ 1 * Size[lvl + 1] = 2 * Size[lvl]
  BY <1>2, SameBytes
<1>10. Clear(g, cur, lvl + 1, 1) /\ cur + 1 * Size[lvl + 1] <= PoolEnd
  <2>1. Blocks(cur, lvl, 2) \subseteq free[lvl]
    BY <1>2, <1>5, <1>8
  <2>2. Clear(Unlink(free, lvl, Blocks(cur, lvl, 2)), cur, lvl, 2) /\ cur + 2 * Size[lvl] <= PoolEnd
    BY <1>2, <1>4, <1>9, <2>1, RunAlone
  <2>3. Clear(g, cur, lvl, 2)
    BY <1>8, <2>2
  <2> HIDE DEF g
  <2>4. QED
    BY <1>2, <1>9, <2>2, <2>3, SameBytes
<1>11. IsHeadOf(r, Behind(S \ T, cur))
  <2>1. \A b \in S : b \notin T /\ cur <= b <=> b > c
    BY <1>4, <1>5
  <2>2. Behind(S \ T, cur) = After(c, S)
    BY <2>1 DEF Behind, After
  <2>3. QED
    BY <1>6, <2>2
<1>12. Cut(S, T, cur)
  <2>1. T \subseteq S /\ \A a \in T : cur <= a
    BY <1>2, <1>4, <1>5
  <2>2. ASSUME NEW a \in T, NEW b \in S \ T, cur <= b PROVE a < b
    <3>1. cur < b /\ b \in Nat
      BY <1>4, <2>2
    <3>2. c < b
      BY <1>4, <1>5, <2>2, <3>1
    <3>3. QED
      BY <1>4, <2>2, <3>1, <3>2
  <2>3. QED
    BY <2>1, <2>2 DEF Cut
<1>13. Linked(st, g) /\ SameBut(S, s, st)
  <2> HIDE DEF c, r, T
  <2>1. lvl \in Levels /\ cur \in Nat /\ Linked(s, free) /\ Gap(s, lvl, free[lvl], cur, prev, cur)
    BY <1>2, <1>4, <1>7
  <2>2. IsHeadOf(r, Behind(free[lvl] \ T, cur)) /\ Cut(free[lvl], T, cur)
    BY <1>11, <1>12
  <2>3. Linked(SetLink(s, prev, r), Unlink(free, lvl, T)) /\ SameBut(free[lvl], s, SetLink(s, prev, r))
    BY <2>1, <2>2, UnlinkLinked
  <2>4. QED
    BY <2>3
<1>14. Linked(t, h) /\ SameBut(Blocks(cur, lvl + 1, 1) \cup g[lvl + 1], st, t)
  <2> HIDE DEF g, st
  <2>1. QED
    BY <1>4, <1>9, <1>10, <1>13, AddClear
<1>15. Marks(t, live)
  <2>1. \A m \in live : m[1] \notin S /\ m[1] \notin free[lvl + 1]
    BY <1>2, <1>9, PoolPartition, FreshHeader
  <2>2. g[lvl + 1] \subseteq free[lvl + 1]
    BY DEF Unlink, PoolInv, TypeOK
  <2>3. Blocks(cur, lvl + 1, 1) \subseteq S
    BY <1>2, <1>4, <1>9, OneBlock
  <2> HIDE DEF g, st, t, T, S
  <2>4. \A m \in live : m[1] \in Cells
    BY PlaceFacts DEF LinkInv, LinkTypeOK
  <2>5. \A m \in live : t.mem[m[1]] = st.mem[m[1]] /\ st.mem[m[1]] = s.mem[m[1]]
    BY <1>13, <1>14, <2>1, <2>2, <2>3, <2>4 DEF SameBut
  <2>6. Marks(s, live) /\ live \in SUBSET live
    BY <1>7
  <2>7. QED
    BY <2>5, <2>6, MarksKept
<1>16. h[lvl] = S \ T
  <2>1. lvl # lvl + 1 /\ free \in [Levels -> SUBSET Nat]
    BY <1>2, SizeFacts DEF PoolInv, TypeOK
  <2>2. g[lvl] = S \ T
    BY <1>2, <2>1 DEF Unlink
  <2> HIDE DEF g
  <2>3. h[lvl] = g[lvl]
    BY <2>1 DEF AddFree
  <2>4. QED
    BY <2>2, <2>3
<1> DEFINE D == S \ T
<1>17. D \in SUBSET Places /\ ListIs(t, lvl, D)
  BY <1>2, <1>14, <1>16 DEF Linked
<1>18. \/ prev = HeadOf(lvl) /\ r = t.head[lvl]
       \/ prev \in D /\ r = LinkAt(t, prev)
  <2> HIDE DEF c, r, t
  <2>1. CASE prev = HeadOf(lvl) /\ \A b \in S : cur <= b
    <3>1. Behind(D, cur) = D
      BY <2>1 DEF Behind
    <3>2. IsHeadOf(r, D)
      BY <1>11, <3>1
    <3>3. IsHeadOf(t.head[lvl], D)
      BY <1>17 DEF ListIs
    <3> HIDE DEF D
    <3>4. r = t.head[lvl]
      BY <1>17, <3>2, <3>3, HeadFacts
    <3>5. QED
      BY <2>1, <3>4
  <2>2. CASE prev \in S /\ prev < cur /\ \A b \in S : prev < b => cur <= b
    <3>1. prev \in D
      BY <1>4, <2>2
    <3>2. \A b \in D : cur <= b <=> b > prev
      BY <1>4, <2>2
    <3>3. Behind(D, cur) = After(prev, D)
      BY <3>2 DEF Behind, After
    <3>4. IsHeadOf(r, After(prev, D))
      BY <1>11, <3>3
    <3>5. IsHeadOf(LinkAt(t, prev), After(prev, D)) /\ After(prev, D) \in SUBSET Places
      BY <1>17, <3>1 DEF ListIs, After
    <3> HIDE DEF D
    <3>6. r = LinkAt(t, prev)
      BY <3>4, <3>5, HeadFacts
    <3>7. QED
      BY <3>1, <3>6
  <2>3. QED
    BY <1>2, <2>1, <2>2 DEF Gap
<1>19. free' = h
  BY <1>1, <1>14, ListsAre
<1>20. ShrinkMerge
  <2>1. IsHeadOf(r, After(cur + Size[lvl], free[lvl])) /\ r \in free[lvl] \cup {NULL}
    BY <1>6
  <2>2. free' = AddFree(Unlink(free, lvl, {cur, cur + Size[lvl]}), lvl + 1, cur, 1)
    BY <1>19
  <2> HIDE DEF r
  <2>3. QED
    BY <1>1, <1>3, <2>1, <2>2 DEF ShrinkMerge
<1>21. PoolInv'
  BY <1>20, NextInv DEF Next, Running, TryShrink
<1>22. cur' \in Places \cup {NULL} /\ prev' \in Places \cup {HeadOf(k) : k \in Levels}
  BY <1>1, <1>2, <1>6 DEF LinkInv, LinkTypeOK
<1>23. PrevLeads'
  BY <1>1, <1>16, <1>18, <1>19 DEF PrevLeads
<1> HIDE DEF h, t
<1>24. LinkInv'
  BY <1>1, <1>14, <1>15, <1>19, <1>21, <1>22, <1>23, LinkInvNext
<1>25. QED
  BY <1>20, <1>24

-----------------------------------------------------------------------------
(* The search for a run of pages.                                          *)

(* Between the first and the last block of a run lie only blocks of it.    *)
LEMMA RunIsSolid ==
  ASSUME PoolInv, NEW k \in Levels, NEW a \in Nat, NEW n \in Nat \ {0},
         Blocks(a, k, n) \subseteq free[k], NEW b \in free[k], a <= b, b < a + n * Size[k]
  PROVE  b \in Blocks(a, k, n)
<1>1. b \in Nat /\ Size[k] \in Nat \ {0} /\ n \in Nat
  BY SizeFacts DEF PoolInv, TypeOK
<1>2. PICK i \in 0 .. n - 1 : a + i * Size[k] <= b /\ b < a + i * Size[k] + Size[k]
  BY <1>1, ByteInPiece
<1> DEFINE c == a + i * Size[k]
<1>3. c \in Blocks(a, k, n)
  BY DEF Blocks
<1>4. c \in free[k] /\ c \in Nat
  BY <1>3 DEF PoolInv, TypeOK
<1>5. b = c \/ Apart(c, Size[k], b, Size[k])
  BY <1>4 DEF PoolInv, Disjoint, NoOverlap
<1>6. c <= b /\ b < c + Size[k]
  BY <1>2
<1> HIDE DEF c
<1>7. b = c
  BY <1>1, <1>4, <1>5, <1>6 DEF Apart
<1>8. QED
  BY <1>3, <1>7

(* The locals of pool_alloc_continues: prev leads to block, from block on  *)
(* pages follow each other up to start, left of n + 1 are not found yet,   *)
(* and no such run begins before block.                                    *)
Found(n, p, b, x, l) ==
  /\ p \in Int /\ l \in 0 .. n
  /\ x = NULL => b = NULL /\ l = n
  /\ x # NULL =>
       /\ b \in free[Top] /\ x \in free[Top]
       /\ x = b + (n - l) * Size[Top] /\ Blocks(b, Top, (n - l) + 1) \subseteq free[Top]
       /\ \/ p = HeadOf(Top) /\ b = s.head[Top]
          \/ p \in free[Top] /\ b = LinkAt(s, p)
  /\ \A a \in free[Top] : x = NULL \/ a < b => ~ (Blocks(a, Top, n + 1) \subseteq free[Top])

(* One more page of the run.                                               *)
LEMMA FoundNext ==
  ASSUME PoolInv, LinkInv, NEW n \in Nat \ {0}, NEW p, NEW b, NEW x, NEW l,
         Found(n, p, b, x, l), x # NULL, l # 0, x + Size[Top] = LinkAt(s, x)
  PROVE  Found(n, p, b, LinkAt(s, x), l - 1) /\ LinkAt(s, x) # NULL /\ x + OBJ_MIN <= LinkAt(s, x)
<1> DEFINE S == free[Top]
           z == Size[Top]
           y == LinkAt(s, x)
           m == (n - l) + 1
<1>1. /\ Top \in Levels /\ z \in Nat \ {0} /\ S \in SUBSET Places /\ ListIs(s, Top, S)
      /\ S \subseteq Nat \ {0}
  BY SizeFacts, PlaceFacts DEF LinkInv
<1>2. /\ p \in Int /\ l \in 0 .. n /\ b \in S /\ x \in S /\ x = b + (n - l) * z
      /\ Blocks(b, Top, m) \subseteq S
      /\ \A a \in S : a < b => ~ (Blocks(a, Top, n + 1) \subseteq S)
  BY DEF Found
<1>3. y \in S \cup {NULL} /\ y = x + z /\ (y # NULL => x + OBJ_MIN <= y)
  <2>1. S \in SUBSET Places /\ Top \in Levels /\ ListIs(s, Top, S) /\ x \in S
    BY <1>1, <1>2
  <2> HIDE DEF S
  <2>2. y \in S \cup {NULL} /\ (y # NULL => x + OBJ_MIN <= y)
    BY <2>1, LinkFacts
  <2>3. QED
    BY <2>2
<1>4. y \in S /\ y # NULL /\ x + OBJ_MIN <= y
  <2>1. y # NULL
    BY <1>1, <1>2, <1>3 DEF NULL
  <2>2. QED
    BY <1>3, <2>1
<1>5. l - 1 \in 0 .. n /\ n - (l - 1) = m /\ m \in Nat /\ n - l \in Nat
  BY <1>2
<1>6. y = b + m * z
  <2>1. m * z = (n - l) * z + z /\ (n - l) * z \in Int
    <3> DEFINE i == n - l
    <3>1. i \in Nat /\ m = i + 1
      BY <1>2, <1>5
    <3>2. z \in Nat \ {0}
      BY <1>1
    <3> HIDE DEF i, m, z
    <3>3. (i + 1) * z = i * z + z /\ i * z \in Int
      BY <3>1, <3>2, Multiples
    <3>4. QED
      BY <3>1, <3>3 DEF i
  <2> DEFINE q == (n - l) * z
  <2> HIDE DEF q, z, m, y
  <2>2. m * z = q + z /\ q \in Int /\ x = b + q /\ y = x + z
    BY <1>2, <1>3, <2>1 DEF q
  <2>3. b \in Nat /\ z \in Nat
    BY <1>1, <1>2
  <2>4. QED
    BY <2>2, <2>3
<1>7. Blocks(b, Top, m + 1) \subseteq S
  <2>1. SUFFICES ASSUME NEW i \in 0 .. (m + 1) - 1 PROVE b + i * z \in S
    BY DEF Blocks
  <2>2. CASE i = m
    BY <1>4, <1>6, <2>2
  <2>3. CASE i # m
    <3>1. i \in 0 .. m - 1
      BY <1>5, <2>3
    <3>2. b + i * z \in Blocks(b, Top, m)
      BY <3>1 DEF Blocks
    <3>3. QED
      BY <1>2, <3>2
  <2>4. QED
    BY <2>2, <2>3
<1>8. \/ p = HeadOf(Top) /\ b = s.head[Top]
      \/ p \in S /\ b = LinkAt(s, p)
  BY DEF Found
<1> HIDE DEF y, z, m
<1>9. Found(n, p, b, y, l - 1)
  BY <1>2, <1>4, <1>5, <1>6, <1>7, <1>8 DEF Found, z
<1>10. QED
  BY <1>4, <1>9 DEF y

(* The run ends too soon, and the search goes on behind it.                *)
LEMMA FoundElsewhere ==
  ASSUME PoolInv, LinkInv, NEW n \in Nat \ {0}, NEW p, NEW b, NEW x, NEW l,
         Found(n, p, b, x, l), x # NULL, l # 0, x + Size[Top] # LinkAt(s, x)
  PROVE  /\ Found(n, x, LinkAt(s, x), LinkAt(s, x), n)
         /\ LinkAt(s, x) # NULL => x + OBJ_MIN <= LinkAt(s, x)
<1> DEFINE S == free[Top]
           z == Size[Top]
           y == LinkAt(s, x)
           m == (n - l) + 1
<1>1. /\ Top \in Levels /\ z \in Nat \ {0} /\ S \in SUBSET Places /\ ListIs(s, Top, S)
      /\ S \subseteq Nat \ {0}
  BY SizeFacts, PlaceFacts DEF LinkInv
<1>2. /\ l \in 0 .. n /\ b \in S /\ x \in S /\ x = b + (n - l) * z
      /\ Blocks(b, Top, m) \subseteq S
      /\ \A a \in S : a < b => ~ (Blocks(a, Top, n + 1) \subseteq S)
  BY DEF Found
<1>3. /\ y \in S \cup {NULL} /\ y \in Nat /\ (y # NULL => x + OBJ_MIN <= y)
      /\ \A a \in S : x < a => y # NULL /\ y <= a
  <2>1. S \in SUBSET Places /\ Top \in Levels /\ ListIs(s, Top, S) /\ x \in S
    BY <1>1, <1>2
  <2> HIDE DEF S
  <2>2. QED
    BY <2>1, LinkFacts
<1>4. m \in Nat \ {0} /\ n - l \in Nat /\ x \in Nat /\ b \in Nat
  BY <1>1, <1>2
<1>5. x + z = b + m * z
  <2>1. m * z = (n - l) * z + z /\ (n - l) * z \in Int
    <3>1. n - l \in Int /\ z \in Nat \ {0}
      BY <1>1, <1>4
    <3> DEFINE d == n - l
    <3> HIDE DEF d, z
    <3>2. (d + 1) * z = d * z + z /\ d * z \in Int
      BY <3>1, Multiples DEF d
    <3>3. QED
      BY <3>2 DEF d
  <2> DEFINE q == (n - l) * z
  <2> HIDE DEF q, z, m
  <2>2. m * z = q + z /\ q \in Int /\ x = b + q
    BY <1>2, <2>1 DEF q
  <2>3. z \in Nat
    BY <1>1
  <2>4. QED
    BY <1>4, <2>2, <2>3
<1>6. x + z \notin S
  <2>1. ASSUME x + z \in S PROVE FALSE
    <3>1. IsHeadOf(x + z, After(x, S))
      BY <1>1, <1>2, <2>1, PoolPartition, TouchingIsNext
    <3>2. IsHeadOf(y, After(x, S)) /\ After(x, S) \in SUBSET Places
      BY <1>1, <1>2 DEF ListIs, After
    <3>3. y = x + z
      BY <3>1, <3>2, HeadFacts
    <3>4. QED
      BY <3>3
  <2>2. QED
    BY <2>1
<1>7. ASSUME NEW a \in S, y = NULL \/ a < y, Blocks(a, Top, n + 1) \subseteq S PROVE FALSE
  <2>1. a \in Nat /\ b <= a /\ a <= x
    <3>1. a \in Nat /\ ~ (a < b) /\ ~ (x < a)
      BY <1>1, <1>2, <1>3, <1>7
    <3>2. QED
      BY <1>4, <3>1
  <2>2. a \in Blocks(b, Top, m)
    <3>1. a < b + m * Size[Top]
      <4> HIDE DEF m
      <4>1. a < x + z
        BY <1>1, <1>4, <2>1
      <4>2. QED
        BY <1>5, <4>1
    <3>2. QED
      BY <1>1, <1>2, <1>4, <2>1, <3>1, RunIsSolid
  <2>3. PICK i \in 0 .. m - 1 : a = b + i * z
    BY <2>2 DEF Blocks
  <2>4. m - i \in 0 .. (n + 1) - 1
    BY <1>2, <1>4
  <2>5. x + z = a + (m - i) * z
    <3>1. m * z = i * z + (m - i) * z /\ i * z \in Int /\ (m - i) * z \in Int
      BY <1>1, <1>4
    <3> DEFINE q == i * z
               w == (m - i) * z
    <3>2. x + z = b + (q + w) /\ a = b + q /\ q \in Int /\ w \in Int
      BY <1>5, <2>3, <3>1
    <3> HIDE DEF q, w, m
    <3>3. x + z = a + w
      BY <1>4, <3>2
    <3>4. QED
      BY <3>3 DEF w
  <2>6. x + z \in Blocks(a, Top, n + 1)
    BY <2>4, <2>5 DEF Blocks
  <2>7. QED
    BY <1>6, <1>7, <2>6
<1>8. y # NULL => y = y + (n - n) * z /\ Blocks(y, Top, (n - n) + 1) \subseteq S
  <2>1. n - n = 0 /\ 0 * z = 0 /\ (n - n) + 1 = 1
    BY <1>1
  <2>2. y # NULL => Blocks(y, Top, 1) = {y}
    BY <1>1, <1>3, OneBlock
  <2>3. QED
    BY <1>3, <2>1, <2>2
<1>9. \A a \in S : y = NULL \/ a < y => ~ (Blocks(a, Top, n + 1) \subseteq S)
  BY <1>7
<1>10. x \in Int /\ n \in 0 .. n /\ (y # NULL => y \in S)
  BY <1>3, <1>4
<1> HIDE DEF y, z, m
<1>11. Found(n, x, y, y, n)
  BY <1>2, <1>8, <1>9, <1>10 DEF Found, y, z
<1>12. QED
  BY <1>3, <1>11 DEF y

(* Every round that does not end the search climbs, so it is over before   *)
(* the rounds are.                                                         *)
LEMMA ContinuesIs ==
  ASSUME PoolInv, LinkInv, NEW n \in Nat \ {0}
  PROVE  \E p, b, x, l :
           /\ Continues(n) = [prev |-> p, block |-> b, start |-> x, left |-> l]
           /\ Found(n, p, b, x, l) /\ (x = NULL \/ l = 0)
<1> DEFINE R(p, b, x, l) == [prev |-> p, block |-> b, start |-> x, left |-> l]
           step == [r \in [prev : Int, block : Int, start : Int, left : Nat] |->
                      IF r.start = NULL \/ r.left = 0 THEN r
                      ELSE LET next == LinkAt(s, r.start)
                           IN  IF r.start + Size[Top] = next
                               THEN [prev |-> r.prev, block |-> r.block, start |-> next, left |-> r.left - 1]
                               ELSE [prev |-> r.start, block |-> next, start |-> next, left |-> n]]
           first == [prev |-> HeadOf(Top), block |-> s.head[Top], start |-> s.head[Top], left |-> n]
           Late(i, x, l) == x = NULL \/ l = 0 \/ PoolStart + i * OBJ_MIN <= x
           Good(i) == \E p, b, x, l : /\ Iterate(step, first, i) = R(p, b, x, l)
                                      /\ Found(n, p, b, x, l) /\ Late(i, x, l)
           Bad == {i \in Nat : ~ Good(i)}
<1>1. Top \in Levels /\ free[Top] \in SUBSET Places /\ ListIs(s, Top, free[Top])
  BY SizeFacts DEF LinkInv
<1>2. ASSUME NEW p, NEW b, NEW x, NEW l, Found(n, p, b, x, l)
      PROVE  /\ p \in Int /\ b \in Int /\ x \in Int /\ l \in Nat
             /\ x # NULL => x \in Places /\ x \in Nat
  <2>1. p \in Int /\ l \in Nat
    BY <1>2 DEF Found
  <2>2. x # NULL => x \in Places /\ b \in Places
    BY <1>1, <1>2 DEF Found
  <2>3. x = NULL => b = NULL
    BY <1>2 DEF Found
  <2>4. QED
    BY <2>1, <2>2, <2>3, PlaceFacts DEF NULL
<1>3. ASSUME NEW p \in Int, NEW b \in Int, NEW x \in Int, NEW l \in Nat
      PROVE  step[R(p, b, x, l)] = IF x = NULL \/ l = 0 THEN R(p, b, x, l)
                                   ELSE IF x + Size[Top] = LinkAt(s, x)
                                        THEN R(p, b, LinkAt(s, x), l - 1)
                                        ELSE R(x, LinkAt(s, x), LinkAt(s, x), n)
  <2>1. R(p, b, x, l) \in [prev : Int, block : Int, start : Int, left : Nat]
    OBVIOUS
  <2> DEFINE r == R(p, b, x, l)
  <2>2. r.prev = p /\ r.block = b /\ r.start = x /\ r.left = l
    OBVIOUS
  <2>3. step[r] = IF r.start = NULL \/ r.left = 0 THEN r
                  ELSE IF r.start + Size[Top] = LinkAt(s, r.start)
                       THEN R(r.prev, r.block, LinkAt(s, r.start), r.left - 1)
                       ELSE R(r.start, LinkAt(s, r.start), LinkAt(s, r.start), n)
    BY <2>1
  <2> HIDE DEF r, step, R
  <2>4. QED
    BY <2>2, <2>3 DEF r
<1>4. Continues(n) = Iterate(step, first, PlaceCount)
  BY DEF Continues
<1>5. first = R(HeadOf(Top), s.head[Top], s.head[Top], n)
  OBVIOUS
<1> HIDE DEF step, first
<1>6. /\ Iterate(step, first, 0) = first
      /\ \A i \in Nat : Iterate(step, first, i + 1) = step[Iterate(step, first, i)]
  BY IterateIs
<1>7. Good(0)
  <2> DEFINE h == s.head[Top]
  <2>1. IsHeadOf(h, free[Top])
    BY <1>1 DEF ListIs
  <2>2. h \in free[Top] \cup {NULL} /\ h \in Nat /\ (h = NULL <=> free[Top] = {})
        /\ \A a \in free[Top] : h # NULL /\ h <= a
    BY <1>1, <2>1, HeadFacts
  <2>3. h # NULL => h \in Nat /\ PoolStart + 0 * OBJ_MIN <= h
    BY <1>1, <2>2, PlaceFacts, PlacesFill DEF OBJ_MIN
  <2>4. HeadOf(Top) \in Int /\ n \in 0 .. n
    BY SizeFacts DEF HeadOf
  <2>5. n - n = 0 /\ (n - n) + 1 = 1 /\ 0 * Size[Top] = 0
    BY SizeFacts
  <2>6. h # NULL => h = h + (n - n) * Size[Top] /\ Blocks(h, Top, (n - n) + 1) \subseteq free[Top]
    <3>1. Blocks(h, Top, 1) = {h}
      BY <1>1, <2>2, OneBlock
    <3>2. QED
      BY <2>2, <2>5, <3>1
  <2>7. \A a \in free[Top] : ~ (h = NULL \/ a < h)
    BY <1>1, <2>2, PlaceFacts
  <2>8. first = R(HeadOf(Top), h, h, n)
    BY <1>5
  <2>9. Found(n, HeadOf(Top), h, h, n)
    BY <2>2, <2>4, <2>6, <2>7 DEF Found
  <2> HIDE DEF h, R
  <2>10. QED
    BY <1>6, <2>3, <2>8, <2>9
<1>8. ASSUME NEW i \in Nat, Good(i) PROVE Good(i + 1)
  <2>1. PICK p, b, x, l : /\ Iterate(step, first, i) = R(p, b, x, l)
                          /\ Found(n, p, b, x, l) /\ Late(i, x, l)
    BY <1>8
  <2>2. p \in Int /\ b \in Int /\ x \in Int /\ l \in Nat /\ (x # NULL => x \in Nat)
    BY <1>2, <2>1
  <2> DEFINE y == LinkAt(s, x)
  <2>3. Iterate(step, first, i + 1) =
          IF x = NULL \/ l = 0 THEN R(p, b, x, l)
          ELSE IF x + Size[Top] = y THEN R(p, b, y, l - 1) ELSE R(x, y, y, n)
    <3> HIDE DEF R
    <3>1. step[R(p, b, x, l)] = IF x = NULL \/ l = 0 THEN R(p, b, x, l)
                                ELSE IF x + Size[Top] = LinkAt(s, x)
                                     THEN R(p, b, LinkAt(s, x), l - 1)
                                     ELSE R(x, LinkAt(s, x), LinkAt(s, x), n)
      BY <1>3, <2>2
    <3>2. Iterate(step, first, i + 1) = step[R(p, b, x, l)]
      BY <1>6, <2>1
    <3>3. QED
      BY <3>1, <3>2
  <2> HIDE DEF R
  <2>4. CASE x = NULL \/ l = 0
    <3>1. Late(i + 1, x, l)
      BY <2>4
    <3> HIDE DEF Late
    <3>2. QED
      BY <2>1, <2>3, <2>4, <3>1
  <2>5. CASE x # NULL /\ l # 0
    <3>1. PoolStart + i * OBJ_MIN <= x /\ x \in Nat
      BY <2>1, <2>2, <2>5
    <3>2. CASE x + Size[Top] = y
      <4>1. Found(n, p, b, y, l - 1) /\ y # NULL /\ x + OBJ_MIN <= y
        BY <2>1, <2>5, <3>2, FoundNext
      <4>2. y \in Int
        BY <1>2, <4>1
      <4>3. Late(i + 1, y, l - 1)
        <5> HIDE DEF y
        <5>1. PoolStart + (i + 1) * OBJ_MIN <= y
          BY <3>1, <4>1, <4>2, PlacesFill DEF OBJ_MIN
        <5>2. QED
          BY <5>1
      <4> HIDE DEF Late, y
      <4>4. QED
        BY <2>3, <2>5, <3>2, <4>1, <4>3
    <3>3. CASE x + Size[Top] # y
      <4>1. Found(n, x, y, y, n) /\ (y # NULL => x + OBJ_MIN <= y)
        BY <2>1, <2>5, <3>3, FoundElsewhere
      <4>2. y \in Int
        BY <1>2, <4>1
      <4>3. Late(i + 1, y, n)
        <5> HIDE DEF y
        <5>1. y # NULL => PoolStart + (i + 1) * OBJ_MIN <= y
          BY <3>1, <4>1, <4>2, PlacesFill DEF OBJ_MIN
        <5>2. QED
          BY <5>1
      <4> HIDE DEF Late, y
      <4>4. QED
        BY <2>3, <2>5, <3>3, <4>1, <4>3
    <3>4. QED
      BY <3>2, <3>3
  <2>6. QED
    BY <2>4, <2>5
<1> HIDE DEF Good
<1>9. \A i \in Nat : Good(i)
  <2>1. SUFFICES ASSUME Bad # {} PROVE FALSE
    OBVIOUS
  <2>2. PICK i \in Bad : \A j \in Bad : i <= j
    BY <2>1, LeastNatural
  <2>3. i # 0 /\ i \in Nat /\ ~ Good(i)
    BY <1>7, <2>2
  <2>4. i - 1 \in Nat /\ i - 1 \notin Bad /\ (i - 1) + 1 = i
    BY <2>2, <2>3
  <2>5. Good((i - 1) + 1)
    BY <1>8, <2>4
  <2>6. QED
    BY <2>3, <2>4, <2>5
<1>10. PICK p, b, x, l : /\ Iterate(step, first, PlaceCount) = R(p, b, x, l)
                        /\ Found(n, p, b, x, l) /\ Late(PlaceCount, x, l)
  BY <1>9, PlacesFill DEF Good
<1>11. x = NULL \/ l = 0
  <2>1. x # NULL => x \in Places /\ x \in Nat
    BY <1>2, <1>10
  <2>2. x # NULL => x < PoolEnd
    BY <2>1, PlaceFacts
  <2>3. QED
    BY <1>10, <2>1, <2>2, PlacesFill DEF OBJ_MIN
<1>12. QED
  BY <1>4, <1>10, <1>11

(* pool_malloc takes the first run of pages there is, or fails.            *)
LEMMA MallocLargeLinked ==
  ASSUME PoolInv, LinkInv, LinkedMallocLarge
  PROVE  (MallocLarge \/ MallocLargeFails) /\ LinkInv'
<1> DEFINE n == PagesOf(req, Size[Top])
           S == free[Top]
           z == Size[Top]
<1>1. pc = "malloc" /\ req # 0 /\ IsLarge(req) /\ Return /\ prev' = prev
  BY DEF LinkedMallocLarge
<1>2. n \in Nat \ {0}
  <2>1. req \in Requests \ {0}
    BY <1>1 DEF PoolInv, TypeOK
  <2>2. Padded(req) > Size[Top]
    BY <1>1 DEF IsLarge
  <2>3. ~ (Padded(req) <= Size[Top])
    BY <2>1, <2>2, PaddedFacts, SizeFacts
  <2>4. QED
    BY <2>1, <2>3, RequestFits
<1>3. /\ Top \in Levels /\ S \in SUBSET Places /\ S \subseteq Nat /\ ListIs(s, Top, S)
      /\ z \in Nat \ {0}
  BY SizeFacts, PlaceFacts DEF LinkInv
<1>4. Linked(s, free) /\ Marks(s, live)
  BY LinkedNow
<1>5. PICK p, b, x, l : /\ Continues(n) = [prev |-> p, block |-> b, start |-> x, left |-> l]
                        /\ Found(n, p, b, x, l) /\ (x = NULL \/ l = 0)
  BY <1>2, ContinuesIs
<1>6. IF l > 0 THEN s' = s /\ free' = free /\ free_n' = free_n /\ live' = live
      ELSE /\ s' = HandOut(SetLink(s, p, x), b, Top, n)
           /\ free' = ListsOf(s') /\ free_n' = Counted(Top, -n)
           /\ live' = live \cup {<<b, Top, n>>}
  <2> HIDE DEF n
  <2>1. /\ Continues(n).left = l /\ Continues(n).prev = p
        /\ Continues(n).start = x /\ Continues(n).block = b
    BY <1>5
  <2>2. IF Continues(n).left > 0 THEN UNCHANGED <<s, lists, live>>
        ELSE /\ s' = HandOut(SetLink(s, Continues(n).prev, Continues(n).start),
                             Continues(n).block, Top, n)
             /\ free' = ListsOf(s') /\ free_n' = Counted(Top, -n)
             /\ live' = live \cup {<<Continues(n).block, Top, n>>}
    BY DEF LinkedMallocLarge, n
  <2>3. QED
    BY <2>1, <2>2 DEF lists
<1>7. l \in Nat
  BY <1>5 DEF Found
<1>8. cur' \in Places \cup {NULL} /\ prev' \in Places \cup {HeadOf(k) : k \in Levels} /\ PrevLeads'
  BY <1>1 DEF Return, PrevLeads, LinkInv, LinkTypeOK
<1>9. CASE l > 0
  <2>1. x = NULL
    BY <1>5, <1>9
  <2>2. Runs(n) = {}
    BY <1>5, <2>1 DEF Found, Runs
  <2>3. MallocLargeFails
    BY <1>1, <1>6, <1>9, <2>2 DEF MallocLargeFails, lists
  <2>4. PoolInv'
    BY <2>3, NextInv DEF Next, Running, Malloc
  <2>5. LinkInv'
    BY <1>6, <1>8, <1>9, <2>4, LinkInvKept
  <2>6. QED
    BY <2>3, <2>5
<1>10. CASE l = 0
  <2> DEFINE T == Blocks(b, Top, n)
             g == Unlink(free, Top, T)
             st == SetLink(s, p, x)
             t == HandOut(st, b, Top, n)
  <2>1. /\ x # NULL /\ b \in S /\ x \in S /\ x = b + n * z
        /\ Blocks(b, Top, n + 1) \subseteq S
        /\ \A a \in S : a < b => ~ (Blocks(a, Top, n + 1) \subseteq S)
        /\ \/ p = HeadOf(Top) /\ b = s.head[Top]
           \/ p \in S /\ b = LinkAt(s, p)
    <3>1. n - 0 = n /\ n # 0
      BY <1>2
    <3> HIDE DEF n
    <3>2. x # NULL
      BY <1>5, <1>10, <3>1 DEF Found
    <3>3. QED
      BY <1>5, <1>10, <3>1, <3>2 DEF Found
  <2>2. /\ b \in Nat /\ b \in Places /\ x \in Nat /\ z \in Nat
        /\ s' = t /\ free' = ListsOf(s') /\ free_n' = Counted(Top, -n)
        /\ live' = live \cup {<<b, Top, n>>}
    BY <1>3, <1>6, <1>10, <2>1
  <2> HIDE DEF n
  <2>3. T \subseteq S /\ \A a \in T : b <= a /\ a < x /\ a \in Nat
    <3>1. \A a \in T : a \in Blocks(b, Top, n + 1)
      <4>1. (n + 1) - 1 = n /\ n + 1 \in Nat \ {0}
        BY <1>2
      <4>2. \A a \in Blocks(b, Top, (n + 1) - 1) : a \in Blocks(b, Top, n + 1)
        BY <1>3, <2>2, <4>1, RunOrder
      <4>3. QED
        BY <4>1, <4>2
    <3>2. ASSUME NEW a \in T PROVE b <= a /\ a < x /\ a \in Nat
      <4>1. PICK i \in 0 .. n - 1 : a = b + i * z
        BY DEF Blocks
      <4>2. b + i * z \in Nat /\ b <= b + i * z /\ b + i * z + z <= b + n * z
        BY <1>2, <1>3, <2>2, PieceInRun
      <4> HIDE DEF z
      <4>3. a \in Nat /\ b <= a /\ a + z <= x
        BY <2>1, <4>1, <4>2
      <4>4. QED
        BY <1>3, <2>2, <4>3
    <3>3. QED
      BY <2>1, <3>1, <3>2
  <2>4. \A a \in S \ T : b <= a => x <= a
    <3>1. SUFFICES ASSUME NEW a \in S, b <= a, a < x PROVE a \in T
      BY <1>3, <2>2
    <3>2. a < b + n * Size[Top]
      BY <2>1, <3>1
    <3>3. QED
      BY <1>2, <1>3, <2>2, <2>3, <3>1, <3>2, RunIsSolid
  <2>5. x \notin T
    BY <2>2, <2>3
  <2>6. Cut(S, T, b)
    <3> HIDE DEF S, T
    <3>1. ASSUME NEW a \in T, NEW c \in S \ T, b <= c PROVE a < c
      <4>1. a < x /\ x <= c /\ a \in Nat /\ c \in Nat
        BY <1>3, <2>3, <2>4, <3>1
      <4>2. QED
        BY <2>2, <4>1
    <3>2. QED
      BY <2>3, <3>1 DEF Cut
  <2>7. IsHeadOf(x, Behind(S \ T, b))
    <3> HIDE DEF S, T
    <3>1. b <= x
      <4>1. b \in T
        BY <1>2, <1>3, <2>2, RunOrder DEF T
      <4>2. QED
        BY <2>2, <2>3, <4>1
    <3>2. x \in Behind(S \ T, b) /\ \A c \in Behind(S \ T, b) : x <= c
      BY <2>1, <2>4, <2>5, <3>1 DEF Behind
    <3>3. QED
      BY <3>2 DEF IsHeadOf, IsFirst
  <2>8. Gap(s, Top, free[Top], b, p, b)
    BY <1>3, <2>1, GapAt
  <2>9. Linked(st, g) /\ SameBut(S, s, st)
    <3> HIDE DEF T
    <3>1. Top \in Levels /\ b \in Nat /\ Linked(s, free)
      BY <1>3, <1>4, <2>2
    <3>2. IsHeadOf(x, Behind(free[Top] \ T, b)) /\ Cut(free[Top], T, b)
      BY <2>6, <2>7
    <3>3. Linked(SetLink(s, p, x), Unlink(free, Top, T)) /\ SameBut(free[Top], s, SetLink(s, p, x))
      BY <2>8, <3>1, <3>2, UnlinkLinked
    <3>4. QED
      BY <3>3
  <2>10. /\ Clear(g, b, Top, n)
         /\ \A m \in live : ~ (b <= m[1] /\ m[1] < b + n * Size[Top])
    BY <1>2, <1>3, <2>2, <2>3, RunAlone
  <2>11. Marks(st, live)
    <3>1. \A m \in live : m[1] \notin S
      BY <1>3, PoolPartition, FreshHeader
    <3>2. \A m \in live : m[1] \in Cells
      BY PlaceFacts DEF LinkInv, LinkTypeOK
    <3> HIDE DEF st, S, T
    <3>3. \A m \in live : st.mem[m[1]] = s.mem[m[1]]
      BY <2>9, <3>1, <3>2 DEF SameBut
    <3>4. Marks(s, live) /\ live \in SUBSET live
      BY <1>4
    <3>5. QED
      BY <3>3, <3>4, MarksKept
  <2> HIDE DEF st, g
  <2>12. Linked(t, g)
    BY <1>2, <1>3, <2>2, <2>9, <2>10, HandOutClear
  <2>13. Marks(t, live')
    <3>1. st \in LinkStates
      BY <2>9 DEF Linked
    <3>2. Marks(t, live \cup {<<b, Top, n>>})
      BY <1>2, <1>3, <2>2, <2>10, <2>11, <3>1, HandOutMarks
    <3>3. QED
      BY <2>2, <3>2
  <2> HIDE DEF t
  <2>14. free' = g
    BY <2>2, <2>12, ListsAre
  <2>15. MallocLarge
    <3>1. b \in Runs(n) /\ IsFirst(b, Runs(n))
      <4>1. b \in Runs(n)
        BY <2>1 DEF Runs
      <4>2. ASSUME NEW a \in Runs(n) PROVE b <= a
        <5>1. a \in S /\ a \in Nat /\ ~ (a < b)
          BY <1>3, <2>1 DEF Runs
        <5>2. QED
          BY <2>2, <5>1
      <4>3. QED
        BY <4>1, <4>2 DEF IsFirst
    <3>2. free_n' = [free_n EXCEPT ![Top] = @ - n]
      <4>1. free_n \in [Levels -> Nat] /\ n \in Int
        BY <1>2 DEF PoolInv, TypeOK
      <4>2. QED
        BY <1>3, <2>2, <4>1, CountedIs
    <3>3. free' = Unlink(free, Top, Blocks(b, Top, n))
      BY <2>14 DEF g
    <3>4. QED
      BY <1>1, <2>2, <3>1, <3>2, <3>3 DEF MallocLarge, n
  <2>16. PoolInv'
    BY <2>15, NextInv DEF Next, Running, Malloc
  <2>17. LinkInv'
    BY <1>8, <2>2, <2>12, <2>13, <2>14, <2>16, LinkInvNext
  <2>18. QED
    BY <2>15, <2>17
<1>11. QED
  BY <1>7, <1>9, <1>10

-----------------------------------------------------------------------------
(* The invariant, and the refinement step by step.                         *)

LEMMA LinkedNextInv ==
  ASSUME PoolInv, LinkInv, [LinkedNext]_linkVars
  PROVE  [Next]_vars /\ PoolInv' /\ LinkInv'
<1>1. CASE UNCHANGED linkVars
  <2>1. UNCHANGED vars /\ s' = s /\ prev' = prev
    BY <1>1 DEF linkVars, vars
  <2>2. PoolInv'
    BY <2>1, NextInv
  <2>3. cur' \in Places \cup {NULL} /\ prev' \in Places \cup {HeadOf(k) : k \in Levels} /\ PrevLeads'
    BY <2>1 DEF vars, LinkInv, LinkTypeOK, PrevLeads
  <2>4. LinkInv'
    BY <2>1, <2>2, <2>3, LinkInvKept DEF vars
  <2>5. QED
    BY <2>1, <2>2, <2>4
<1>2. CASE \E m \in live : LinkedFree(m[1])
  BY <1>2, FreeLinked, NextInv
<1>3. CASE LinkedMallocLarge
  BY <1>3, MallocLargeLinked, NextInv DEF Next, Running, Malloc
<1>4. CASE LinkedTake
  BY <1>4, TakeLinked, NextInv DEF Next, Running, Malloc
<1>5. CASE LinkedSplit
  BY <1>5, SplitLinked, NextInv DEF Next, Running, PullUpper
<1>6. CASE LinkedEnter
  BY <1>6, EnterLinked, NextInv DEF Next, Running, TryShrink
<1>7. CASE LinkedMerge
  BY <1>7, MergeLinked, NextInv DEF Next, Running, TryShrink
<1>8. CASE LinkedSkip
  BY <1>8, SkipLinked, NextInv DEF Next, Running, TryShrink
<1>9. CASE LinkedShrinkTop
  BY <1>9, ShrinkTopLinked, NextInv DEF Next, Running, TryShrink
<1>10. CASE LinksKept
  BY <1>10, LinksKeptLinked, NextInv
<1>11. QED
  BY <1>1, <1>2, <1>3, <1>4, <1>5, <1>6, <1>7, <1>8, <1>9, <1>10 DEF LinkedNext

(* The lists of links are the sets of BuddyPool, the headers say where     *)
(* their blocks go, and prev leads to curr, in every state.                *)
THEOREM LinksHold == LinkedSpec => [](PoolInv /\ LinkInv)
<1>1. LinkedInit => PoolInv /\ LinkInv
  BY LinkedInitInv
<1>2. (PoolInv /\ LinkInv) /\ [LinkedNext]_linkVars => (PoolInv /\ LinkInv)'
  BY LinkedNextInv
<1>3. QED
  BY <1>1, <1>2, PTL DEF LinkedSpec

(* Each list ascends and ends after as many blocks as its counter says.    *)
LEMMA ListsClimb ==
  ASSUME PoolInv, LinkInv
  PROVE  ListsAscend
<1>1. SUFFICES ASSUME NEW k \in Levels
               PROVE  /\ Nth(s, k, free_n[k]) = NULL
                      /\ \A i \in 0 .. free_n[k] - 1 :
                           /\ Nth(s, k, i) \in Places
                           /\ i > 0 => Nth(s, k, i - 1) < Nth(s, k, i)
  BY DEF ListsAscend
<1>2. free[k] \in SUBSET Places /\ ListIs(s, k, free[k])
  BY DEF LinkInv
<1>3. free_n[k] = Cardinality(free[k]) /\ free_n[k] \in Nat
  BY DEF PoolInv, CountersMatch, Counts, TypeOK
<1>4. /\ Nth(s, k, free_n[k]) = NULL
      /\ \A i \in 0 .. free_n[k] - 1 : Nth(s, k, i) \in free[k]
  BY <1>2, <1>3, WalkCounts
<1>5. ASSUME NEW i \in 0 .. free_n[k] - 1
      PROVE  Nth(s, k, i) \in Places /\ (i > 0 => Nth(s, k, i - 1) < Nth(s, k, i))
  <2>1. Nth(s, k, i) \in Places
    BY <1>2, <1>4
  <2>2. Nth(s, k, i) # NULL
    BY <2>1, PlaceFacts
  <2>3. ASSUME i > 0 PROVE Nth(s, k, i - 1) < Nth(s, k, i)
    <3>1. i \in Nat /\ i - 1 \in Nat /\ i - 1 < i
      BY <1>3, <2>3
    <3>2. QED
      BY <1>2, <2>2, <3>1, WalkClimbs
  <2>4. QED
    BY <2>1, <2>3
<1>6. QED
  BY <1>4, <1>5

(* Every word, counter and local has its type, and every list ascends and  *)
(* has the length its counter says, though splits, merges and frees        *)
(* rewrite links under the walks, for every pool.                          *)
THEOREM ListsStayLists == LinkedSpec => []ListInv
<1>1. PoolInv /\ LinkInv => ListInv
  BY ListsClimb DEF ListInv, LinkInv
<1>2. QED
  BY <1>1, LinksHold, PTL

(* The header in front of a block in use is the one pool_malloc wrote, as  *)
(* long as the block is held, for every pool: no neighbour's link is       *)
(* written over it.                                                        *)
THEOREM HeadersStay == LinkedSpec => []HeadersHold
<1>1. PoolInv /\ LinkInv => HeadersHold
  BY DEF LinkInv
<1>2. QED
  BY <1>1, LinksHold, PTL

(* The allocator on links takes the steps of the one on sets: what the     *)
(* theorems above say of BuddyPool holds of the links as well.             *)
THEOREM LinksImplementSets == LinkedSpec => ImplementsPool
<1>1. LinkedInit => Init
  BY DEF LinkedInit
<1>2. (PoolInv /\ LinkInv) /\ [LinkedNext]_linkVars => [Next]_vars
  BY LinkedNextInv
<1>3. QED
  BY <1>1, <1>2, LinksHold, PTL DEF LinkedSpec, ImplementsPool, Spec

(* And with its links the pool keeps the promise of a heap.                *)
THEOREM LinksAreAHeap == LinkedSpec => ImplementsHeap
BY LinksImplementSets, PoolIsAHeap, PTL DEF ImplementsPool
=============================================================================
