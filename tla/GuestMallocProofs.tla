-------------------------- MODULE GuestMallocProofs ---------------------------
(***************************************************************************)
(* Proofs about GuestHeap and GuestMalloc for every size of the memory,    *)
(* the address space, the pages, the pools and the requests, and for       *)
(* whatever guests pass to sbrk, brk and mem_init.                         *)
(*                                                                         *)
(* The heap comes first: the arithmetic of the break, cut to a word, and   *)
(* of the page boundary behind the descriptors, then what each way of      *)
(* moving the break does to the extents, and the inductive invariant.      *)
(* Every step of GuestMalloc is one of GuestHeap, whose theorems carry     *)
(* over.  For it come the arithmetic of runs of pages, then why a run of   *)
(* free pages never reaches from one extent into the next, then the steps  *)
(* of malloc, free and mem_init, and the theorems.                         *)
(***************************************************************************)
EXTENDS GuestMalloc, WellFoundedInduction, TLAPS

-----------------------------------------------------------------------------
(* Arithmetic.                                                             *)

(* Multiples of a size.                                                    *)
LEMMA Multiples ==
  ASSUME NEW i \in Int, NEW j \in Int, NEW s \in Nat \ {0}
  PROVE  /\ i * s \in Int
         /\ (i + 1) * s = i * s + s
         /\ i <= j => i * s <= j * s
         /\ i * s < j * s => i < j
         /\ i * s = j * s => i = j
         /\ 0 <= i => 0 <= i * s
OBVIOUS

(* What division leaves.                                                   *)
LEMMA Remainder ==
  ASSUME NEW a \in Int, NEW n \in Nat \ {0}
  PROVE  /\ a \div n \in Int
         /\ (a % n) \in 0 .. n - 1
         /\ a = (a \div n) * n + (a % n)
OBVIOUS

(* Quotient and remainder are the only ones there are.                     *)
LEMMA RemainderIs ==
  ASSUME NEW q \in Int, NEW n \in Nat \ {0}, NEW r \in 0 .. n - 1
  PROVE  (q * n + r) % n = r
<1> DEFINE a == q * n + r
<1>1. a \in Int
  BY Multiples
<1>2. a \div n \in Int /\ (a % n) \in 0 .. n - 1 /\ a = (a \div n) * n + (a % n)
  BY <1>1, Remainder
<1> DEFINE d == a \div n
           m == a % n
<1>3. d \in Int /\ m \in 0 .. n - 1 /\ q * n + r = d * n + m
  BY <1>2
<1> HIDE DEF d, m
<1>4. d * n < (q + 1) * n /\ q * n < (d + 1) * n
  BY <1>3, Multiples
<1>5. d < q + 1 /\ q < d + 1
  BY <1>3, <1>4, Multiples
<1>6. d = q /\ d * n \in Int
  BY <1>3, <1>5, Multiples
<1>7. m = r
  BY <1>3, <1>6
<1>8. QED
  BY <1>7 DEF m

(* A number that is moved without crossing a multiple of n takes its       *)
(* remainder along: how the break, cut to a word, follows the host's.      *)
LEMMA RemainderMoves ==
  ASSUME NEW a \in Int, NEW n \in Nat \ {0}, NEW k \in Int,
         (a % n) + k \in 0 .. n - 1
  PROVE  (a + k) % n = (a % n) + k
<1> DEFINE d == a \div n
           r == (a % n) + k
<1>1. d \in Int /\ r \in 0 .. n - 1 /\ a + k = d * n + r
  BY Remainder
<1> HIDE DEF d, r
<1>2. (a + k) % n = r
  BY <1>1, RemainderIs
<1>3. QED
  BY <1>2 DEF r

(* A number that crosses one multiple of n upwards loses n.                *)
LEMMA RemainderWraps ==
  ASSUME NEW a \in Int, NEW n \in Nat \ {0}, NEW k \in Int,
         (a % n) + k - n \in 0 .. n - 1
  PROVE  (a + k) % n = (a % n) + k - n
<1> DEFINE d == a \div n
           q == d + 1
           r == (a % n) + k - n
<1>1. d \in Int /\ r \in 0 .. n - 1 /\ a + k = (d * n + n) + r
  BY Remainder
<1>2. q \in Int /\ q * n = d * n + n
  BY <1>1, Multiples
<1> HIDE DEF q, r
<1>3. (a + k) % n = r
  BY <1>1, <1>2, RemainderIs
<1>4. QED
  BY <1>3 DEF r

(* A number of less than a word is its own remainder.                      *)
LEMMA SmallRemainder ==
  ASSUME NEW n \in Nat \ {0}, NEW a \in 0 .. n - 1
  PROVE  a % n = a
<1>1. (0 * n + a) % n = a
  BY RemainderIs
<1>2. QED
  BY <1>1

-----------------------------------------------------------------------------
(* What moves the break.                                                   *)

(* Every page of the pool lies behind the descriptors and ends within the  *)
(* memory the pool was given, also when the guest has given that back.     *)
PoolInside ==
  InMemory =>
    \A p \in pool.pages :
      pool.head + POOL_HEAD <= p /\ p + PAGE_SIZE <= pool.head + pool.size

(* The inductive invariant.                                                *)
HeapInv == TypeOK /\ ExtentsApart /\ PoolInside /\ PoolHasAPage

(* The parts of HeapInv that speak of the break and the extents.           *)
BreakInv ==
  /\ brk \in Nat /\ wrapped \in BOOLEAN
  /\ extents \subseteq (0 .. WORD - 1) \X (1 .. WORD - 1)
  /\ ExtentsApart

(* The part that speaks of the pool.                                       *)
PoolInv ==
  /\ pool \in [head : 0 .. WORD - 1, size : 0 .. WORD - 1, first : 0 .. WORD - 1,
                pages : SUBSET (0 .. WORD - 1)]
  /\ PoolInside /\ PoolHasAPage

LEMMA HeapInvParts == HeapInv <=> BreakInv /\ PoolInv
BY DEF HeapInv, BreakInv, PoolInv, TypeOK

(* The guest's break is a word.                                            *)
LEMMA BreakIsWord ==
  BreakInv => /\ Break \in 0 .. WORD - 1 /\ WORD \in Nat \ {0}
              /\ PAGE_SIZE \in Nat \ {0} /\ POOL_HEAD \in Nat \ {0}
              /\ MemSize \in Nat /\ MemSize + POOL_HEAD + PAGE_SIZE <= WORD
BY HeapAssumption, Remainder DEF BreakInv, Break

(* What a rise of the break hands out is typed, also around the last       *)
(* address, and is one extent up to there.                                 *)
LEMMA TakenTyped ==
  ASSUME BreakInv, NEW incr \in 0 .. WORD - 1
  PROVE  Taken(Break + incr) \subseteq (0 .. WORD - 1) \X (1 .. WORD - 1)
<1>1. Break \in 0 .. WORD - 1 /\ WORD \in Nat \ {0}
  BY BreakIsWord
<1> DEFINE top == Break + incr
<1>2. ASSUME top < WORD, NEW e \in Taken(top) PROVE e = <<Break, top - Break>> /\ top > Break
  BY <1>1, <1>2 DEF Taken
<1>3. ASSUME ~ (top < WORD), NEW e \in Taken(top)
      PROVE  e = <<Break, WORD - Break>> \/ (e = <<0, top - WORD>> /\ top - WORD > 0)
  BY <1>1, <1>3 DEF Taken
<1>4. ~ (top < WORD) => Break > 0
  BY <1>1
<1>5. top \in Int /\ top < Break + WORD
  BY <1>1
<1> HIDE DEF top
<1>6. ASSUME NEW e \in Taken(top) PROVE e \in (0 .. WORD - 1) \X (1 .. WORD - 1)
  <2>1. CASE top < WORD
    BY <1>1, <1>2, <1>5, <2>1
  <2>2. CASE ~ (top < WORD)
    BY <1>1, <1>3, <1>4, <1>5, <2>2
  <2>3. QED
    BY <2>1, <2>2
<1>7. QED
  BY <1>6 DEF top

LEMMA TakenIs ==
  ASSUME BreakInv, NEW top \in Nat, top < WORD, Break <= top
  PROVE  /\ \A e \in Taken(top) : e = <<Break, top - Break>> /\ top > Break
         /\ top > Break => <<Break, top - Break>> \in Taken(top)
<1>1. Break \in 0 .. WORD - 1 /\ WORD \in Nat \ {0}
  BY BreakIsWord
<1>2. QED
  BY <1>1 DEF Taken

(* The memory between the old break and the new one is new to the guest.   *)
LEMMA RisingBreak ==
  ASSUME BreakInv, ~ wrapped, NEW top \in Nat, Break <= top, top < WORD,
         brk' \in Nat, ~ wrapped', wrapped' \in BOOLEAN, Break' = top, extents' = extents \cup Taken(top)
  PROVE  BreakInv'
<1>1. Break \in Nat /\ WORD \in Nat
  BY BreakIsWord
<1>2. \A e \in extents' : e \in extents \/ (e = <<Break, top - Break>> /\ top > Break)
  BY TakenIs
<1>3. extents \subseteq (0 .. WORD - 1) \X (1 .. WORD - 1)
  BY DEF BreakInv
<1>4. ASSUME NEW e \in extents' PROVE e \in (0 .. WORD - 1) \X (1 .. WORD - 1) /\ e[1] + e[2] <= top
  <2>1. CASE e \in extents
    BY <1>1, <1>3, <2>1 DEF BreakInv, ExtentsApart
  <2>2. CASE e = <<Break, top - Break>> /\ top > Break
    BY <1>1, <2>2
  <2>3. QED
    BY <1>2, <2>1, <2>2
<1>5. ASSUME NEW e \in extents', NEW f \in extents', e # f
      PROVE  Apart(e[1], e[2], f[1], f[2])
  <2>1. CASE e \in extents /\ f \in extents
    BY <1>5, <2>1 DEF BreakInv, ExtentsApart
  <2>2. CASE e \in extents /\ f = <<Break, top - Break>>
    BY <1>1, <1>3, <2>2 DEF BreakInv, ExtentsApart, Apart
  <2>3. CASE f \in extents /\ e = <<Break, top - Break>>
    BY <1>1, <1>3, <2>3 DEF BreakInv, ExtentsApart, Apart
  <2>4. QED
    BY <1>2, <1>5, <2>1, <2>2, <2>3
<1>6. QED
  BY <1>1, <1>4, <1>5 DEF BreakInv, ExtentsApart

(* What lies below the new break stays as it was.                          *)
LEMMA FallingBreak ==
  ASSUME BreakInv, ~ wrapped, NEW top \in Nat,
         brk' \in Nat, ~ wrapped', wrapped' \in BOOLEAN, Break' = top, extents' = KeptBelow(top)
  PROVE  BreakInv'
BY DEF BreakInv, ExtentsApart, KeptBelow, Apart

(* Once it has passed address 0, only the types are left.                  *)
LEMMA WrappedKeeps ==
  ASSUME brk' \in Nat, wrapped', wrapped' \in BOOLEAN,
         extents' \subseteq (0 .. WORD - 1) \X (1 .. WORD - 1)
  PROVE  BreakInv'
BY DEF BreakInv, ExtentsApart

(* What sbrk, brk and mem_init are given are words.                        *)
LEMMA Inputs ==
  /\ \A incr \in Increments : incr \in 0 .. WORD - 1
  /\ \A addr \in Breaks : addr \in 0 .. WORD - 1
  /\ \A size \in Sizes : size \in 0 .. WORD - 1
BY HeapAssumption

(* sbrk keeps the extents apart while the break stays on its side of       *)
(* address 0: both breaks then move alike, by the increment or by it less  *)
(* a word.                                                                 *)
LEMMA MoveBreakKeeps ==
  ASSUME BreakInv, NEW incr \in 0 .. WORD - 1, MoveBreak(incr)
  PROVE  BreakInv'
<1>1. /\ Break \in 0 .. WORD - 1 /\ WORD \in Nat \ {0} /\ brk \in Nat /\ incr \in Nat
      /\ brk' = brk + incr /\ brk' \in Nat
      /\ wrapped \in BOOLEAN
  BY BreakIsWord DEF BreakInv, MoveBreak
<1>2. /\ wrapped' = (wrapped \/ ((incr \in Negative) # (Break + incr >= WORD)))
      /\ wrapped' \in BOOLEAN
  BY <1>1 DEF MoveBreak
<1>3. /\ wrapped => extents' = extents
      /\ ~ wrapped /\ incr \in Negative => extents' = KeptBelow(Break + incr - WORD)
      /\ ~ wrapped /\ incr \notin Negative => extents' = extents \cup Taken(Break + incr)
  BY DEF MoveBreak, Own
<1>4. CASE wrapped'
  <2>1. extents' \subseteq extents \cup Taken(Break + incr)
    BY <1>3 DEF KeptBelow
  <2>2. extents' \subseteq (0 .. WORD - 1) \X (1 .. WORD - 1)
    BY <2>1, TakenTyped DEF BreakInv
  <2>3. QED
    BY <1>1, <1>2, <1>4, <2>2, WrappedKeeps
<1>5. CASE ~ wrapped' /\ incr \in Negative
  <2> DEFINE top == Break + incr - WORD
  <2>1. ~ wrapped /\ Break + incr >= WORD /\ ~ wrapped'
    BY <1>2, <1>5
  <2>2. top \in 0 .. WORD - 1
    BY <1>1, <2>1
  <2>3. /\ brk \in Int /\ incr \in Int /\ WORD \in Nat \ {0}
        /\ (brk % WORD) + incr - WORD \in 0 .. WORD - 1
    BY <1>1, <2>2 DEF Break
  <2>4. (brk + incr) % WORD = (brk % WORD) + incr - WORD
    BY <2>3, RemainderWraps, Zenon
  <2>5. Break' = top
    BY <1>1, <2>4 DEF Break
  <2>6. extents' = KeptBelow(top)
    BY <1>3, <1>5, <2>1
  <2> HIDE DEF top
  <2>7. QED
    BY <1>1, <1>2, <2>1, <2>2, <2>5, <2>6, FallingBreak
<1>6. CASE ~ wrapped' /\ incr \notin Negative
  <2> DEFINE top == Break + incr
  <2>1. ~ wrapped /\ ~ (Break + incr >= WORD) /\ ~ wrapped'
    BY <1>2, <1>6
  <2>2. top \in 0 .. WORD - 1 /\ Break <= top
    BY <1>1, <2>1
  <2>3. /\ brk \in Int /\ incr \in Int /\ WORD \in Nat \ {0}
        /\ (brk % WORD) + incr \in 0 .. WORD - 1
    BY <1>1, <2>2 DEF Break
  <2>4. (brk + incr) % WORD = (brk % WORD) + incr
    BY <2>3, RemainderMoves, Zenon
  <2>5. Break' = top
    BY <1>1, <2>4 DEF Break
  <2>6. extents' = extents \cup Taken(top)
    BY <1>3, <1>6, <2>1
  <2>7. top \in Nat /\ top < WORD
    BY <1>1, <2>2
  <2> HIDE DEF top
  <2>8. QED
    BY <1>1, <1>2, <2>1, <2>2, <2>5, <2>6, <2>7, RisingBreak
<1>7. QED
  BY <1>4, <1>5, <1>6

LEMMA SbrkKeeps ==
  ASSUME BreakInv, NEW incr \in Increments, Sbrk(incr)
  PROVE  BreakInv'
BY MoveBreakKeeps, Inputs DEF Sbrk

LEMMA BrkKeeps ==
  ASSUME BreakInv, NEW addr \in Breaks, Brk(addr)
  PROVE  BreakInv'
<1>1. /\ addr \in 0 .. WORD - 1 /\ Break \in 0 .. WORD - 1 /\ WORD \in Nat \ {0}
      /\ wrapped \in BOOLEAN /\ wrapped' = wrapped
  BY Inputs, BreakIsWord DEF Brk, BreakInv
<1>2. brk' \in Nat /\ Break' = addr
  BY <1>1, SmallRemainder DEF Brk, Break
<1>3. CASE wrapped
  <2>1. extents' = extents
    BY <1>3 DEF Brk, Own
  <2>2. QED
    BY <1>1, <1>2, <1>3, <2>1, WrappedKeeps DEF BreakInv
<1>4. CASE ~ wrapped /\ addr >= Break
  <2>1. extents' = extents \cup Taken(addr)
    BY <1>4 DEF Brk, Own
  <2>2. ~ wrapped /\ ~ wrapped' /\ wrapped' \in BOOLEAN
    BY <1>1, <1>4
  <2>3. QED
    BY <1>1, <1>2, <1>4, <2>1, <2>2, RisingBreak
<1>5. CASE ~ wrapped /\ ~ (addr >= Break)
  <2>1. extents' = KeptBelow(addr)
    BY <1>5 DEF Brk, Own
  <2>2. ~ wrapped /\ ~ wrapped' /\ wrapped' \in BOOLEAN
    BY <1>1, <1>5
  <2>3. QED
    BY <1>1, <1>2, <1>5, <2>1, <2>2, FallingBreak
<1>6. QED
  BY <1>3, <1>4, <1>5

-----------------------------------------------------------------------------
(* The pool.                                                               *)

(* The first page boundary behind the descriptors, as long as no address   *)
(* of its computation leaves the word.                                     *)
LEMMA FirstPageIs ==
  ASSUME NEW addr \in Nat, addr <= MemSize
  PROVE  /\ FirstPage(addr) \in 0 .. WORD - 1
         /\ addr + POOL_HEAD <= FirstPage(addr)
         /\ FirstPage(addr) < addr + POOL_HEAD + PAGE_SIZE
<1> DEFINE x == addr + POOL_HEAD + PAGE_SIZE - 1
           f == (x \div PAGE_SIZE) * PAGE_SIZE
<1>1. /\ x \in Nat /\ PAGE_SIZE \in Nat \ {0} /\ POOL_HEAD \in Nat /\ WORD \in Nat \ {0}
      /\ x < WORD
  BY HeapAssumption
<1>2. x \div PAGE_SIZE \in Int /\ (x % PAGE_SIZE) \in 0 .. PAGE_SIZE - 1 /\ x = f + (x % PAGE_SIZE)
  BY <1>1, Remainder
<1>3. f \in Int
  BY <1>1, <1>2, Multiples
<1>4. f <= x /\ x < f + PAGE_SIZE
  BY <1>1, <1>2, <1>3
<1>5. addr + POOL_HEAD <= f /\ f < addr + POOL_HEAD + PAGE_SIZE
  <2> HIDE DEF f
  <2>1. QED
    BY <1>1, <1>3, <1>4
<1>6. f \in 0 .. WORD - 1
  <2> HIDE DEF f
  <2>1. QED
    BY <1>1, <1>3, <1>4, <1>5
<1>7. FirstPage(addr) = f
  BY <1>1, <1>6, SmallRemainder DEF FirstPage
<1>8. QED
  BY <1>5, <1>6, <1>7

(* Elsewhere it is a word all the same.                                    *)
LEMMA FirstPageIsWord ==
  ASSUME NEW addr \in Nat
  PROVE  FirstPage(addr) \in 0 .. WORD - 1
<1> DEFINE x == addr + POOL_HEAD + PAGE_SIZE - 1
           d == x \div PAGE_SIZE
<1>1. x \in Int /\ PAGE_SIZE \in Nat \ {0} /\ WORD \in Nat \ {0}
  BY HeapAssumption
<1>2. d \in Int
  BY <1>1, Remainder
<1>3. FirstPage(addr) = (d * PAGE_SIZE) % WORD
  BY DEF FirstPage
<1> HIDE DEF d
<1>4. d * PAGE_SIZE \in Int
  BY <1>1, <1>2, Multiples
<1>5. QED
  BY <1>1, <1>3, <1>4, Remainder

(* What the loop links.                                                    *)
LEMMA LinkedIs ==
  ASSUME NEW first \in 0 .. WORD - 1, NEW end \in 0 .. WORD - 1
  PROVE  /\ \A p \in Linked(first, end) : p \in 0 .. WORD - 1 /\ first <= p /\ p + PAGE_SIZE <= end
         /\ first + PAGE_SIZE < end => first \in Linked(first, end)
<1>1. WORD \in Nat \ {0} /\ PAGE_SIZE \in Nat \ {0}
  BY HeapAssumption
<1>2. ASSUME NEW p \in Linked(first, end)
      PROVE  p \in 0 .. WORD - 1 /\ first <= p /\ p + PAGE_SIZE <= end
  <2>1. PICK j \in 0 .. WORD : /\ first + (j + 1) * PAGE_SIZE < end
                                /\ p = first + j * PAGE_SIZE
    BY DEF Linked
  <2>2. j * PAGE_SIZE \in Int /\ (j + 1) * PAGE_SIZE = j * PAGE_SIZE + PAGE_SIZE /\ 0 <= j * PAGE_SIZE
    BY <1>1, Multiples
  <2>3. QED
    BY <1>1, <2>1, <2>2
<1>3. ASSUME first + PAGE_SIZE < end PROVE first \in Linked(first, end)
  <2>1. 0 \in 0 .. WORD /\ first + (0 + 1) * PAGE_SIZE < end /\ first = first + 0 * PAGE_SIZE
    BY <1>1, <1>3
  <2>2. QED
    BY <2>1 DEF Linked
<1>4. QED
  BY <1>2, <1>3

(* Whatever the break and the size, a pool pool_create sets up in memory   *)
(* the guest has stays within what it was given, and has a page when that  *)
(* is enough for two.                                                      *)
LEMMA PoolCreateKeeps ==
  ASSUME NEW addr \in 0 .. WORD - 1, NEW size \in 0 .. WORD - 1, pool' = PoolCreate(addr, size)
  PROVE  PoolInv'
<1>1. /\ PAGE_SIZE \in Nat \ {0} /\ POOL_HEAD \in Nat \ {0} /\ WORD \in Nat \ {0}
      /\ MemSize \in Nat /\ MemSize + POOL_HEAD + PAGE_SIZE <= WORD
  BY HeapAssumption
<1>2. CASE pool' = NoPool
  BY <1>1, <1>2 DEF NoPool, PoolInv, PoolInside, PoolHasAPage
<1>3. CASE pool' # NoPool
  <2> DEFINE first == FirstPage(addr)
             end == (addr + size) % WORD
  <2>1. pool' = [head |-> addr, size |-> size, first |-> first, pages |-> Linked(first, end)]
    BY <1>3 DEF PoolCreate
  <2>2. first \in 0 .. WORD - 1 /\ end \in 0 .. WORD - 1
    <3>1. addr \in Nat /\ addr + size \in Int
      BY <1>1
    <3>2. QED
      BY <1>1, <3>1, FirstPageIsWord, Remainder
  <2>3. ASSUME addr + size <= MemSize
        PROVE  /\ addr + POOL_HEAD <= first /\ first < addr + POOL_HEAD + PAGE_SIZE
               /\ end = addr + size
    <3>1. addr \in Nat /\ addr <= MemSize /\ addr + size \in 0 .. WORD - 1
      BY <1>1, <2>3
    <3>2. QED
      BY <1>1, <3>1, FirstPageIs, SmallRemainder
  <2> HIDE DEF first, end
  <2>4. Linked(first, end) \subseteq 0 .. WORD - 1
    BY <2>2, LinkedIs
  <2>5. PoolInside'
    BY <1>1, <2>1, <2>2, <2>3, LinkedIs DEF PoolInside, InMemory
  <2>6. PoolHasAPage'
    BY <1>1, <2>1, <2>2, <2>3, LinkedIs DEF PoolHasAPage, InMemory
  <2>7. QED
    BY <2>1, <2>2, <2>4, <2>5, <2>6 DEF PoolInv
<1>4. QED
  BY <1>2, <1>3

LEMMA MemInitKeeps ==
  ASSUME BreakInv, NEW size \in Sizes, MemInit(size)
  PROVE  BreakInv' /\ PoolInv'
<1>1. size \in 0 .. WORD - 1 /\ Break \in 0 .. WORD - 1
  BY Inputs, BreakIsWord
<1>2. QED
  BY <1>1, MoveBreakKeeps, PoolCreateKeeps DEF MemInit

-----------------------------------------------------------------------------
(* The theorems.                                                           *)

LEMMA HeapInvInit == Init => HeapInv
<1>1. SUFFICES ASSUME Init PROVE HeapInv
  OBVIOUS
<1>2. BreakInv
  <2>1. brk \in Nat /\ extents = {}
    BY <1>1, HeapAssumption DEF Init
  <2>2. wrapped \in BOOLEAN
    BY <1>1 DEF Init
  <2>3. ExtentsApart
    BY <2>1 DEF ExtentsApart
  <2>4. QED
    BY <2>1, <2>2, <2>3 DEF BreakInv
<1>3. PoolInv
  BY <1>1, HeapAssumption DEF Init, NoPool, PoolInv, PoolInside, PoolHasAPage
<1>4. QED
  BY <1>2, <1>3, HeapInvParts

LEMMA HeapInvNext == HeapInv /\ [Next]_vars => HeapInv'
<1>1. SUFFICES ASSUME BreakInv, PoolInv, [Next]_vars PROVE BreakInv' /\ PoolInv'
  BY DEF HeapInv, BreakInv, PoolInv, TypeOK
<1>2. ASSUME UNCHANGED pool PROVE PoolInv'
  BY <1>1, <1>2 DEF PoolInv, PoolInside, PoolHasAPage, InMemory
<1>3. CASE UNCHANGED vars
  BY <1>1, <1>2, <1>3 DEF vars, BreakInv, ExtentsApart, Break
<1>4. ASSUME NEW incr \in Increments, Sbrk(incr) PROVE BreakInv' /\ PoolInv'
  BY <1>1, <1>2, <1>4, SbrkKeeps DEF Sbrk
<1>5. ASSUME NEW addr \in Breaks, Brk(addr) PROVE BreakInv' /\ PoolInv'
  BY <1>1, <1>2, <1>5, BrkKeeps DEF Brk
<1>6. ASSUME NEW size \in Sizes, MemInit(size) PROVE BreakInv' /\ PoolInv'
  BY <1>1, <1>6, MemInitKeeps
<1>7. QED
  BY <1>1, <1>3, <1>4, <1>5, <1>6 DEF Next, SbrkRefused, BrkRefused, MemInitRefused

(* HeapInv holds of every state the heap can be in.                        *)
THEOREM HeapInvariant == Spec => []HeapInv
BY HeapInvInit, HeapInvNext, PTL DEF Spec

(* Whatever the guest passes to sbrk, brk and mem_init, extents and pools  *)
(* are given as guest addresses.                                           *)
THEOREM HeapTypeOK == Spec => []TypeOK
<1>1. HeapInv => TypeOK
  BY DEF HeapInv
<1>2. QED
  BY <1>1, HeapInvariant, PTL

(* However often and wherever the guest moves its break, sbrk never hands  *)
(* out memory the guest still owns, as long as it has not moved the break  *)
(* past address 0.                                                         *)
THEOREM HeapExtentsApart == Spec => []ExtentsApart
<1>1. HeapInv => ExtentsApart
  BY DEF HeapInv
<1>2. QED
  BY <1>1, HeapInvariant, PTL

(* Pages inside the memory of their pool touch nothing else.               *)
LEMMA HeapInvSetUp == HeapInv => PoolSetUp
<1>1. SUFFICES ASSUME BreakInv, PoolInv, ~ wrapped, InMemory,
                      <<pool.head, pool.size>> \in extents,
                      NEW p \in pool.pages,
                      NEW e \in extents \ {<<pool.head, pool.size>>}
               PROVE  Apart(p, PAGE_SIZE, e[1], e[2])
  BY HeapInvParts DEF PoolSetUp, PoolIsItsOwn, HeapInv, PoolInside
<1>2. /\ p \in Nat /\ e[1] \in Nat /\ e[2] \in Nat /\ pool.head \in Nat /\ pool.size \in Nat
      /\ PAGE_SIZE \in Nat /\ POOL_HEAD \in Nat
  BY <1>1, HeapAssumption DEF BreakInv, PoolInv
<1>3. Apart(pool.head, pool.size, e[1], e[2])
  <2> DEFINE own == <<pool.head, pool.size>>
  <2>1. own # e => Apart(own[1], own[2], e[1], e[2])
    BY <1>1 DEF BreakInv, ExtentsApart
  <2>2. QED
    BY <2>1
<1>4. pool.head + POOL_HEAD <= p /\ p + PAGE_SIZE <= pool.head + pool.size
  BY <1>1 DEF PoolInv, PoolInside
<1>5. QED
  BY <1>2, <1>3, <1>4 DEF Apart

(* mem_init sets its pool up in memory of its own, wherever the break      *)
(* stood, and with a page where two pages were asked for.                  *)
THEOREM HeapPoolSetUp == Spec => []PoolSetUp
BY HeapInvSetUp, HeapInvariant, PTL

-----------------------------------------------------------------------------
(* GuestMalloc.                                                            *)

(* Natural numbers.                                                        *)

(* A set of natural numbers that is not empty has a least one.             *)
LEMMA LeastNatural ==
  ASSUME NEW S \in SUBSET Nat, S # {}
  PROVE  \E x \in S : \A y \in S : x <= y
<1> DEFINE R == {ss \in Nat \X Nat : ss[1] < ss[2]}
<1>1. OpToRel(<, Nat) = R
  BY DEF OpToRel
<1>2. IsWellFoundedOn(R, Nat)
  BY <1>1, NatLessThanWellFounded
<1>3. \A x, y \in Nat : <<x, y>> \in R <=> x < y
  OBVIOUS
<1> HIDE DEF R
<1>4. PICK x \in S : \A y \in S : ~ (<<y, x>> \in R)
  BY <1>2, WFMin
<1>5. ASSUME NEW y \in S PROVE x <= y
  <2>1. x \in Nat /\ y \in Nat
    OBVIOUS
  <2>2. ~ (y < x)
    BY <1>3, <1>4, <2>1
  <2>3. QED
    BY <2>1, <2>2
<1>6. QED
  BY <1>5

(* The minimum the library defines is one of the numbers.                  *)
LEMMA MinIn ==
  ASSUME NEW S \in SUBSET Nat, S # {}
  PROVE  Min(S) \in S
BY LeastNatural DEF Min

-----------------------------------------------------------------------------
(* Runs of pages.                                                          *)

(* A page of a run lies within it.                                         *)
LEMMA PageInRun ==
  ASSUME NEW p \in Nat, NEW s \in Nat \ {0}, NEW n \in Nat \ {0}, NEW i \in 0 .. n - 1
  PROVE  /\ i * s \in Nat /\ n * s \in Nat \ {0} /\ s <= n * s
         /\ p <= p + i * s
         /\ p + i * s + s <= p + n * s
<1>1. i * s \in Nat
  BY Multiples
<1>2. (i + 1) * s = i * s + s /\ (i + 1) * s <= n * s /\ n * s \in Int
  BY Multiples
<1>3. QED
  BY <1>1, <1>2

(* A byte of a run of pages lies in one of them.                           *)
LEMMA ByteInPage ==
  ASSUME NEW p \in Nat, NEW x \in Nat, NEW s \in Nat \ {0}, NEW n \in Nat,
         p <= x, x < p + n * s
  PROVE  \E i \in 0 .. n - 1 : i * s \in Nat /\ p + i * s <= x /\ x < p + i * s + s
<1> DEFINE i == (x - p) \div s
<1>1. /\ i \in Nat
      /\ i * s <= x - p
      /\ x - p < i * s + s
  OBVIOUS
<1>2. i < n
  <2>1. i * s < n * s
    BY <1>1, Multiples
  <2>2. QED
    BY <1>1, <2>1, Multiples
<1>3. i \in 0 .. n - 1 /\ i * s \in Nat
  BY <1>1, <1>2, Multiples
<1>4. p + i * s <= x /\ x < p + i * s + s
  BY <1>1, <1>3
<1> HIDE DEF i
<1>5. QED
  BY <1>3, <1>4

(* What is apart from every page of a run is apart from the run.           *)
LEMMA RunApart ==
  ASSUME NEW p \in Nat, NEW s \in Nat \ {0}, NEW n \in Nat \ {0},
         NEW x \in Nat, NEW m \in Nat \ {0},
         \A i \in 0 .. n - 1 : Apart(p + i * s, s, x, m)
  PROVE  Apart(p, n * s, x, m)
<1>1. n * s \in Nat \ {0}
  BY Multiples
<1>2. SUFFICES ASSUME x < p + n * s, p < x + m PROVE FALSE
  BY <1>1 DEF Apart
<1> DEFINE y == IF p <= x THEN x ELSE p
<1>3. y \in Nat /\ p <= y /\ y < p + n * s /\ x <= y /\ y < x + m
  BY <1>1, <1>2
<1> HIDE DEF y
<1>4. PICK i \in 0 .. n - 1 : i * s \in Nat /\ p + i * s <= y /\ y < p + i * s + s
  BY <1>3, ByteInPage
<1>5. Apart(p + i * s, s, x, m)
  OBVIOUS
<1>6. QED
  BY <1>3, <1>4, <1>5 DEF Apart

(* A page of a run is apart from what the run is apart from.               *)
LEMMA PageApart ==
  ASSUME NEW p \in Nat, NEW s \in Nat \ {0}, NEW n \in Nat \ {0}, NEW i \in 0 .. n - 1,
         NEW x \in Nat, NEW m \in Nat, Apart(p, n * s, x, m)
  PROVE  Apart(p + i * s, s, x, m)
BY PageInRun DEF Apart

(* Two pages of a run are apart.                                           *)
LEMMA PagesApart ==
  ASSUME NEW p \in Nat, NEW s \in Nat \ {0}, NEW i \in Nat, NEW j \in Nat, i # j
  PROVE  Apart(p + i * s, s, p + j * s, s)
<1>1. i * s \in Nat /\ j * s \in Nat
  BY Multiples
<1>2. CASE i < j
  <2>1. (i + 1) * s = i * s + s /\ (i + 1) * s <= j * s
    BY <1>2, Multiples
  <2>2. QED
    BY <1>1, <2>1 DEF Apart
<1>3. CASE j < i
  <2>1. (j + 1) * s = j * s + s /\ (j + 1) * s <= i * s
    BY <1>3, Multiples
  <2>2. QED
    BY <1>1, <2>1 DEF Apart
<1>4. QED
  BY <1>2, <1>3

(* The pages of a run.                                                     *)
LEMMA PagesOfRun ==
  ASSUME NEW p \in Nat, NEW n \in Nat \ {0}
  PROVE  /\ \A q \in PagesFrom(p, n) : \E i \in 0 .. n - 1 : q = p + i * PAGE_SIZE
         /\ \A i \in 0 .. n - 1 : p + i * PAGE_SIZE \in PagesFrom(p, n)
BY DEF PagesFrom

-----------------------------------------------------------------------------
(* The inductive invariant.                                                *)

(* m bytes from x on lie in an extent of mem_init, behind its first byte:  *)
(* a pool's descriptors come before its pages.                             *)
InKept(x, m) == \E e \in kept : e[1] < x /\ x + m <= e[1] + e[2]

(* They do so, and the descriptors of the pool in use are elsewhere.       *)
Placed(x, m) == InKept(x, m) /\ (pool # NoPool => Apart(x, m, pool.head, POOL_HEAD))

MallocTypeOK ==
  /\ free \subseteq 0 .. WORD - 1
  /\ held \subseteq (0 .. WORD - 1) \X (Nat \ {0})
  /\ astray \in BOOLEAN
  /\ kept \subseteq extents
  /\ astray => free = {} /\ held = {} /\ kept = {}
  /\ wrapped => astray

PagesInv ==
  /\ \A p \in free : Placed(p, PAGE_SIZE)
  /\ \A p, q \in free : p = q \/ Apart(p, PAGE_SIZE, q, PAGE_SIZE)

HeldInv ==
  /\ \A b \in held : Placed(b[1], b[2] * PAGE_SIZE)
  /\ \A b, c \in held : b = c \/ Apart(b[1], b[2] * PAGE_SIZE, c[1], c[2] * PAGE_SIZE)
  /\ \A p \in free, b \in held : Apart(p, PAGE_SIZE, b[1], b[2] * PAGE_SIZE)

MallocInv == HeapInv /\ MallocTypeOK /\ PagesInv /\ HeldInv /\ PagesKept

(* What is known of the values in a state of MallocInv.                    *)
LEMMA MallocTypes ==
  ASSUME MallocInv
  PROVE  /\ BreakInv /\ PoolInv /\ MallocTypeOK
         /\ PAGE_SIZE \in Nat \ {0} /\ POOL_HEAD \in Nat \ {0}
         /\ \A p \in free : p \in Nat
         /\ \A b \in held : b[1] \in Nat /\ b[2] \in Nat \ {0} /\ b = <<b[1], b[2]>>
         /\ \A e \in extents : e[1] \in Nat /\ e[2] \in Nat \ {0} /\ e = <<e[1], e[2]>>
         /\ pool.head \in Nat
         /\ \A n \in Counts : n \in Nat \ {0}
         /\ wrapped => free = {} /\ held = {} /\ kept = {}
<1>1. BreakInv /\ PoolInv /\ MallocTypeOK
  BY HeapInvParts DEF MallocInv
<1>2. WORD \in Nat \ {0}
  BY HeapAssumption
<1>3. QED
  BY <1>1, <1>2, HeapAssumption, CountAssumption DEF BreakInv, PoolInv, MallocTypeOK

(* A run of free pages does not reach from one extent into another: no     *)
(* page lies at the first byte of its extent.                              *)
LEMMA RunPlaced ==
  ASSUME MallocInv, NEW p \in free, NEW n \in Nat \ {0},
         \A i \in 0 .. n - 1 : p + i * PAGE_SIZE \in free
  PROVE  InKept(p, n * PAGE_SIZE)
<1> DEFINE s == PAGE_SIZE
<1>1. p \in Nat /\ s \in Nat \ {0} /\ n * s \in Nat \ {0}
  BY MallocTypes, Multiples
<1>2. PICK e \in kept : e[1] < p /\ p + s <= e[1] + e[2]
  BY DEF MallocInv, PagesInv, Placed, InKept
<1>3. \A f \in kept : f \in extents /\ f[1] \in Nat /\ f[2] \in Nat \ {0}
  BY MallocTypes DEF MallocTypeOK
<1>4. \A f \in kept : f = e \/ Apart(e[1], e[2], f[1], f[2])
  <2>1. ~ wrapped
    BY MallocTypes
  <2>2. QED
    BY <1>3, <2>1, MallocTypes DEF BreakInv, ExtentsApart
<1>5. SUFFICES ASSUME e[1] + e[2] < p + n * s PROVE FALSE
  BY <1>1, <1>2, <1>3 DEF InKept
<1> DEFINE x == e[1] + e[2]
<1>6. x \in Nat /\ p <= x /\ x < p + n * s
  BY <1>1, <1>2, <1>3, <1>5
<1>7. PICK i \in 0 .. n - 1 : i * s \in Nat /\ p + i * s <= x /\ x < p + i * s + s
  <2> HIDE DEF x, s
  <2>1. QED
    BY <1>1, <1>6, ByteInPage
<1> DEFINE q == p + i * s
<1>8. q \in free
  OBVIOUS
<1>9. PICK f \in kept : f[1] < q /\ q + s <= f[1] + f[2]
  BY <1>8 DEF MallocInv, PagesInv, Placed, InKept
<1>10. q \in Nat /\ p <= q /\ q <= x /\ x < q + s
  BY <1>1, <1>7
<1> HIDE DEF q, s
<1>11. f # e
  BY <1>1, <1>3, <1>9, <1>10
<1>12. Apart(e[1], e[2], f[1], f[2])
  BY <1>4, <1>11
<1>13. QED
  BY <1>1, <1>2, <1>3, <1>9, <1>10, <1>12 DEF Apart

-----------------------------------------------------------------------------
(* malloc and free.                                                        *)

LEMMA MallocKeeps ==
  ASSUME MallocInv, NEW n \in Counts, Malloc(n)
  PROVE  MallocTypeOK' /\ PagesInv' /\ HeldInv' /\ PagesKept'
<1> DEFINE s == PAGE_SIZE
           p == Min(Runs(n))
           new == <<p, n>>
<1>1. /\ s \in Nat \ {0} /\ n \in Nat \ {0} /\ n * s \in Nat \ {0}
      /\ free \in SUBSET Nat /\ Runs(n) \in SUBSET Nat
  BY MallocTypes, Multiples DEF Runs
<1>2. /\ UNCHANGED <<brk, pool, extents, wrapped, kept, astray>> /\ ~ astray
      /\ held' = held \cup {new} /\ free' = free \ PagesFrom(p, n)
  BY DEF Malloc, vars
<1>3. p \in Runs(n)
  BY <1>1, MinIn DEF Malloc
<1> HIDE DEF p
<1>4. p \in free /\ p \in Nat
  BY <1>1, <1>3 DEF Runs
<1>5. \A i \in 0 .. n - 1 : p + i * s \in PagesFrom(p, n)
  BY <1>1, <1>4, PagesOfRun
<1>6. \A i \in 0 .. n - 1 : p + i * s \in free
  <2>1. PagesFrom(p, n) \subseteq PagesFrom(p, IF n = 1 THEN 1 ELSE n + 1)
    BY <1>1 DEF PagesFrom
  <2>2. QED
    BY <1>3, <1>5, <2>1 DEF Runs
<1>7. free' \subseteq free
  BY <1>2
<1>8. MallocTypeOK'
  <2>1. p \in 0 .. WORD - 1
    BY <1>4, MallocTypes DEF MallocTypeOK
  <2>2. QED
    BY <1>1, <1>2, <2>1, MallocTypes DEF MallocTypeOK
<1>9. PagesInv'
  BY <1>2, <1>7 DEF MallocInv, PagesInv, Placed, InKept
<1>10. Placed(p, n * s)
  <2>1. InKept(p, n * s)
    BY <1>1, <1>4, <1>6, RunPlaced
  <2>2. ASSUME pool # NoPool PROVE Apart(p, n * s, pool.head, POOL_HEAD)
    <3>1. pool.head \in Nat /\ POOL_HEAD \in Nat \ {0}
      BY MallocTypes
    <3>2. \A i \in 0 .. n - 1 : Apart(p + i * s, s, pool.head, POOL_HEAD)
      BY <1>6, <2>2 DEF MallocInv, PagesInv, Placed
    <3> HIDE DEF s
    <3>3. QED
      BY <1>1, <1>4, <3>1, <3>2, RunApart
  <2>3. QED
    BY <2>1, <2>2 DEF Placed
<1>11. ASSUME NEW b \in held PROVE Apart(p, n * s, b[1], b[2] * s)
  <2>1. b[1] \in Nat /\ b[2] * s \in Nat \ {0}
    BY <1>1, MallocTypes, Multiples
  <2>2. \A i \in 0 .. n - 1 : Apart(p + i * s, s, b[1], b[2] * s)
    BY <1>6 DEF MallocInv, HeldInv
  <2> DEFINE m == b[2] * s
  <2> HIDE DEF s, m
  <2>3. m \in Nat \ {0} /\ \A i \in 0 .. n - 1 : Apart(p + i * s, s, b[1], m)
    BY <2>1, <2>2 DEF m
  <2>4. Apart(p, n * s, b[1], m)
    BY <1>1, <1>4, <2>1, <2>3, RunApart
  <2>5. QED
    BY <2>4 DEF m
<1>12. ASSUME NEW q \in free' PROVE Apart(q, s, p, n * s)
  <2>1. q \in free /\ q \in Nat
    BY <1>1, <1>7
  <2>2. \A i \in 0 .. n - 1 : q # p + i * s
    BY <1>2, <1>5
  <2>3. \A i \in 0 .. n - 1 : Apart(p + i * s, s, q, s)
    BY <1>6, <2>1, <2>2 DEF MallocInv, PagesInv
  <2> HIDE DEF s
  <2>4. Apart(p, n * s, q, s)
    BY <1>1, <1>4, <2>1, <2>3, RunApart
  <2>5. QED
    BY <2>4 DEF Apart
<1>13. HeldInv'
  <2>1. ASSUME NEW b \in held' PROVE Placed(b[1], b[2] * s)'
    BY <1>2, <1>10 DEF MallocInv, HeldInv, Placed, InKept
  <2>2. ASSUME NEW b \in held', NEW c \in held', b # c
        PROVE  Apart(b[1], b[2] * s, c[1], c[2] * s)
    <3>1. CASE b \in held /\ c \in held
      BY <2>2, <3>1 DEF MallocInv, HeldInv
    <3>2. CASE b = new /\ c \in held
      BY <1>11, <3>2
    <3>3. CASE b \in held /\ c = new
      BY <1>11, <3>3 DEF Apart
    <3>4. QED
      BY <1>2, <2>2, <3>1, <3>2, <3>3
  <2>3. ASSUME NEW q \in free', NEW b \in held' PROVE Apart(q, s, b[1], b[2] * s)
    <3>1. CASE b \in held
      BY <1>7, <3>1 DEF MallocInv, HeldInv
    <3>2. CASE b = new
      BY <1>12, <3>2
    <3>3. QED
      BY <1>2, <3>1, <3>2
  <2>4. QED
    BY <2>1, <2>2, <2>3 DEF HeldInv
<1>14. PagesKept'
  <2>1. SUFFICES ASSUME NEW q \in pool.pages, q \notin free'
                 PROVE  \E b \in held' : q \in PagesFrom(b[1], b[2])
    BY <1>2 DEF PagesKept
  <2>2. CASE q \in free
    <3>1. q \in PagesFrom(p, n) /\ new \in held'
      BY <1>2, <2>1, <2>2
    <3>2. q \in PagesFrom(new[1], new[2])
      BY <3>1
    <3>3. QED
      BY <3>1, <3>2
  <2>3. CASE q \notin free
    <3>1. PICK b \in held : q \in PagesFrom(b[1], b[2])
      BY <1>2, <2>1, <2>3 DEF MallocInv, PagesKept
    <3>2. QED
      BY <1>2, <3>1
  <2>4. QED
    BY <2>2, <2>3
<1>15. QED
  BY <1>8, <1>9, <1>13, <1>14

LEMMA FreeKeeps ==
  ASSUME MallocInv, NEW b \in held, Free(b), pool # NoPool
  PROVE  MallocTypeOK' /\ PagesInv' /\ HeldInv' /\ PagesKept'
<1> DEFINE s == PAGE_SIZE
           p == b[1]
           n == b[2]
<1>1. s \in Nat \ {0} /\ p \in Nat /\ n \in Nat \ {0} /\ n * s \in Nat \ {0}
  BY MallocTypes, Multiples
<1>2. /\ UNCHANGED <<brk, pool, extents, wrapped, kept, astray>> /\ ~ astray
      /\ held' = held \ {b} /\ free' = free \cup PagesFrom(p, n)
  BY DEF Free, vars
<1>3. \A q \in PagesFrom(p, n) : \E i \in 0 .. n - 1 : q = p + i * s
  BY <1>1, PagesOfRun
<1>4. Placed(p, n * s)
  BY DEF MallocInv, HeldInv
<1>5. ASSUME NEW q \in PagesFrom(p, n) PROVE Placed(q, s) /\ p <= q /\ q + s <= p + n * s /\ q \in Nat
  <2>1. PICK i \in 0 .. n - 1 : q = p + i * s
    BY <1>3
  <2>2. i * s \in Nat /\ p <= q /\ q + s <= p + n * s
    BY <1>1, <2>1, PageInRun
  <2>3. pool.head \in Nat /\ POOL_HEAD \in Nat
    BY MallocTypes
  <2>4. q \in Nat
    BY <1>1, <2>1, <2>2
  <2>5. \A e \in kept : e[1] \in Nat /\ e[2] \in Nat
    BY MallocTypes DEF MallocTypeOK
  <2> DEFINE m == n * s
  <2>6. m \in Nat /\ Placed(p, m) /\ q + s <= p + m
    BY <1>1, <1>4, <2>2
  <2> HIDE DEF m, s, p
  <2>7. Placed(q, s)
    <3>1. InKept(q, s)
      BY <1>1, <2>2, <2>4, <2>5, <2>6 DEF Placed, InKept
    <3>2. pool # NoPool => Apart(q, s, pool.head, POOL_HEAD)
      BY <1>1, <2>2, <2>3, <2>4, <2>6 DEF Placed, Apart
    <3>3. QED
      BY <3>1, <3>2 DEF Placed
  <2>8. QED
    BY <2>2, <2>4, <2>7
<1>6. MallocTypeOK'
  <2>1. ASSUME NEW q \in PagesFrom(p, n) PROVE q \in 0 .. WORD - 1
    <3>1. PICK e \in kept : e[1] < q /\ q + s <= e[1] + e[2]
      BY <1>5 DEF Placed, InKept
    <3>2. e[1] \in Nat /\ e[2] \in Nat /\ e[1] + e[2] <= Break /\ Break \in Nat /\ Break < WORD /\ WORD \in Nat
      <4>1. e \in extents /\ ~ wrapped
        BY MallocTypes DEF MallocTypeOK
      <4>2. BreakInv /\ e[1] \in Nat /\ e[2] \in Nat
        BY <4>1, MallocTypes
      <4>3. Break \in 0 .. WORD - 1 /\ WORD \in Nat
        BY <4>2, BreakIsWord
      <4>4. e[1] + e[2] <= Break
        BY <4>1, <4>2 DEF BreakInv, ExtentsApart
      <4>5. QED
        BY <4>2, <4>3, <4>4
    <3>3. QED
      BY <1>1, <1>5, <3>1, <3>2
  <2>2. QED
    BY <1>2, <2>1, MallocTypes DEF MallocTypeOK
<1>7. PagesInv'
  <2>1. ASSUME NEW q \in free' PROVE Placed(q, s)'
    BY <1>2, <1>5 DEF MallocInv, PagesInv, Placed, InKept
  <2>2. ASSUME NEW q \in free, NEW r \in PagesFrom(p, n) PROVE Apart(q, s, r, s)
    <3>1. Apart(q, s, p, n * s)
      BY DEF MallocInv, HeldInv
    <3>2. q \in Nat /\ r \in Nat
      BY <1>5, MallocTypes
    <3>3. p <= r /\ r + s <= p + n * s
      BY <1>5
    <3> DEFINE m == n * s
    <3>4. m \in Nat /\ Apart(q, s, p, m) /\ r + s <= p + m
      BY <1>1, <3>1, <3>3
    <3> HIDE DEF m, s, p
    <3>5. QED
      BY <1>1, <3>2, <3>3, <3>4 DEF Apart
  <2>3. ASSUME NEW q \in PagesFrom(p, n), NEW r \in PagesFrom(p, n), q # r PROVE Apart(q, s, r, s)
    <3>1. PICK i \in 0 .. n - 1, j \in 0 .. n - 1 : q = p + i * s /\ r = p + j * s
      BY <1>3
    <3>2. i # j /\ i \in Nat /\ j \in Nat
      BY <1>1, <2>3, <3>1
    <3> HIDE DEF s, p
    <3>3. QED
      BY <1>1, <3>1, <3>2, PagesApart
  <2>4. ASSUME NEW q \in free', NEW r \in free', q # r PROVE Apart(q, s, r, s)
    <3>1. CASE q \in free /\ r \in free
      BY <2>4, <3>1 DEF MallocInv, PagesInv
    <3>2. CASE q \in PagesFrom(p, n) /\ r \in free
      BY <2>2, <3>2 DEF Apart
    <3>3. QED
      BY <1>2, <2>2, <2>3, <2>4, <3>1, <3>2
  <2>5. QED
    BY <2>1, <2>4 DEF PagesInv
<1>8. HeldInv'
  <2>1. ASSUME NEW c \in held' PROVE c \in held /\ Placed(c[1], c[2] * s)'
    BY <1>2 DEF MallocInv, HeldInv, Placed, InKept
  <2>2. ASSUME NEW q \in PagesFrom(p, n), NEW c \in held' PROVE Apart(q, s, c[1], c[2] * s)
    <3>1. Apart(p, n * s, c[1], c[2] * s)
      BY <1>2 DEF MallocInv, HeldInv
    <3>2. c[1] \in Nat /\ c[2] * s \in Nat
      BY <1>1, <2>1, MallocTypes, Multiples
    <3>3. p <= q /\ q + s <= p + n * s /\ q \in Nat
      BY <1>5
    <3> DEFINE m == n * s
               k == c[2] * s
    <3>4. m \in Nat /\ k \in Nat /\ Apart(p, m, c[1], k) /\ q + s <= p + m
      BY <1>1, <3>1, <3>2, <3>3
    <3> HIDE DEF m, k, s, p
    <3>5. Apart(q, s, c[1], k)
      BY <1>1, <3>2, <3>3, <3>4 DEF Apart
    <3>6. QED
      BY <3>5 DEF k
  <2>3. ASSUME NEW q \in free', NEW c \in held' PROVE Apart(q, s, c[1], c[2] * s)
    <3>1. CASE q \in free
      BY <2>1, <3>1 DEF MallocInv, HeldInv
    <3>2. QED
      BY <1>2, <2>2, <3>1
  <2>4. \A c, d \in held' : c = d \/ Apart(c[1], c[2] * s, d[1], d[2] * s)
    BY <2>1 DEF MallocInv, HeldInv
  <2>5. QED
    BY <2>1, <2>3, <2>4 DEF HeldInv
<1>9. PagesKept'
  <2>1. SUFFICES ASSUME NEW q \in pool.pages, q \notin free'
                 PROVE  \E c \in held' : q \in PagesFrom(c[1], c[2])
    BY <1>2 DEF PagesKept
  <2>2. PICK c \in held : q \in PagesFrom(c[1], c[2])
    BY <1>2, <2>1 DEF MallocInv, PagesKept
  <2>3. c # b
    BY <1>2, <2>1, <2>2
  <2>4. QED
    BY <1>2, <2>2, <2>3
<1>10. QED
  BY <1>6, <1>7, <1>8, <1>9

-----------------------------------------------------------------------------
(* mem_init, and the break.                                                *)

(* An extent the guest gets lies above all it had.                         *)
LEMMA BelowBreak ==
  ASSUME MallocInv, NEW x \in Nat, NEW m \in Nat, InKept(x, m)
  PROVE  x + m <= Break
<1>1. PICK e \in kept : e[1] < x /\ x + m <= e[1] + e[2]
  BY DEF InKept
<1>2. e \in extents /\ e[1] \in Nat /\ e[2] \in Nat /\ BreakInv /\ ~ wrapped
  BY MallocTypes DEF MallocTypeOK
<1>3. e[1] + e[2] <= Break /\ Break \in Nat
  BY <1>2, BreakIsWord DEF BreakInv, ExtentsApart
<1>4. QED
  BY <1>1, <1>2, <1>3

(* Two pages pool_create links are apart.                                  *)
LEMMA LinkedApart ==
  ASSUME NEW first \in Nat, NEW end \in Nat,
         NEW p \in Linked(first, end), NEW q \in Linked(first, end), p # q
  PROVE  Apart(p, PAGE_SIZE, q, PAGE_SIZE)
<1>1. PICK i \in 0 .. WORD, j \in 0 .. WORD : p = first + i * PAGE_SIZE /\ q = first + j * PAGE_SIZE
  BY DEF Linked
<1>2. i \in Nat /\ j \in Nat /\ i # j /\ PAGE_SIZE \in Nat \ {0}
  BY <1>1, HeapAssumption
<1>3. QED
  BY <1>1, <1>2, PagesApart

(* When the allocator has lost its memory, nothing is left to be wrong.    *)
LEMMA StraysKeeps ==
  ASSUME Strays
  PROVE  MallocTypeOK' /\ PagesInv' /\ HeldInv' /\ PagesKept'
BY DEF Strays, MallocTypeOK, PagesInv, HeldInv, PagesKept

LEMMA InitPoolKeeps ==
  ASSUME MallocInv, NEW size \in Sizes, InitPool(size)
  PROVE  MallocTypeOK' /\ PagesInv' /\ HeldInv' /\ PagesKept'
<1> DEFINE s == PAGE_SIZE
<1>1. CASE astray \/ ~ GoodPool
  BY <1>1, StraysKeeps DEF InitPool
<1>2. CASE ~ (astray \/ ~ GoodPool)
  <2>1. /\ free' = pool'.pages /\ kept' = kept \cup (extents' \ extents)
        /\ held' = held /\ astray' = astray /\ astray = FALSE
    BY <1>2, MallocTypes DEF InitPool, MallocTypeOK
  <2>2. /\ MemInit(size) /\ pool' = PoolCreate(Break, size) /\ BreakInv /\ BreakInv' /\ PoolInv'
        /\ size \in Nat /\ Break \in Nat /\ WORD \in Nat /\ Break < WORD
        /\ s \in Nat \ {0} /\ POOL_HEAD \in Nat \ {0}
    BY MallocTypes, MemInitKeeps, BreakIsWord, Inputs, HeapAssumption DEF InitPool, MemInit
  <2>3. kept \subseteq extents' /\ ~ wrapped' /\ ~ wrapped
    BY <1>2, <2>2 DEF GoodPool, MemInit, MoveBreak
  <2>4. kept \subseteq kept' /\ kept' \subseteq extents'
    BY <2>1, <2>3
  <2>5. ASSUME NEW x \in Nat, NEW m \in Nat, InKept(x, m) PROVE InKept(x, m)'
    BY <2>4, <2>5 DEF InKept
  <2>6. ASSUME pool' # NoPool
        PROVE  /\ pool'.head = Break /\ pool'.size = size /\ size > s /\ size \notin Negative
               /\ pool'.pages = Linked(FirstPage(Break), (Break + size) % WORD)
               /\ InMemory'
    BY <1>2, <2>2, <2>6 DEF PoolCreate, GoodPool
  <2>7. ASSUME NEW p \in free'
        PROVE  /\ pool' # NoPool /\ p \in Nat /\ Break + POOL_HEAD <= p /\ p + s <= Break + size
    <3>1. pool' # NoPool
      BY <2>1 DEF NoPool
    <3>2. p \in Nat
      BY <2>1, <2>2 DEF PoolInv
    <3>3. pool'.head + POOL_HEAD <= p /\ p + s <= pool'.head + pool'.size
      BY <2>1, <2>2, <2>6, <3>1 DEF PoolInv, PoolInside
    <3>4. QED
      BY <2>6, <3>1, <3>2, <3>3
  <2>8. ASSUME pool' # NoPool PROVE <<Break, size>> \in kept'
    <3> DEFINE own == <<Break, size>>
    <3>1. size > 0
      BY <2>2, <2>6, <2>8
    <3>2. own \in extents'
      <4>1. extents' = extents \cup Taken(Break + size) /\ ~ (Break + size >= WORD)
        BY <2>2, <2>3, <2>6, <2>8 DEF MemInit, MoveBreak, Own
      <4>2. /\ Break + size \in Nat /\ Break + size < WORD /\ Break <= Break + size
            /\ Break + size > Break /\ (Break + size) - Break = size
        BY <2>2, <3>1, <4>1
      <4>3. <<Break, (Break + size) - Break>> \in Taken(Break + size)
        BY <2>2, <4>2, TakenIs
      <4>4. QED
        BY <4>1, <4>2, <4>3
    <3>3. own \notin extents
      <4>1. own[1] + own[2] > Break
        BY <2>2, <3>1
      <4>2. QED
        BY <2>2, <2>3, <4>1 DEF BreakInv, ExtentsApart
    <3>4. QED
      BY <2>1, <3>2, <3>3
  <2>9. ASSUME NEW p \in free' PROVE Placed(p, s)'
    <3> DEFINE own == <<Break, size>>
    <3>1. own \in kept' /\ own[1] < p /\ p + s <= own[1] + own[2]
      BY <2>2, <2>7, <2>8
    <3>2. InKept(p, s)'
      BY <3>1 DEF InKept
    <3>3. Apart(p, s, pool'.head, POOL_HEAD)
      BY <2>2, <2>6, <2>7 DEF Apart
    <3>4. QED
      BY <3>2, <3>3 DEF Placed
  <2>10. ASSUME NEW p \in free', NEW q \in free', p # q PROVE Apart(p, s, q, s)
    <3> DEFINE first == FirstPage(Break)
               end == (Break + size) % WORD
    <3>1. first \in Nat /\ end \in Nat
      BY <2>2, FirstPageIsWord, Remainder, HeapAssumption
    <3>2. p \in Linked(first, end) /\ q \in Linked(first, end)
      BY <2>1, <2>6, <2>7
    <3> HIDE DEF first, end
    <3>3. QED
      BY <2>10, <3>1, <3>2, LinkedApart
  <2>11. ASSUME NEW b \in held
         PROVE  /\ b[1] \in Nat /\ b[2] * s \in Nat /\ InKept(b[1], b[2] * s)
                /\ b[1] + b[2] * s <= Break
    <3>1. b[1] \in Nat /\ b[2] * s \in Nat /\ InKept(b[1], b[2] * s)
      BY MallocTypes, Multiples DEF MallocInv, HeldInv, Placed
    <3> DEFINE m == b[2] * s
    <3>2. m \in Nat /\ InKept(b[1], m)
      BY <3>1
    <3> HIDE DEF m
    <3>3. b[1] + m <= Break
      BY <3>1, <3>2, BelowBreak
    <3>4. QED
      BY <3>1, <3>3 DEF m
  <2>12. MallocTypeOK'
    <3>1. free' \subseteq 0 .. WORD - 1
      BY <2>1, <2>2 DEF PoolInv
    <3>2. QED
      BY <2>1, <2>3, <2>4, <3>1, MallocTypes DEF MallocTypeOK
  <2>13. PagesInv'
    BY <2>9, <2>10 DEF PagesInv
  <2>14. ASSUME NEW b \in held' PROVE Placed(b[1], b[2] * s)'
    <3> DEFINE m == b[2] * s
    <3>1. b \in held
      BY <2>1
    <3>2. b[1] \in Nat /\ m \in Nat /\ InKept(b[1], m) /\ b[1] + m <= Break
      BY <2>11, <3>1
    <3> HIDE DEF m
    <3>3. InKept(b[1], m)'
      BY <2>5, <3>2
    <3>4. pool' # NoPool => Apart(b[1], m, pool'.head, POOL_HEAD)
      BY <2>6, <3>2 DEF Apart
    <3>5. Placed(b[1], m)'
      BY <3>3, <3>4 DEF Placed
    <3>6. QED
      BY <3>5 DEF m
  <2>15. ASSUME NEW p \in free', NEW b \in held' PROVE Apart(p, s, b[1], b[2] * s)
    <3> DEFINE m == b[2] * s
    <3>1. b[1] \in Nat /\ m \in Nat /\ b[1] + m <= Break
      BY <2>1, <2>11
    <3> HIDE DEF m
    <3>2. p \in Nat /\ Break + POOL_HEAD <= p
      BY <2>7
    <3>3. Apart(p, s, b[1], m)
      BY <2>2, <3>1, <3>2 DEF Apart
    <3>4. QED
      BY <3>3 DEF m
  <2>16. HeldInv'
    BY <2>1, <2>14, <2>15 DEF MallocInv, HeldInv
  <2>17. PagesKept'
    BY <2>1 DEF PagesKept
  <2>18. QED
    BY <2>12, <2>13, <2>16, <2>17
<1>3. QED
  BY <1>1, <1>2

(* A break that moves takes nothing from the allocator, or all there is.   *)
LEMMA PoolUnawareKeeps ==
  ASSUME MallocInv, UNCHANGED pool, PoolUnaware
  PROVE  MallocTypeOK' /\ PagesInv' /\ HeldInv' /\ PagesKept'
<1>1. CASE Strays
  BY <1>1, StraysKeeps
<1>2. CASE ~ Strays
  <2>1. /\ UNCHANGED <<pool, free, held, kept, astray>>
        /\ astray \/ (kept \subseteq extents' /\ ~ wrapped')
    BY <1>2 DEF PoolUnaware
  <2>2. MallocTypeOK'
    BY <2>1, MallocTypes DEF MallocTypeOK
  <2>3. QED
    BY <2>1, <2>2 DEF MallocInv, PagesInv, HeldInv, PagesKept, Placed, InKept
<1>3. QED
  BY <1>1, <1>2

-----------------------------------------------------------------------------
(* The theorems.                                                           *)

(* The allocator's heap is the heap of GuestHeap.                          *)
LEMMA MallocStep == [MallocNext]_mvars => [Next]_vars
BY DEF MallocNext, mvars, vars, Next, InitPool, Malloc, MallocRefused, Free

LEMMA MallocInvInit == MallocInit => MallocInv
<1>1. MallocInit => HeapInv
  BY HeapInvInit DEF MallocInit
<1>2. MallocInit => pool.pages = {}
  BY DEF MallocInit, Init, NoPool
<1>3. MallocInit => MallocTypeOK
  <2>1. SUFFICES ASSUME MallocInit PROVE MallocTypeOK
    OBVIOUS
  <2>2. free = {} /\ held = {} /\ kept = {} /\ astray \in BOOLEAN /\ ~ wrapped
    BY <2>1 DEF MallocInit, Init
  <2>3. QED
    BY <2>2 DEF MallocTypeOK
<1>4. QED
  BY <1>1, <1>2, <1>3 DEF MallocInit, MallocInv, PagesInv, HeldInv, PagesKept

LEMMA MallocInvNext == MallocInv /\ [MallocNext]_mvars => MallocInv'
<1>1. SUFFICES ASSUME MallocInv, [MallocNext]_mvars
               PROVE  MallocTypeOK' /\ PagesInv' /\ HeldInv' /\ PagesKept'
  BY HeapInvNext, MallocStep DEF MallocInv
<1>2. CASE UNCHANGED mvars
  <2>1. UNCHANGED <<brk, pool, extents, wrapped, free, held, kept, astray>>
    BY <1>2 DEF mvars, vars
  <2>2. QED
    BY <1>1, <2>1 DEF MallocInv, MallocTypeOK, PagesInv, HeldInv, PagesKept, Placed, InKept
<1>3. ASSUME UNCHANGED pool, PoolUnaware
      PROVE  MallocTypeOK' /\ PagesInv' /\ HeldInv' /\ PagesKept'
  BY <1>1, <1>3, PoolUnawareKeeps
<1>4. ASSUME NEW size \in Sizes, InitPool(size)
      PROVE  MallocTypeOK' /\ PagesInv' /\ HeldInv' /\ PagesKept'
  BY <1>1, <1>4, InitPoolKeeps
<1>5. ASSUME NEW n \in Counts, Malloc(n)
      PROVE  MallocTypeOK' /\ PagesInv' /\ HeldInv' /\ PagesKept'
  BY <1>1, <1>5, MallocKeeps
<1>6. ASSUME NEW b \in held, Free(b)
      PROVE  MallocTypeOK' /\ PagesInv' /\ HeldInv' /\ PagesKept'
  <2>1. CASE pool = NoPool
    BY <1>6, <2>1, StraysKeeps DEF Free
  <2>2. QED
    BY <1>1, <1>6, <2>1, FreeKeeps
<1>7. QED
  BY <1>1, <1>2, <1>3, <1>4, <1>5, <1>6
     DEF MallocNext, Sbrk, SbrkRefused, Brk, BrkRefused, MemInitRefused,
         MallocRefused, vars

(* MallocInv holds of every state the heap and the allocator can be in.    *)
THEOREM MallocInvariant == MallocSpec => []MallocInv
BY MallocInvInit, MallocInvNext, PTL DEF MallocSpec

(* Whatever malloc and free do, the memory behind them behaves as          *)
(* GuestHeap's does: GuestMalloc implements it.                            *)
THEOREM MallocImplementsHeap == MallocSpec => Spec
<1>1. MallocInit => Init
  BY DEF MallocInit
<1>2. QED
  BY <1>1, MallocStep, PTL DEF MallocSpec, Spec

(* So does what is proved of it: what sbrk and mem_init hand out is apart, *)
(* and every pool is set up in its own memory.                             *)
THEOREM MallocKeepsHeap == MallocSpec => [](TypeOK /\ ExtentsApart /\ PoolSetUp)
BY MallocImplementsHeap, HeapTypeOK, HeapExtentsApart, HeapPoolSetUp, PTL

LEMMA MallocInvBlocks == MallocInv => BlocksApart
<1>1. SUFFICES ASSUME MallocInv PROVE BlocksApart
  OBVIOUS
<1> DEFINE s == PAGE_SIZE
<1>2. /\ BreakInv /\ PoolInv /\ MallocTypeOK /\ s \in Nat \ {0} /\ POOL_HEAD \in Nat \ {0}
      /\ pool.head \in Nat
  BY <1>1, MallocTypes
<1>3. ASSUME NEW b \in Blocks
      PROVE  b[1] \in Nat /\ b[2] * s \in Nat \ {0} /\ Placed(b[1], b[2] * s)
  <2>1. CASE b \in held
    BY <1>1, <2>1, MallocTypes, Multiples DEF MallocInv, HeldInv
  <2>2. CASE b \notin held
    <3>1. PICK p \in free : b = <<p, 1>>
      BY <1>3, <2>2 DEF Blocks
    <3>2. b[1] = p /\ b[2] * s = s
      BY <1>2, <3>1
    <3>3. QED
      BY <1>1, <1>2, <3>2, MallocTypes DEF MallocInv, PagesInv
  <2>3. QED
    BY <2>1, <2>2
<1>4. ASSUME NEW b \in Blocks, NEW c \in Blocks, b # c
      PROVE  Apart(b[1], b[2] * s, c[1], c[2] * s)
  <2>1. ASSUME NEW p \in free, NEW d \in held PROVE Apart(p, 1 * s, d[1], d[2] * s)
    <3>1. 1 * s = s
      BY <1>2
    <3>2. QED
      BY <1>1, <3>1 DEF MallocInv, HeldInv
  <2>2. ASSUME NEW p \in free, NEW q \in free, p # q PROVE Apart(p, 1 * s, q, 1 * s)
    <3>1. 1 * s = s
      BY <1>2
    <3>2. QED
      BY <1>1, <2>2, <3>1 DEF MallocInv, PagesInv
  <2>3. CASE b \in held /\ c \in held
    BY <1>1, <1>4, <2>3 DEF MallocInv, HeldInv
  <2>4. CASE b \in held /\ c \notin held
    <3>1. PICK q \in free : c = <<q, 1>>
      BY <1>4, <2>4 DEF Blocks
    <3>2. QED
      BY <2>1, <2>4, <3>1 DEF Apart
  <2>5. CASE b \notin held /\ c \in held
    <3>1. PICK p \in free : b = <<p, 1>>
      BY <1>4, <2>5 DEF Blocks
    <3>2. QED
      BY <2>1, <2>5, <3>1
  <2>6. CASE b \notin held /\ c \notin held
    <3>1. PICK p \in free, q \in free : b = <<p, 1>> /\ c = <<q, 1>>
      BY <1>4, <2>6 DEF Blocks
    <3>2. QED
      BY <1>4, <2>2, <3>1
  <2>7. QED
    BY <2>3, <2>4, <2>5, <2>6
<1>5. ASSUME NEW p \in free PROVE <<p, 1>> \notin held
  <2> DEFINE d == <<p, 1>>
  <2>1. SUFFICES ASSUME d \in held PROVE FALSE
    OBVIOUS
  <2>2. Apart(p, s, d[1], d[2] * s)
    BY <1>1, <2>1 DEF MallocInv, HeldInv
  <2>3. Apart(p, s, p, s) /\ p \in Nat
    BY <1>1, <1>2, <2>2, MallocTypes
  <2>4. QED
    BY <1>2, <2>3 DEF Apart
<1>6. ASSUME NEW b \in Blocks
      PROVE  /\ \E e \in kept : e[1] <= b[1] /\ b[1] + b[2] * s <= e[1] + e[2]
             /\ \A e \in extents \ kept : Apart(b[1], b[2] * s, e[1], e[2])
  <2> DEFINE m == b[2] * s
  <2>1. b[1] \in Nat /\ m \in Nat \ {0} /\ InKept(b[1], m)
    BY <1>3 DEF Placed
  <2> HIDE DEF m
  <2>2. PICK e \in kept : e[1] < b[1] /\ b[1] + m <= e[1] + e[2]
    BY <2>1 DEF InKept
  <2>3. kept \subseteq extents /\ \A f \in extents : f[1] \in Nat /\ f[2] \in Nat \ {0}
    BY <1>1, <1>2, MallocTypes DEF MallocTypeOK
  <2>4. ASSUME NEW f \in extents \ kept PROVE Apart(b[1], m, f[1], f[2])
    <3>1. ~ wrapped /\ e \in extents /\ f \in extents /\ e # f
      BY <1>1, <2>2, <2>3, <2>4, MallocTypes
    <3>2. Apart(e[1], e[2], f[1], f[2])
      BY <1>2, <3>1 DEF BreakInv, ExtentsApart
    <3>3. QED
      BY <2>1, <2>2, <2>3, <3>2 DEF Apart
  <2>5. e[1] <= b[1] /\ b[1] + m <= e[1] + e[2]
    BY <2>1, <2>2, <2>3
  <2>6. QED
    BY <2>4, <2>5 DEF m
<1>7. QED
  BY <1>3, <1>4, <1>5, <1>6 DEF BlocksApart, Placed

(* Whatever pools there have been, no block and no free page touches       *)
(* another, the descriptors of the pool, or memory that sbrk handed out.   *)
THEOREM MallocBlocksApart == MallocSpec => []BlocksApart
BY MallocInvBlocks, MallocInvariant, PTL

(* No page of the pool in use is ever lost.                                *)
THEOREM MallocPagesKept == MallocSpec => []PagesKept
<1>1. MallocInv => PagesKept
  BY DEF MallocInv
<1>2. QED
  BY <1>1, MallocInvariant, PTL
==============================================================================
