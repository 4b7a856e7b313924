------------------------------ MODULE GuestHeap ------------------------------
(***************************************************************************)
(* Where the guest's heap comes from: the program break the host keeps for *)
(* it (simulator/api/brk.c) and the set-up of the allocator on top of it,  *)
(* mem_init and pool_create (rtlib/libs/mem.c).                            *)
(*                                                                         *)
(* The host keeps the break as a 64 bit pointer that is relative to the    *)
(* start of the guest's memory; the guest sees its lowest 32 bits, WORD    *)
(* values.  The guest owns extents <<address, length>>: it gets one with   *)
(* every rise of the break, and gives up those a fall of it leaves above.  *)
(***************************************************************************)
EXTENDS Integers, FiniteSets

CONSTANTS
  WORD,        (* the number of values of a guest address                  *)
  MemStart,    (* vm->mem.start, an address of the host                    *)
  MemSize,     (* vm->mem.end - vm->mem.start                              *)
  StackSize,   (* vm->stack_size                                           *)
  LoadedEnd,   (* the break load_elf leaves behind                         *)
  PAGE_SIZE,
  POOL_HEAD,   (* sizeof(bucket_t) * BUDY_COUNT                            *)
  Increments,  (* what guests pass to sbrk, as an u32_t                    *)
  Breaks,      (* what guests pass to brk                                  *)
  Sizes,       (* what guests pass to mem_init, as an u32_t                *)
  MaxBreak     (* bound: the host's break goes no further                  *)

MemEnd == MemStart + MemSize

(* The u32_t that stand for a negative number.                             *)
Negative == WORD \div 2 .. WORD - 1

(* The memory leaves room above it for what pool_create computes.          *)
ASSUME HeapAssumption ==
  /\ WORD \in Nat \ {0} /\ MemStart \in Nat /\ MemSize \in Nat \ {0}
  /\ PAGE_SIZE \in Nat \ {0} /\ POOL_HEAD \in Nat \ {0}
  /\ MemSize + POOL_HEAD + PAGE_SIZE <= WORD
  /\ StackSize \in 0 .. MemSize
  /\ LoadedEnd \in 1 .. MemSize - 1
  /\ Increments \subseteq 0 .. WORD - 1 /\ Breaks \subseteq 0 .. WORD - 1
  /\ Sizes \subseteq 0 .. WORD - 1
  /\ MaxBreak \in Nat

VARIABLES
  brk,         (* vm->mem.brk                                              *)
  pool,        (* what mem_pool_gs points at                               *)
  extents,     (* history: what the guest owns above its program, up to    *)
               (* the step that sets wrapped                               *)
  wrapped      (* history: sbrk took the guest's break past address 0      *)

vars == <<brk, pool, extents, wrapped>>

NoPool == [head |-> 0, size |-> 0, first |-> 0, pages |-> {}]

(* The break as the guest sees it.                                         *)
Break == brk % WORD

Init ==
  /\ brk = LoadedEnd
  /\ pool = NoPool
  /\ extents = {}
  /\ wrapped = FALSE

-----------------------------------------------------------------------------
(* The break.                                                              *)

(* The end of the memory, an address of the host, less the break, which is *)
(* relative to its start: no more than that is refused.                    *)
SbrkFails(incr) == MemEnd - brk <= incr

(* What the guest gets between the break and top: the addresses up to the  *)
(* last one, and those from 0 on.                                          *)
Taken(top) ==
  {e \in {<<Break, (IF top < WORD THEN top ELSE WORD) - Break>>, <<0, top - WORD>>} : e[2] > 0}

(* What is left of the extents when the break falls to top.                *)
KeptBelow(top) == {e \in extents : e[1] + e[2] <= top}

Own(e) == extents' = IF wrapped THEN extents ELSE e

(* sbrk moves the break, whatever lies there.  An increment below 0 is     *)
(* 2^32 more than it in the u32_t, and again in the low half of the break. *)
MoveBreak(incr) ==
  /\ brk + incr <= MaxBreak
  /\ brk' = brk + incr
  /\ Own(IF incr \in Negative THEN KeptBelow(Break + incr - WORD)
         ELSE extents \cup Taken(Break + incr))
  /\ wrapped' = (wrapped \/ ((incr \in Negative) # (Break + incr >= WORD)))

(* Seeded fault: the break stays where it was.                             *)
SbrkForgets(incr) ==
  /\ ~ SbrkFails(incr)
  /\ incr \notin Negative
  /\ Own(extents \cup Taken(Break + incr))
  /\ UNCHANGED <<brk, pool, wrapped>>

Sbrk(incr) ==
  /\ ~ SbrkFails(incr)
  /\ MoveBreak(incr)
  /\ UNCHANGED pool

SbrkRefused(incr) == SbrkFails(incr) /\ UNCHANGED vars

(* Seeded fault: the address is taken as an s32_t.                         *)
BrkSigned(addr) ==
  /\ MemStart + (IF addr \in Negative THEN addr - WORD ELSE addr) < MemEnd
  /\ brk' = IF addr \in Negative THEN addr - WORD ELSE addr
  /\ Own(IF addr >= Break THEN extents \cup Taken(addr) ELSE KeptBelow(addr))
  /\ UNCHANGED <<pool, wrapped>>

Brk(addr) ==
  /\ MemStart + addr < MemEnd
  /\ brk' = addr
  /\ Own(IF addr >= Break THEN extents \cup Taken(addr) ELSE KeptBelow(addr))
  /\ UNCHANGED <<pool, wrapped>>

BrkRefused(addr) == MemStart + addr >= MemEnd /\ UNCHANGED vars

-----------------------------------------------------------------------------
(* pool_create.                                                            *)

(* Seeded faults: the descriptors take no room; a boundary right behind    *)
(* them is passed over.                                                    *)
FirstPageOnHead(addr) == ((addr + PAGE_SIZE - 1) \div PAGE_SIZE) * PAGE_SIZE

FirstPageAfter(addr) ==
  (((addr + POOL_HEAD + PAGE_SIZE) \div PAGE_SIZE) * PAGE_SIZE) % WORD

(* The first page boundary behind the descriptors.                         *)
FirstPage(addr) ==
  (((addr + POOL_HEAD + PAGE_SIZE - 1) \div PAGE_SIZE) * PAGE_SIZE) % WORD

(* The pages the loop links: those that end before the end of the pool.    *)
(* (An end within the last page of the 32 bits, which is past every        *)
(* memory, would let the loop run on around address 0.)                    *)
Linked(first, end) ==
  {first + i * PAGE_SIZE : i \in {j \in 0 .. WORD : first + (j + 1) * PAGE_SIZE < end}}

(* The list head is the first page even when the loop linked none, and a   *)
(* pool at address 0 is none.                                              *)
PoolCreate(addr, size) ==
  IF size \in Negative \/ size <= PAGE_SIZE \/ addr = 0
  THEN NoPool
  ELSE [head |-> addr, size |-> size, first |-> FirstPage(addr),
        pages |-> Linked(FirstPage(addr), (addr + size) % WORD)]

(* mem_init: sbrk(0), sbrk(size) and, unless that failed, a new pool.      *)
MemInit(size) ==
  /\ ~ SbrkFails(size)
  /\ MoveBreak(size)
  /\ pool' = PoolCreate(Break, size)

MemInitRefused(size) == SbrkFails(size) /\ UNCHANGED vars

-----------------------------------------------------------------------------
Next ==
  \/ \E incr \in Increments : Sbrk(incr) \/ SbrkRefused(incr)
  \/ \E addr \in Breaks : Brk(addr) \/ BrkRefused(addr)
  \/ \E size \in Sizes : MemInit(size) \/ MemInitRefused(size)

Spec == Init /\ [][Next]_vars

-----------------------------------------------------------------------------
Apart(a, m, b, n) == a + m <= b \/ b + n <= a

(* Type invariant.                                                         *)
TypeOK ==
  /\ brk \in Nat /\ wrapped \in BOOLEAN
  /\ extents \subseteq (0 .. WORD - 1) \X (1 .. WORD - 1)
  /\ pool \in [head : 0 .. WORD - 1, size : 0 .. WORD - 1, first : 0 .. WORD - 1,
               pages : SUBSET (0 .. WORD - 1)]

(* However the break rises and falls, what the guest got for one rise is   *)
(* not handed out again while the guest owns it: cpu0_sbrk returns the old *)
(* break, cut to 32 bits, and the extents end at or below the new one.     *)
(* That is so until the break, which sbrk bounds nowhere, has passed       *)
(* address 0.                                                              *)
ExtentsApart ==
  ~ wrapped =>
    /\ \A e \in extents : e[1] + e[2] <= Break
    /\ \A e, f \in extents : e = f \/ Apart(e[1], e[2], f[1], f[2])

(* The pool lies in the memory the guest has.                              *)
InMemory == pool.head + pool.size <= MemSize

(* The pages of the pool lie behind its descriptors, within the memory     *)
(* mem_init asked for, and touch nothing else the guest owns.              *)
PoolIsItsOwn ==
  ~ wrapped /\ InMemory /\ <<pool.head, pool.size>> \in extents =>
    \A p \in pool.pages :
      /\ pool.head + POOL_HEAD <= p
      /\ p + PAGE_SIZE <= pool.head + pool.size
      /\ \A e \in extents \ {<<pool.head, pool.size>>} :
           Apart(p, PAGE_SIZE, e[1], e[2])

(* A pool of at least two pages and the descriptors is what BuddyPool      *)
(* starts from, wherever the break stood: the head of the list is a page   *)
(* of the pool.  Below that, down to the page pool_create asks for, it     *)
(* depends on the break whether one fits.                                  *)
PoolHasAPage ==
  InMemory /\ pool.size >= POOL_HEAD + 2 * PAGE_SIZE => pool.first \in pool.pages

(* A pool is set up in its own memory and begins with one of its pages.    *)
PoolSetUp == PoolIsItsOwn /\ PoolHasAPage

(* The layout drawn in vm.c: the heap ends where the stacks begin.         *)
HeapBelowStacks == Break <= MemSize - StackSize
==============================================================================
