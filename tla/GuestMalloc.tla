----------------------------- MODULE GuestMalloc ------------------------------
(***************************************************************************)
(* malloc and free of the run-time library (rtlib/libs/mem.c) between      *)
(* calls of mem_init and sbrk: the heap of GuestHeap with the pages of the *)
(* pool on top of it.  mem_pool_gs is the last pool; what came out of an   *)
(* earlier one goes back into it.                                          *)
(*                                                                         *)
(* Requests are for whole pages; smaller blocks are BuddyPool's.           *)
(***************************************************************************)
EXTENDS GuestHeap, FiniteSetsExt

CONSTANTS Counts   (* the pages guests ask for at a time                   *)

ASSUME CountAssumption == Counts \subseteq Nat \ {0}

VARIABLES
  free,        (* the pages in the pool's last list                        *)
  held,        (* the blocks callers have: <<first page, pages>>           *)
  kept,        (* history: the extents mem_init has got                    *)
  astray       (* history: the allocator has written, or lets callers      *)
               (* write, where it must not; guests leave it alone from     *)
               (* then on, and nothing is kept of its pages                *)

mvars == <<vars, free, held, kept, astray>>

MallocInit == Init /\ free = {} /\ held = {} /\ kept = {} /\ astray = FALSE

PagesFrom(p, n) == {p + i * PAGE_SIZE : i \in 0 .. n - 1}

(* What is outside the allocator's memory is the program's, the stacks' or *)
(* the host's, and nothing is known of what becomes of either.             *)
Strays == astray' = TRUE /\ free' = {} /\ held' = {} /\ kept' = {}

(* What the allocator notices of a break that moves: nothing, also when it *)
(* falls below a pool or comes round to it.                                *)
PoolUnaware ==
  IF astray \/ (kept \subseteq extents' /\ ~ wrapped')
  THEN UNCHANGED <<free, held, kept, astray>> ELSE Strays

(* The new pool is in the guest's memory, and the others are left alone.   *)
GoodPool ==
  /\ kept \subseteq extents' /\ ~ wrapped'
  /\ pool' # NoPool => InMemory' /\ pool'.pages # {}

(* mem_init: the pages that were free in the old pool are lost, and so is  *)
(* the pool when size is refused.                                          *)
InitPool(size) ==
  /\ MemInit(size)
  /\ IF astray \/ ~ GoodPool THEN Strays
     ELSE /\ free' = pool'.pages
          /\ kept' = kept \cup (extents' \ extents)
          /\ UNCHANGED <<held, astray>>

(* A page is the head of the list; a run of n is found where n + 1 touch.  *)
Runs(n) == {p \in free : PagesFrom(p, IF n = 1 THEN 1 ELSE n + 1) \subseteq free}

(* Seeded fault: one page too few is taken off the list.                   *)
MallocLeavesLast(n) ==
  /\ ~ astray /\ pool # NoPool /\ Runs(n) # {}
  /\ LET p == Min(Runs(n))
     IN  held' = held \cup {<<p, n>>} /\ free' = free \ PagesFrom(p, n - 1)
  /\ UNCHANGED <<vars, kept, astray>>

Malloc(n) ==
  /\ ~ astray /\ pool # NoPool /\ Runs(n) # {}
  /\ LET p == Min(Runs(n))
     IN  held' = held \cup {<<p, n>>} /\ free' = free \ PagesFrom(p, n)
  /\ UNCHANGED <<vars, kept, astray>>

MallocRefused(n) ==
  /\ ~ astray /\ (pool = NoPool \/ Runs(n) = {})
  /\ UNCHANGED mvars

(* Seeded fault: the first page of a block comes back only.                *)
FreeOnePage(b) ==
  /\ ~ astray
  /\ IF pool = NoPool THEN Strays
     ELSE /\ held' = held \ {b} /\ free' = free \cup PagesFrom(b[1], 1)
          /\ UNCHANGED <<kept, astray>>
  /\ UNCHANGED vars

(* The block goes into the last pool.  free does not ask whether there is  *)
(* one: without it the buckets are read and written at address 0.          *)
Free(b) ==
  /\ ~ astray
  /\ IF pool = NoPool THEN Strays
     ELSE /\ held' = held \ {b} /\ free' = free \cup PagesFrom(b[1], b[2])
          /\ UNCHANGED <<kept, astray>>
  /\ UNCHANGED vars

MallocNext ==
  \/ \E incr \in Increments :
       \/ Sbrk(incr) /\ PoolUnaware
       \/ SbrkRefused(incr) /\ PoolUnaware
  \/ \E addr \in Breaks :
       \/ Brk(addr) /\ PoolUnaware
       \/ BrkRefused(addr) /\ PoolUnaware
  \/ \E size \in Sizes :
       \/ InitPool(size)
       \/ MemInitRefused(size) /\ PoolUnaware
  \/ \E n \in Counts : Malloc(n) \/ MallocRefused(n)
  \/ \E b \in held : Free(b)

MallocSpec == MallocInit /\ [][MallocNext]_mvars

-----------------------------------------------------------------------------
Blocks == held \cup {<<p, 1>> : p \in free}

(* Whatever pools there have been, blocks handed out and free pages lie    *)
(* apart from each other, each in memory mem_init got, and off the         *)
(* descriptors of the pool in use: a new pool touches no block of an old   *)
(* one, and a block that changes pools no page of the new one.  A block of *)
(* one page is not itself a free page.  (Nothing is claimed from the time  *)
(* on when the allocator is astray: Blocks is empty.)                      *)
BlocksApart ==
  /\ \A b, c \in Blocks : b = c \/ Apart(b[1], b[2] * PAGE_SIZE, c[1], c[2] * PAGE_SIZE)
  /\ \A p \in free : <<p, 1>> \notin held
  /\ \A b \in Blocks :
       /\ \E e \in kept : e[1] <= b[1] /\ b[1] + b[2] * PAGE_SIZE <= e[1] + e[2]
       /\ pool # NoPool => Apart(b[1], b[2] * PAGE_SIZE, pool.head, POOL_HEAD)
       /\ \A e \in extents \ kept : Apart(b[1], b[2] * PAGE_SIZE, e[1], e[2])

(* No page of the pool in use is lost, though runs of pages and pages of   *)
(* earlier pools go through its list, as long as the allocator is not      *)
(* astray.                                                                 *)
PagesKept ==
  ~ astray =>
    pool.pages \subseteq free \cup UNION {PagesFrom(b[1], b[2]) : b \in held}
==============================================================================
