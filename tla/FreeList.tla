------------------------------ MODULE FreeList -------------------------------
(***************************************************************************)
(* The allocator of BuddyPool with its links, as rtlib/libs/mem.c keeps    *)
(* them: the first word of a free block is the address of the next one,    *)
(* the first bytes of a block in use are its header.                       *)
(*                                                                         *)
(* The steps that touch no link are those of BuddyPool.  The others are    *)
(* written anew, on links in place of sets; the variable free of BuddyPool *)
(* is history here: what a walk along the links finds after a step.  No    *)
(* guard reads it.  A long of the guest has four bytes: a link covers idx  *)
(* and count of a header that was there, and leaves its magic number.      *)
(***************************************************************************)
EXTENDS BuddyPool

SHORT == 65536      \* the values of an unsigned short

(* The places of blocks, and with them one below the pool.                 *)
PlaceCount == (PageCount * Size[Top]) \div OBJ_MIN
Places == {PoolStart + i * OBJ_MIN : i \in 0 .. PlaceCount - 1}
Cells  == Places \cup {PoolStart - OBJ_MIN}

(* idx and count of a header, which are unsigned shorts, hold any bucket   *)
(* and any number of pages there are.                                      *)
ASSUME LinkAssumption ==
  /\ BUDY_COUNT <= SHORT
  /\ PageCount < SHORT

VARIABLES
  s,         (* the lists: head[k], and what the first bytes of a place    *)
             (* hold: a word, and whether the magic number follows it      *)
  prev       (* prev of pool_try_shrink: the place of a link               *)

linkVars == <<free, free_n, live, pc, req, want, lvl, cur, s, prev>>

(* A link is in a block, or in the descriptor of bucket k.                 *)
HeadOf(k) == -1 - k

LinkAt(st, a) == st.mem[a].word

SetLink(st, place, to) ==
  IF place < 0 THEN [st EXCEPT !.head[-1 - place] = to]
               ELSE [st EXCEPT !.mem[place].word = to]

Data == [word |-> 0, magic |-> FALSE]

(* What n rounds of a loop make of its variables.  A loop that is over     *)
(* leaves them as they are, and PlaceCount rounds end every loop here.     *)
Iterate(step, first, n) ==
  LET after[i \in Nat] == IF i = 0 THEN first ELSE step[after[i - 1]]
  IN  after[n]

(* Where a walk along list k stands after i steps: at NULL it stays.       *)
Nth(st, k, i) ==
  Iterate([a \in Int |-> IF a \in Places THEN LinkAt(st, a) ELSE a], st.head[k], i)

Members(st, k) == {Nth(st, k, i) : i \in 0 .. PlaceCount} \cap Places

ListsOf(st) == [k \in Levels |-> Members(st, k)]

(* The pages as pool_create has linked them, nothing else in them.         *)
LinkedInit ==
  LET pages == Blocks(PoolStart, Top, PageCount)
      last  == PoolStart + (PageCount - 1) * Size[Top]
  IN  /\ Init
      /\ s = [head |-> [k \in Levels |-> IF k = Top THEN PoolStart ELSE NULL],
              mem  |-> [a \in Cells |->
                          IF a \in pages \ {last} THEN [word |-> a + Size[Top], magic |-> FALSE]
                                                  ELSE Data]]
      /\ prev = HeadOf(0)

-----------------------------------------------------------------------------
(* pool_add_free: n blocks of bucket k from block on are linked, and put   *)
(* where the walk along the list stops.                                    *)

(* Seeded fault: the loop starts at the block before.                      *)
ChainedFromBefore(st, k, block, n) ==
  [st EXCEPT !.mem = [a \in Cells |->
     IF a \in Blocks(block - Size[k], k, n) THEN [st.mem[a] EXCEPT !.word = a + Size[k]]
                                            ELSE st.mem[a]]]

Chained(st, k, block, n) ==
  [st EXCEPT !.mem = [a \in Cells |->
     IF a \in Blocks(block, k, n - 1) THEN [st.mem[a] EXCEPT !.word = a + Size[k]]
                                      ELSE st.mem[a]]]

(* prev and start where the walk stops: the link that block goes into, and *)
(* what it goes before.                                                    *)
Position(st, k, block) ==
  Iterate([w \in Int \X Int |->
             IF w[2] # NULL /\ block > w[2] THEN <<w[2], LinkAt(st, w[2])>> ELSE w],
          <<HeadOf(k), st.head[k]>>, PlaceCount)

(* Seeded fault: blocks go in front of the list, wherever they lie.        *)
PoolAddFreeInFront(st, k, block, n) ==
  SetLink(SetLink(Chained(st, k, block, n), HeadOf(k), block),
          block + (n - 1) * Size[k], st.head[k])

PoolAddFree(st, k, block, n) ==
  LET linked == Chained(st, k, block, n)
      at     == Position(linked, k, block)
  IN  SetLink(SetLink(linked, at[1], block), block + (n - 1) * Size[k], at[2])

(* Seeded fault: blocks that are freed together count as one.              *)
CountedOnce(k, n) == [free_n EXCEPT ![k] = @ + IF n > 0 THEN 1 ELSE n]

Counted(k, n) == [free_n EXCEPT ![k] = @ + n]

-----------------------------------------------------------------------------
(* pool_malloc.                                                            *)

(* The header is written, and the caller fills its block with bytes that   *)
(* look like no header.                                                    *)
HandOut(st, a, idx, count) ==
  [st EXCEPT !.mem = [b \in Cells |->
     IF b = a THEN [word |-> idx + SHORT * count, magic |-> TRUE]
     ELSE IF a < b /\ b < a + count * Size[idx] THEN Data ELSE @[b]]]

(* pool_alloc_continues: where its loop stops, with what is left to be     *)
(* found.                                                                  *)
Continues(n) ==
  Iterate([r \in [prev : Int, block : Int, start : Int, left : Nat] |->
             IF r.start = NULL \/ r.left = 0 THEN r
             ELSE LET next == LinkAt(s, r.start)
                  IN  IF r.start + Size[Top] = next
                      THEN [prev |-> r.prev, block |-> r.block, start |-> next, left |-> r.left - 1]
                      ELSE [prev |-> r.start, block |-> next, start |-> next, left |-> n]],
          [prev |-> HeadOf(Top), block |-> s.head[Top], start |-> s.head[Top], left |-> n],
          PlaceCount)

LinkedMallocLarge ==
  /\ pc = "malloc" /\ req # 0 /\ IsLarge(req)
  /\ LET n == PagesOf(req, Size[Top])
         r == Continues(n)
     IN  IF r.left > 0 THEN UNCHANGED <<s, lists, live>>
         ELSE /\ s' = HandOut(SetLink(s, r.prev, r.start), r.block, Top, n)
              /\ free' = ListsOf(s') /\ free_n' = Counted(Top, -n)
              /\ live' = live \cup {<<r.block, Top, n>>}
  /\ Return
  /\ UNCHANGED prev

LinkedTake ==
  /\ pc = "take"
  /\ free_n[want] # 0
  /\ LET block == s.head[want]
     IN  /\ s' = HandOut(SetLink(s, HeadOf(want), LinkAt(s, block)), block, want, 1)
         /\ live' = live \cup {<<block, want, 1>>}
  /\ free' = ListsOf(s') /\ free_n' = Counted(want, -1)
  /\ Return
  /\ UNCHANGED prev

-----------------------------------------------------------------------------
(* pool_pull_upper.  The links between the halves are written before       *)
(* pool_add_free writes them again.                                        *)
LinkedSplit ==
  /\ pc = "split"
  /\ free_n[lvl + 1] # 0
  /\ LET block == s.head[lvl + 1]
     IN  s' = PoolAddFree(SetLink(s, HeadOf(lvl + 1), LinkAt(s, block)), lvl, block, 2)
  /\ free' = ListsOf(s')
  /\ free_n' = [free_n EXCEPT ![lvl + 1] = @ - 1, ![lvl] = @ + 2]
  /\ PullReturns
  /\ UNCHANGED <<live, req, want, cur, prev>>

-----------------------------------------------------------------------------
(* pool_free.  What it does is decided by what it reads in front of the    *)
(* address it is given.                                                    *)

Idx(a)   == s.mem[a].word % SHORT
Count(a) == s.mem[a].word \div SHORT

LinkedFree(a) ==
  /\ pc = "idle"
  /\ IF ~ s.mem[a].magic \/ Idx(a) >= BUDY_COUNT THEN UNCHANGED linkVars
     ELSE /\ s' = PoolAddFree(s, Idx(a), a, Count(a))
          /\ free' = ListsOf(s') /\ free_n' = Counted(Idx(a), Count(a))
          /\ live' = {m \in live : m[1] # a}
          /\ IF free_n'[Idx(a)] > SHRINK_THD
             THEN pc' = "enter" /\ want' = Idx(a) /\ lvl' = Idx(a) /\ UNCHANGED <<req, cur, prev>>
             ELSE UNCHANGED <<locals, prev>>

-----------------------------------------------------------------------------
(* pool_try_shrink.                                                        *)

LinkedEnter ==
  /\ pc = "enter" /\ lvl < BUDY_COUNT - 1
  /\ cur' = s.head[lvl] /\ prev' = HeadOf(lvl)
  /\ pc' = "scan"
  /\ UNCHANGED <<s, lists, live, req, want, lvl>>

LinkMergeable(a, k) == LinkAt(s, a) = a + Size[k] /\ a % Size[k] = 0

(* Seeded fault: prev does not stay where it is.                           *)
LinkedMergeMovesPrev ==
  /\ pc = "scan" /\ cur # NULL /\ LinkMergeable(cur, lvl)
  /\ cur' = LinkAt(s, LinkAt(s, cur))
  /\ prev' = cur
  /\ s' = PoolAddFree(SetLink(s, prev, cur'), lvl + 1, cur, 1)
  /\ free' = ListsOf(s')
  /\ free_n' = [free_n EXCEPT ![lvl] = @ - 2, ![lvl + 1] = @ + 1]
  /\ UNCHANGED <<live, pc, req, want, lvl>>

LinkedMerge ==
  /\ pc = "scan" /\ cur # NULL /\ LinkMergeable(cur, lvl)
  /\ cur' = LinkAt(s, LinkAt(s, cur))
  /\ s' = PoolAddFree(SetLink(s, prev, cur'), lvl + 1, cur, 1)
  /\ free' = ListsOf(s')
  /\ free_n' = [free_n EXCEPT ![lvl] = @ - 2, ![lvl + 1] = @ + 1]
  /\ UNCHANGED <<live, pc, req, want, lvl, prev>>

LinkedSkip ==
  /\ pc = "scan" /\ cur # NULL /\ ~ LinkMergeable(cur, lvl)
  /\ prev' = cur /\ cur' = LinkAt(s, cur)
  /\ UNCHANGED <<s, lists, live, pc, req, want, lvl>>

(* prev is a local of pool_try_shrink, and gone when that returns.         *)
LinkedShrinkTop == ShrinkTop /\ prev' = HeadOf(0) /\ UNCHANGED s

-----------------------------------------------------------------------------
(* What does not touch a link.                                             *)
MallocKeepsLinks ==
  \/ \E size \in Requests : PoolMalloc(size)
  \/ MallocNothing \/ MallocSmall \/ TakeFails

PullKeepsLinks == PullAtTop \/ PullRecurse \/ PullNothing

LinksKept ==
  /\ MallocKeepsLinks \/ PullKeepsLinks \/ ShrinkNextLevel
  /\ UNCHANGED <<s, prev>>

(* Callers free what they hold.                                            *)
LinkedNext ==
  \/ \E m \in live : LinkedFree(m[1])
  \/ LinkedMallocLarge \/ LinkedTake \/ LinkedSplit
  \/ LinkedEnter \/ LinkedMerge \/ LinkedSkip \/ LinkedShrinkTop
  \/ LinksKept

LinkedSpec == LinkedInit /\ [][LinkedNext]_linkVars

-----------------------------------------------------------------------------
LinkStates == [head : [Levels -> Int], mem : [Cells -> [word : Int, magic : BOOLEAN]]]

(* Type invariant: heads are places of blocks, and so are the locals of    *)
(* pool_try_shrink; prev may be the link in a descriptor.                  *)
LinkTypeOK ==
  /\ s \in LinkStates /\ s.head \in [Levels -> Places \cup {NULL}]
  /\ free_n \in [Levels -> Nat]
  /\ live \subseteq Places \X Levels \X (Nat \ {0})
  /\ cur \in Places \cup {NULL} /\ prev \in Places \cup {HeadOf(k) : k \in Levels}

(* Every list ascends and ends after as many blocks as its counter says:   *)
(* it stays the set of addresses BuddyPool takes it for, though splits,    *)
(* merges and frees rewrite links in the middle of walks.                  *)
ListsAscend ==
  \A k \in Levels :
    /\ Nth(s, k, free_n[k]) = NULL
    /\ \A i \in 0 .. free_n[k] - 1 :
         /\ Nth(s, k, i) \in Places
         /\ i > 0 => Nth(s, k, i - 1) < Nth(s, k, i)

(* The links hold: every word, counter and local has its type, and the     *)
(* lists are those the counters speak of.                                  *)
ListInv == LinkTypeOK /\ ListsAscend

(* The header in front of a block in use says where the block goes when it *)
(* is freed, for as long as it is held: no split, merge, malloc or free of *)
(* its neighbours writes a link over it.                                   *)
HeadersHold ==
  \A m \in live : s.mem[m[1]] = [word |-> m[2] + SHORT * m[3], magic |-> TRUE]

(* The links implement the lists of BuddyPool, step by step.               *)
ImplementsPool == Spec

-----------------------------------------------------------------------------
(* The link that a list with the members S must have in p.                 *)
ListIs(st, k, S) ==
  /\ IsHeadOf(st.head[k], S)
  /\ \A a \in S : IsHeadOf(LinkAt(st, a), After(a, S))

(* During a scan, prev is the link that leads to cur.                      *)
PrevLeads ==
  pc = "scan" => \/ prev = HeadOf(lvl) /\ cur = s.head[lvl]
                 \/ prev \in free[lvl] /\ cur = LinkAt(s, prev)

(* The inductive invariant that BuddyPoolProofs adds to that of the sets.  *)
LinkInv ==
  /\ LinkTypeOK
  /\ free = ListsOf(s)
  /\ \A k \in Levels : free[k] \subseteq Places /\ ListIs(s, k, free[k])
  /\ HeadersHold /\ PrevLeads
==============================================================================
