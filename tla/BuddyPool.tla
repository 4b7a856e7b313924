------------------------------ MODULE BuddyPool ------------------------------
(***************************************************************************)
(* The bucket allocator of rtlib/libs/mem.c (simulator/api/mem.c holds the *)
(* same code): pool_create, pool_malloc and pool_free with the functions   *)
(* they call.                                                              *)
(*                                                                         *)
(* Bucket k keeps the free blocks of obj_size OBJ_MIN << k.  Its free list *)
(* is linked in ascending address order, so it is modelled as a set whose  *)
(* least member is the head and in which the successor of a block is the   *)
(* least member above it; free_n is the counter the code keeps beside the  *)
(* list and takes its decisions by.                                        *)
(*                                                                         *)
(* A call runs to completion before the next one starts (one guest thread) *)
(* but not in one step: each round of the recursion of pool_pull_upper and *)
(* of the loop of pool_try_shrink is an action, and pc says where the call *)
(* stands.  "idle" is the only place where a new call may begin.           *)
(***************************************************************************)
EXTENDS SizeClass, FiniteSets

CONSTANTS
  BUDY_COUNT,  (* number of buckets                                        *)
  SHRINK_THD,  (* free blocks a bucket may hold before it is merged        *)
  PoolStart,   (* address of the first page                                *)
  PageCount,   (* pages pool_create put in the top bucket                  *)
  Requests     (* the sizes callers pass to malloc                         *)

Levels == 0 .. BUDY_COUNT - 1
Top    == BUDY_COUNT - 1
NULL   == 0
Size   == [k \in Levels |-> ObjSize(k)]
PoolEnd == PoolStart + PageCount * Size[Top]

ASSUME PoolAssumption ==
  /\ BUDY_COUNT \in Nat \ {0}
  /\ SHRINK_THD \in Nat
  /\ PoolStart \in Nat \ {0}
  /\ PageCount \in Nat \ {0}
  /\ Requests \subseteq Nat

(* pool_create puts the first page on a multiple of PAGE_SIZE.             *)
ASSUME AlignAssumption == PoolStart % Size[Top] = 0

VARIABLES
  free,      (* free[k]: addresses of the free blocks of bucket k          *)
  free_n,    (* free_n[k]: the counter kept beside the list                *)
  live,      (* headers of the blocks handed out: <<address, idx, count>>  *)
  pc,        (* where the running call stands                              *)
  req,       (* the size pool_malloc was called with                       *)
  want,      (* the bucket index pool_malloc computed                      *)
  lvl,       (* idx of the innermost pool_pull_upper or pool_try_shrink    *)
  cur        (* curr of pool_try_shrink                                    *)

lists  == <<free, free_n>>
locals == <<pc, req, want, lvl, cur>>
vars   == <<free, free_n, live, pc, req, want, lvl, cur>>

-----------------------------------------------------------------------------
(* The free lists.                                                         *)

IsFirst(a, S) == a \in S /\ \A b \in S : a <= b

(* The pointer left in curr when S is the rest of the list.                *)
IsHeadOf(p, S) == IF S = {} THEN p = NULL ELSE IsFirst(p, S)

After(a, S) == {b \in S : b > a}

(* The n adjacent blocks of bucket k that start at a.                      *)
Blocks(a, k, n) == {a + i * Size[k] : i \in 0 .. n - 1}

(* Seeded faults of the two operators below.                               *)
UnlinkNothing(f, k, S) == f

AddFreeLosesLast(f, k, a, n) == [f EXCEPT ![k] = @ \cup Blocks(a, k, n - 1)]

(* *prev = start: the blocks S leave the list of bucket k.                 *)
Unlink(f, k, S) == [f EXCEPT ![k] = @ \ S]

(* pool_add_free: n adjacent blocks enter the list in address order.       *)
AddFree(f, k, a, n) == [f EXCEPT ![k] = @ \cup Blocks(a, k, n)]

(* Where n + 1 blocks of the top bucket follow each other: the loop of     *)
(* pool_alloc_continues counts a block only when its successor touches it, *)
(* so the last block of a run is never counted.                            *)
Runs(n) == {a \in free[Top] : Blocks(a, Top, n + 1) \subseteq free[Top]}

(* Seeded fault: the alignment test of pool_try_shrink is dropped.         *)
MergeableAnywhere(a, k) == IsHeadOf(a + Size[k], After(a, free[k]))

(* curr and its successor touch, and curr passes the mask of the code,     *)
(* which is that of obj_size, not that of the pair.                        *)
Mergeable(a, k) ==
  /\ IsHeadOf(a + Size[k], After(a, free[k]))
  /\ a % Size[k] = 0

-----------------------------------------------------------------------------
(* A pool whose pages pool_create has just linked.                         *)
Init ==
  /\ free   = [k \in Levels |-> IF k = Top THEN Blocks(PoolStart, Top, PageCount)
                                           ELSE {}]
  /\ free_n = [k \in Levels |-> IF k = Top THEN PageCount ELSE 0]
  /\ live = {}
  /\ pc = "idle" /\ req = 0 /\ want = 0 /\ lvl = 0 /\ cur = NULL

(* The call returns and its locals are gone.                               *)
Return == pc' = "idle" /\ req' = 0 /\ want' = 0 /\ lvl' = 0 /\ cur' = NULL

-----------------------------------------------------------------------------
(* pool_malloc.                                                            *)

PoolMalloc(size) ==
  /\ pc = "idle"
  /\ pc' = "malloc"
  /\ req' = size
  /\ UNCHANGED <<lists, live, want, lvl, cur>>

MallocNothing ==
  /\ pc = "malloc"
  /\ req = 0
  /\ Return
  /\ UNCHANGED <<lists, live>>

IsLarge(size) == Padded(size) > Size[Top]

(* pool_alloc_continues finds a run of pages, and the header is written    *)
(* in front of the first.                                                  *)
MallocLarge ==
  /\ pc = "malloc"
  /\ req # 0 /\ IsLarge(req)
  /\ LET n == PagesOf(req, Size[Top])
     IN  \E block \in Runs(n) :
           /\ IsFirst(block, Runs(n))
           /\ free'   = Unlink(free, Top, Blocks(block, Top, n))
           /\ free_n' = [free_n EXCEPT ![Top] = @ - n]
           /\ live'   = live \cup {<<block, Top, n>>}
  /\ Return

MallocLargeFails ==
  /\ pc = "malloc"
  /\ req # 0 /\ IsLarge(req)
  /\ Runs(PagesOf(req, Size[Top])) = {}
  /\ Return
  /\ UNCHANGED <<lists, live>>

(* A small request: its bucket is computed and, when that is empty,        *)
(* pool_pull_upper is called for it.                                       *)
MallocSmall ==
  /\ pc = "malloc"
  /\ req # 0 /\ ~ IsLarge(req)
  /\ want' = BucketOf(req)
  /\ lvl' = want'
  /\ pc' = IF free_n[want'] = 0 THEN "pull" ELSE "take"
  /\ UNCHANGED <<lists, live, req, cur>>

(* Seeded fault: the counter is taken down twice.                          *)
TakeBlockCountsTwice ==
  /\ pc = "take"
  /\ free_n[want] # 0
  /\ \E block \in free[want] :
       /\ IsFirst(block, free[want])
       /\ free'   = Unlink(free, want, {block})
       /\ free_n' = [free_n EXCEPT ![want] = @ - 2]
       /\ live'   = live \cup {<<block, want, 1>>}
  /\ Return

TakeBlock ==
  /\ pc = "take"
  /\ free_n[want] # 0
  /\ \E block \in free[want] :
       /\ IsFirst(block, free[want])
       /\ free'   = Unlink(free, want, {block})
       /\ free_n' = [free_n EXCEPT ![want] = @ - 1]
       /\ live'   = live \cup {<<block, want, 1>>}
  /\ Return

TakeFails ==
  /\ pc = "take"
  /\ free_n[want] = 0
  /\ Return
  /\ UNCHANGED <<lists, live>>

-----------------------------------------------------------------------------
(* pool_pull_upper(bds, lvl), one action for each way a level goes: the    *)
(* call for lvl + 1, the split after it, the two early returns.            *)

(* The return into the caller: the level below, or pool_malloc itself.     *)
PullReturns ==
  IF lvl = want THEN pc' = "take"  /\ UNCHANGED lvl
                ELSE pc' = "split" /\ lvl' = lvl - 1

PullAtTop ==
  /\ pc = "pull"
  /\ lvl + 1 >= BUDY_COUNT
  /\ PullReturns
  /\ UNCHANGED <<lists, live, req, want, cur>>

(* Seeded fault: the recursion for the upper bucket is left out.           *)
PullNoRecursion ==
  /\ pc = "pull"
  /\ lvl + 1 < BUDY_COUNT
  /\ pc' = "split"
  /\ UNCHANGED <<lists, live, req, want, lvl, cur>>

PullRecurse ==
  /\ pc = "pull"
  /\ lvl + 1 < BUDY_COUNT
  /\ IF free_n[lvl + 1] = 0 THEN lvl' = lvl + 1 /\ UNCHANGED pc
                            ELSE pc' = "split"  /\ UNCHANGED lvl
  /\ UNCHANGED <<lists, live, req, want, cur>>

PullNothing ==
  /\ pc = "split"
  /\ free_n[lvl + 1] = 0
  /\ PullReturns
  /\ UNCHANGED <<lists, live, req, want, cur>>

PullSplit ==
  /\ pc = "split"
  /\ free_n[lvl + 1] # 0
  /\ \E block \in free[lvl + 1] :
       /\ IsFirst(block, free[lvl + 1])
       /\ free' = AddFree(Unlink(free, lvl + 1, {block}), lvl, block, 2)
       /\ free_n' = [free_n EXCEPT ![lvl + 1] = @ - 1, ![lvl] = @ + 2]
  /\ PullReturns
  /\ UNCHANGED <<live, req, want, cur>>

-----------------------------------------------------------------------------
(* pool_free: the header gives the bucket and the number of blocks, and a  *)
(* bucket above the threshold is merged from this one upwards.             *)
PoolFree(bh) ==
  /\ pc = "idle"
  /\ live' = live \ {bh}
  /\ free'   = AddFree(free, bh[2], bh[1], bh[3])
  /\ free_n' = [free_n EXCEPT ![bh[2]] = @ + bh[3]]
  /\ IF free_n'[bh[2]] > SHRINK_THD
     THEN pc' = "enter" /\ want' = bh[2] /\ lvl' = bh[2] /\ UNCHANGED <<req, cur>>
     ELSE UNCHANGED locals

-----------------------------------------------------------------------------
(* pool_try_shrink(bds, lvl).                                              *)

ShrinkTop ==
  /\ pc = "enter"
  /\ lvl >= BUDY_COUNT - 1
  /\ Return
  /\ UNCHANGED <<lists, live>>

(* Seeded fault: the scan starts behind the head of the list.              *)
ShrinkEnterLate ==
  /\ pc = "enter"
  /\ lvl < BUDY_COUNT - 1
  /\ \E first, p \in free[lvl] \cup {NULL} :
       /\ IsHeadOf(first, free[lvl])
       /\ IsHeadOf(p, After(first, free[lvl]))
       /\ cur' = p
  /\ pc' = "scan"
  /\ UNCHANGED <<lists, live, req, want, lvl>>

ShrinkEnter ==
  /\ pc = "enter"
  /\ lvl < BUDY_COUNT - 1
  /\ \E p \in free[lvl] \cup {NULL} : IsHeadOf(p, free[lvl]) /\ cur' = p
  /\ pc' = "scan"
  /\ UNCHANGED <<lists, live, req, want, lvl>>

(* Seeded fault: the counter loses one block of the merged pair only.      *)
ShrinkMergeCountsOne ==
  /\ pc = "scan"
  /\ cur # NULL /\ Mergeable(cur, lvl)
  /\ LET pair == {cur, cur + Size[lvl]}
     IN  /\ free' = AddFree(Unlink(free, lvl, pair), lvl + 1, cur, 1)
         /\ free_n' = [free_n EXCEPT ![lvl] = @ - 1, ![lvl + 1] = @ + 1]
         /\ \E p \in free[lvl] \cup {NULL} :
              IsHeadOf(p, After(cur + Size[lvl], free[lvl])) /\ cur' = p
  /\ UNCHANGED <<live, pc, req, want, lvl>>

ShrinkMerge ==
  /\ pc = "scan"
  /\ cur # NULL /\ Mergeable(cur, lvl)
  /\ LET pair == {cur, cur + Size[lvl]}
     IN  /\ free' = AddFree(Unlink(free, lvl, pair), lvl + 1, cur, 1)
         /\ free_n' = [free_n EXCEPT ![lvl] = @ - 2, ![lvl + 1] = @ + 1]
         /\ \E p \in free[lvl] \cup {NULL} :
              IsHeadOf(p, After(cur + Size[lvl], free[lvl])) /\ cur' = p
  /\ UNCHANGED <<live, pc, req, want, lvl>>

(* Seeded fault: curr is not advanced past a block that stays.             *)
ShrinkSkipStays ==
  /\ pc = "scan"
  /\ cur # NULL /\ ~ Mergeable(cur, lvl)
  /\ UNCHANGED vars

ShrinkSkip ==
  /\ pc = "scan"
  /\ cur # NULL /\ ~ Mergeable(cur, lvl)
  /\ \E p \in free[lvl] \cup {NULL} : IsHeadOf(p, After(cur, free[lvl])) /\ cur' = p
  /\ UNCHANGED <<lists, live, pc, req, want, lvl>>

ShrinkNextLevel ==
  /\ pc = "scan"
  /\ cur = NULL
  /\ pc' = "enter"
  /\ lvl' = lvl + 1
  /\ UNCHANGED <<lists, live, req, want, cur>>

-----------------------------------------------------------------------------
Malloc == MallocNothing \/ MallocLarge \/ MallocLargeFails \/ MallocSmall
            \/ TakeBlock \/ TakeFails

PullUpper == PullAtTop \/ PullRecurse \/ PullNothing \/ PullSplit

TryShrink == ShrinkTop \/ ShrinkEnter \/ ShrinkMerge \/ ShrinkSkip \/ ShrinkNextLevel

(* The steps of a call that has begun.                                     *)
Running == Malloc \/ PullUpper \/ TryShrink

Next ==
  \/ \E size \in Requests : PoolMalloc(size)
  \/ \E bh \in live : PoolFree(bh)
  \/ Running

Spec == Init /\ [][Next]_vars

(* A call that has begun goes on: nothing in it waits for anybody.         *)
FairSpec == Spec /\ WF_vars(Running)

-----------------------------------------------------------------------------
(* Type invariant: the variables hold what the declarations of the code    *)
(* allow; the counters of bucket_t are unsigned and never go below zero.   *)
TypeOK ==
  /\ free \in [Levels -> SUBSET Nat]
  /\ free_n \in [Levels -> Nat]
  /\ live \subseteq Nat \X Levels \X (Nat \ {0})
  /\ pc \in {"idle", "malloc", "pull", "split", "take", "enter", "scan"}
  /\ req \in Requests \cup {0}
  /\ want \in Levels
  /\ lvl \in Levels
  /\ cur \in Nat

Bytes(bh) == bh[3] * Size[bh[2]]

Apart(a, m, b, n) == a + m <= b \/ b + n <= a

(* The places of a block are stated of any lists f and any headers L, so   *)
(* that what one step does to them can be said once.                       *)
NoOverlap(f, L) ==
  /\ \A k, j \in Levels : \A a \in f[k], b \in f[j] :
       (k = j /\ a = b) \/ Apart(a, Size[k], b, Size[j])
  /\ \A k \in Levels : \A a \in f[k] : \A m \in L :
       Apart(a, Size[k], m[1], Bytes(m))
  /\ \A m, n \in L : m = n \/ Apart(m[1], Bytes(m), n[1], Bytes(n))

Holds(x, f, L) ==
  \/ \E k \in Levels : \E a \in f[k] : a <= x /\ x < a + Size[k]
  \/ \E m \in L : m[1] <= x /\ x < m[1] + Bytes(m)

Within(f, L) ==
  /\ \A k \in Levels : \A a \in f[k] : PoolStart <= a /\ a + Size[k] <= PoolEnd
  /\ \A m \in L : PoolStart <= m[1] /\ m[1] + Bytes(m) <= PoolEnd

Counts(f, c) == \A k \in Levels : c[k] = Cardinality(f[k])

(* No byte of the pool is in two blocks, whether they are free or handed   *)
(* out: splitting, merging, taking and freeing never overlap what another  *)
(* list or another owner holds.                                            *)
Disjoint == NoOverlap(free, live)

(* No byte of the pool is lost: each lies in a free block or in one that   *)
(* was handed out, at every point of every call.                           *)
Covered == \A x \in PoolStart .. PoolEnd - 1 : Holds(x, free, live)

(* Nothing the pool keeps or hands out lies outside the pages it was given.*)
InArena == Within(free, live)

(* free_n, by which pool_malloc and pool_pull_upper decide whether a list  *)
(* may be dereferenced, is the length of that list.                        *)
CountersMatch == Counts(free, free_n)

(* A small request is refused only when neither its bucket nor any larger  *)
(* one has a block left: the recursion of pool_pull_upper overlooks none.  *)
RefusedOnlyWhenDry ==
  [][TakeFails => \A k \in want .. Top : free[k] = {}]_vars

(* pool_try_shrink leaves no pair behind that its own test would merge, in *)
(* any bucket it has been through during this call.                        *)
NothingLeftToMerge ==
  pc \in {"enter", "scan"} =>
    \A k \in want .. lvl - 1 : \A a \in free[k] : ~ Mergeable(a, k)

(* Blocks are aligned to half their size only, because pool_try_shrink     *)
(* masks with obj_size and so merges pairs that are not buddies; no        *)
(* sequence of merges and splits makes it worse than half.                 *)
HalfAligned ==
  LET grain(k) == IF k = 0 THEN Size[0] ELSE Size[k - 1]
  IN  /\ \A k \in Levels : \A a \in free[k] : a % grain(k) = 0
      /\ \A m \in live : m[1] % grain(m[2]) = 0

(* Every call of pool_malloc and pool_free returns: the recursion over the *)
(* buckets and the loop over a list that is rewritten under it both end.   *)
EveryCallReturns == pc # "idle" ~> pc = "idle"

(* Where a call stands, beyond what the types say.  In pool_pull_upper     *)
(* every bucket from the wanted one to the current one is empty, and an    *)
(* upper call that brought nothing found everything above it empty; in     *)
(* pool_try_shrink the scan stands on a block of its list, and the blocks  *)
(* behind it do not merge.                                                 *)
Dry(k) == \A j \in k .. Top : free_n[j] = 0

CallInv ==
  /\ pc \in {"pull", "split", "take"} =>
       req \in Requests \ {0} /\ ~ IsLarge(req) /\ want = BucketOf(req)
  /\ pc \in {"pull", "split"} =>
       want <= lvl /\ \A j \in want .. lvl : free_n[j] = 0
  /\ pc = "split" => lvl < Top /\ (free_n[lvl + 1] = 0 => Dry(lvl + 1))
  /\ pc = "take" => (free_n[want] = 0 => Dry(want))
  /\ pc \in {"enter", "scan"} => want <= lvl
  /\ pc = "scan" =>
       /\ lvl < Top
       /\ cur = NULL \/ cur \in free[lvl]
       /\ \A a \in free[lvl] : cur = NULL \/ a < cur => ~ Mergeable(a, lvl)

(* The inductive invariant the theorems of BuddyPoolProofs rest on.        *)
PoolInv ==
  /\ TypeOK /\ InArena /\ Disjoint /\ Covered /\ CountersMatch
  /\ CallInv /\ NothingLeftToMerge

(* The pool keeps the promise of a heap.                                   *)
Heap == INSTANCE HeapSpec WITH
          ArenaLo   <- PoolStart,
          ArenaHi   <- PoolEnd,
          Header    <- HEADER,
          NoRequest <- -1,
          owned     <- {<<m[1], Bytes(m)>> : m \in live},
          pending   <- IF pc \in {"malloc", "pull", "split", "take"} THEN req ELSE -1

ImplementsHeap == Heap!Spec
==============================================================================
