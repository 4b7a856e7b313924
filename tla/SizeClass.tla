------------------------------ MODULE SizeClass ------------------------------
(***************************************************************************)
(* The size arithmetic of pool_malloc (rtlib/libs/mem.c): the bytes a      *)
(* request occupies once its header is added, and the bucket, or the       *)
(* number of whole pages, that serves it.                                  *)
(***************************************************************************)
EXTENDS Integers

HEADER    == 8      \* sizeof(block_header_t)
MEM_ALIGN == 8
OBJ_MIN   == 16     \* the object size of bucket 0

(* obj_size of bucket k.                                                   *)
ObjSize(k) == OBJ_MIN * 2^k

(* n rounded up to a multiple of unit: the (n + unit - 1) & ~(unit - 1)    *)
(* of the code, for the powers of two it is used with.                     *)
RoundUp(n, unit) == ((n + unit - 1) \div unit) * unit

(* The bytes a request takes in the pool, header included.                 *)
Padded(size) == RoundUp(size + HEADER, MEM_ALIGN)

(* What `while (tmp >>= 1) idx++` counts: the position of the top bit.     *)
TopBit(n) == CHOOSE k \in 0..n : 2^k <= n /\ n < 2^(k + 1)

(* Seeded faults of the bucket index, for the mutation runs: the exact     *)
(* power of two is not given its own bucket, or the offset is one less.    *)
BucketOfNoStepDown(size) == TopBit(Padded(size)) - 3

BucketOfTooSmall(size) == TopBit(Padded(size)) - 4

(* The bucket of a small request.  A size that is an exact power of two    *)
(* fits the bucket of that size, any other one needs the next.             *)
BucketOf(size) ==
  LET top   == TopBit(Padded(size))
      exact == RoundUp(Padded(size), 2^top) = Padded(size)
  IN  (IF exact THEN top - 1 ELSE top) - 3

(* Seeded fault: the last, partly used page is not counted.                *)
PagesOfRoundsDown(size, page) == Padded(size) \div page

(* The pages of a request that is larger than the largest bucket.          *)
PagesOf(size, page) == RoundUp(Padded(size), page) \div page
==============================================================================
