---------------------------- MODULE MCSizeClass ------------------------------
(***************************************************************************)
(* The size arithmetic with the numbers of rtlib/libs/mem.h, for every     *)
(* request from 1 to MaxSize bytes: one state for each size.  0 is refused *)
(* before any arithmetic.                                                  *)
(***************************************************************************)
EXTENDS SizeClass

CONSTANTS
  Buckets,     (* number of buckets                                        *)
  MaxSize      (* the largest request tried                                *)

ASSUME BucketsAssumption == Buckets \in Nat \ {0} /\ MaxSize \in Nat \ {0}

VARIABLE tried

Page == ObjSize(Buckets - 1)

FirstSize == tried = 1

NextSize == tried < MaxSize /\ tried' = tried + 1

SizesSpec == FirstSize /\ [][NextSize]_tried

NeedsPages == Padded(tried) > Page

(* The bucket a small request is served from exists, and its blocks hold   *)
(* the request with its header: the shifts and the step back of            *)
(* pool_malloc never index below bds[0] or choose a block that is short.   *)
BucketFits ==
  ~ NeedsPages => /\ BucketOf(tried) \in 0 .. Buckets - 1
                  /\ tried + HEADER <= ObjSize(BucketOf(tried))

(* A bucket is the smallest that fits: a block is split as far as it can   *)
(* be.                                                                     *)
BucketSmallest ==
  ~ NeedsPages /\ BucketOf(tried) > 0 => Padded(tried) > ObjSize(BucketOf(tried) - 1)

(* The pages of a large request hold it with its header, and one page less *)
(* would not.                                                              *)
PagesTight ==
  NeedsPages => /\ tried + HEADER <= PagesOf(tried, Page) * Page
                /\ (PagesOf(tried, Page) - 1) * Page < tried + HEADER

(* Whatever its size, a request gets the smallest block, or the fewest     *)
(* pages, that hold it with its header.                                    *)
RequestHeld == BucketFits /\ BucketSmallest /\ PagesTight
==============================================================================
