--------------------------- MODULE MCGuestMalloc -----------------------------
(***************************************************************************)
(* Pages of 4 bytes behind descriptors of 3, in an address space of 44 of  *)
(* which the machine has 36: pools of one to three pages, in any order     *)
(* with memory taken by sbrk and given back, below address 0 and beyond    *)
(* the last one included.                                                  *)
(***************************************************************************)
EXTENDS GuestMalloc

(* Sizes pool_create refuses, one below 0 among them, one that holds a     *)
(* page or none, depending on the break, and more.                         *)
MCSizes == {0, WORD - 7, 2 * PAGE_SIZE, 2 * PAGE_SIZE + 3, 5 * PAGE_SIZE + 1}
==============================================================================
