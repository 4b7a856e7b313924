---------------------------- MODULE MCGuestHeap ------------------------------
(***************************************************************************)
(* The break and the set-up of pools alone, in the address space of        *)
(* MCGuestMalloc.                                                          *)
(***************************************************************************)
EXTENDS GuestHeap

MCSizes == {0, 2 * PAGE_SIZE, 5 * PAGE_SIZE + 1}
==============================================================================
